------------------------------ MODULE GateProofs ------------------------------
(* What is shown as ready and what is approved for release passes the checks *)
(* as it stands, and an approval is given on approvals that are current, for *)
(* any features, domains and edits at any moment. Reads of one command take  *)
(* long, and what holds of them holds because a command only sees files come *)
(* in new versions: a version that was known when it began and is there now  *)
(* was there at every moment in between.                                     *)
(* In its second half, the workflow evidence that a gate validates: what is  *)
(* accepted of declarations happened, for any sessions and any transcripts,  *)
(* because a transcript is only ever appended to.                            *)
EXTENDS ReleaseGate, WorkflowEvidence,
        SequenceTheorems, FiniteSetTheorems, WellFoundedInduction, TLAPS

(* The versions of some files, and the shape of each variable.               *)
Snapshots == UNION {[S -> Nat] : S \in SUBSET Paths}
Manifests == [features : SUBSET Features, artifacts : Snapshots]
Records ==
  [op : {"record"}, slot : Slots, expected : Manifests, features : SUBSET Features]
Gates ==
  [op : {"gate"}, for : Records \union {NoCommand}, step : {"before", "checks", "after"},
   left : SUBSET Paths, inputs : Snapshots, seen : Snapshots,
   pass : BOOLEAN, approved : BOOLEAN, stable : BOOLEAN]
Writers == [op : {"manifest"}, for : Records, left : SUBSET Paths, read : Snapshots]

TypeOK ==
  /\ content \in [Paths -> Nat] /\ newest \in [Paths -> Nat] /\ restores \in Nat
  /\ reviewed \in [slot : Slots, manifest : Manifests]
  /\ approvals \in [Slots -> Manifests]
  /\ quality \in [status : {"skipped", "pass", "fail"}, fingerprints : Snapshots]
  /\ cmd \in Records \union Gates \union Writers \union {NoCommand}

-----------------------------------------------------------------------------
(* With c the versions of the files and n the newest versions made of them:  *)
(* what was read was made, and the files it was read of are there.           *)
Known(n, read) == \A p \in DOMAIN read : read[p] <= n[p]
Present(c, read) == \A p \in DOMAIN read : c[p] > 0

(* What of an old reading is still there was read again, unless left to read.*)
Agrees(c, old, later, left) ==
  \A p \in DOMAIN old :
    c[p] > 0 /\ old[p] = c[p] => p \in left \/ (p \in DOMAIN later /\ later[p] = old[p])

Owns(d, f) == Domains = {} \/ d \in Owner[f]

FeaturesIn(c, slot) ==
  IF slot = release THEN {} ELSE {f \in Features : c[req(f)] > 0 /\ Owns(slot[2], f)}

(* The paths a stage covers, whether there is a file or not.                 *)
Covers(slot, features) ==
  CASE slot[1] = "requirements" -> {req(f) : f \in features}
    [] slot[1] = "design" -> UNION {{req(f), design(f)} : f \in features}
    [] slot[1] = "release" -> Paths

CoveredIn(c, slot) == {p \in Paths : c[p] > 0 /\ p \in Covers(slot, FeaturesIn(c, slot))}
ManifestIn(c, slot) ==
  [features |-> FeaturesIn(c, slot), artifacts |-> [p \in CoveredIn(c, slot) |-> c[p]]]
CurrentIn(c, a, slot) == a[slot] # None /\ a[slot] = ManifestIn(c, slot)

RestsOn(c, a, slot) == \A e \in Earlier(slot) : CurrentIn(c, a, e)

-----------------------------------------------------------------------------
VersionInv == Known(newest, content)

(* The approval of the release passes the checks; that of a stage says       *)
(* nothing of the stages before it once they are approved again.             *)
ApprovalInv == approvals[release] # None => Passes(approvals[release].artifacts)

ReviewInv == Known(newest, reviewed.manifest.artifacts)

QualityInv == quality.status = "pass" => DocumentsPass(quality.fingerprints)

(* An approval being recorded: should it turn out to be current, then so are *)
(* those it rests on.                                                        *)
Recording(c, n, a, for) ==
  /\ Known(n, for.expected.artifacts)
  /\ for.expected = ManifestIn(c, for.slot) => RestsOn(c, a, for.slot)

(* Something that passed the checks was read since the manifest was shown.   *)
Passed(c, expected, seen) ==
  /\ seen \in Snapshots /\ Passes(seen) /\ Present(c, seen)
  /\ Agrees(c, expected.artifacts, seen, {})

RecordInv ==
  cmd.op = "record" =>
    /\ Recording(content, newest, approvals, cmd)
    /\ cmd.slot = release => \E seen \in Snapshots : Passed(content, cmd.expected, seen)

(* What was read of the manifest is what passed the checks.                  *)
Vouched(c, writer, seen) ==
  /\ Passed(c, writer.for.expected, seen)
  /\ DOMAIN seen \subseteq DOMAIN writer.for.expected.artifacts
  /\ \A p \in DOMAIN writer.read : p \in DOMAIN seen /\ seen[p] = writer.read[p]

WriterInv ==
  cmd.op = "manifest" =>
    /\ Recording(content, newest, approvals, cmd.for)
    /\ DOMAIN cmd.for.expected.artifacts = cmd.left \union DOMAIN cmd.read
    /\ \A p \in cmd.left : content[p] > 0
    /\ \A p \in DOMAIN cmd.read : cmd.read[p] = cmd.for.expected.artifacts[p]
    /\ cmd.for.slot = release => \E seen \in Snapshots : Vouched(content, cmd, seen)

ForInv ==
  cmd.for # NoCommand =>
    Recording(content, newest, approvals, cmd.for) /\ cmd.for.slot = release

(* What a gate read before its checks, and what it still has to read.        *)
InputInv ==
  /\ Known(newest, cmd.inputs) /\ Present(content, cmd.inputs)
  /\ skills \notin DOMAIN cmd.inputs
  /\ \A p \in cmd.left : content[p] > 0

BeforeInv == InputInv /\ skills \notin cmd.left /\ DOMAIN cmd.seen = {}

ChecksInv ==
  /\ InputInv /\ Present(content, cmd.seen)
  /\ Agrees(content, cmd.inputs, cmd.seen, cmd.left)
  /\ cmd.for # NoCommand => Agrees(content, cmd.for.expected.artifacts, cmd.seen, cmd.left)

(* What was read for the checks is confirmed by what is read after them.     *)
Confirms(c, gate, seen) ==
  /\ Passes(seen) /\ DOMAIN seen \ {skills} \subseteq DOMAIN gate.inputs \union gate.left
  /\ Agrees(c, gate.inputs, seen, {})
  /\ \A p \in DOMAIN gate.inputs \ gate.left : p \in DOMAIN seen /\ seen[p] = gate.inputs[p]
  /\ gate.for # NoCommand => Passed(c, gate.for.expected, seen)

AfterInv ==
  cmd.pass /\ cmd.stable =>
    InputInv /\ skills \notin cmd.left /\ \E seen \in Snapshots : Confirms(content, cmd, seen)

GateInv ==
  cmd.op = "gate" =>
    /\ ForInv
    /\ cmd.step = "before" => BeforeInv
    /\ cmd.step = "checks" => ChecksInv
    /\ cmd.step = "after" => AfterInv

IInv ==
  /\ TypeOK /\ VersionInv /\ ApprovalInv /\ ReviewInv /\ QualityInv
  /\ RecordInv /\ WriterInv /\ GateInv

-----------------------------------------------------------------------------
(* What the operators of the model say in terms of these.                    *)

LEMMA SlotKinds ==
  /\ release \in Slots /\ release[1] = "release"
  /\ \A slot \in Slots :
       /\ slot[1] \in {"requirements", "design", "release"}
       /\ slot[1] = "release" => slot = release
       /\ slot # release => slot[2] \in Scopes /\ slot = <<slot[1], slot[2]>>
BY DEF Slots, release

(* Where a stage's paths and features come from.                             *)
LEMMA FeaturesAre ==
  ASSUME NEW slot \in Slots
  PROVE  FeaturesOf(slot) = FeaturesIn(content, slot)
<1>1. CASE slot = release
  BY <1>1 DEF FeaturesOf, FeaturesIn
<1>2. CASE slot # release
  <2>1. slot[2] \in Scopes
    BY <1>2 DEF Slots
  <2>2. \A f \in Features : req(f) \in files <=> content[req(f)] > 0
    BY DEF files, Paths
  <2>3. resolveDomains[slot[2]] = {f \in Features : content[req(f)] > 0 /\ Owns(slot[2], f)}
    BY <2>1, <2>2 DEF resolveDomains, slugs, Owns
  <2> QED
    BY <1>2, <2>3 DEF FeaturesOf, FeaturesIn
<1> QED
  BY <1>1, <1>2

LEMMA StagePathsAre ==
  ASSUME NEW slot \in Slots, NEW features
  PROVE  stagePaths(slot, features) = files \intersect Covers(slot, features)
<1>1. slot[1] \in {"requirements", "design", "release"}
  BY DEF Slots, release
<1>2. files \subseteq Paths
  BY DEF files
<1> QED
  BY <1>1, <1>2 DEF stagePaths, Covers

(* The manifest of the slot as its files are now.                            *)
LEMMA ManifestIs ==
  ASSUME TypeOK, NEW slot \in Slots
  PROVE  /\ approvalManifest(slot) = ManifestIn(content, slot)
         /\ ManifestIn(content, slot) \in Manifests
         /\ VersionInv => Known(newest, ManifestIn(content, slot).artifacts)
<1> DEFINE features == FeaturesIn(content, slot)
           paths == CoveredIn(content, slot)
<1>1. paths = stagePaths(slot, features)
  BY StagePathsAre DEF CoveredIn, files
<1>2. approvalManifest(slot) = ManifestIn(content, slot)
  BY <1>1, FeaturesAre DEF approvalManifest, snapshot, ManifestIn
<1>3. paths \in SUBSET Paths /\ [p \in paths |-> content[p]] \in [paths -> Nat]
  BY DEF CoveredIn, TypeOK
<1>4. features \subseteq Features
  BY DEF FeaturesIn
<1>5. ManifestIn(content, slot) = [features |-> features, artifacts |-> [p \in paths |-> content[p]]]
  BY DEF ManifestIn
<1> HIDE DEF features, paths
<1>6. [p \in paths |-> content[p]] \in Snapshots
  BY <1>3 DEF Snapshots
<1>7. VersionInv => Known(newest, [p \in paths |-> content[p]])
  BY <1>3 DEF VersionInv, Known, TypeOK
<1> QED
  BY <1>2, <1>4, <1>5, <1>6, <1>7 DEF Manifests

LEMMA ApprovedIs ==
  ASSUME TypeOK, NEW slot \in Slots
  PROVE  Approved(slot) <=> CurrentIn(content, approvals, slot)
BY ManifestIs DEF Approved, CurrentIn

-----------------------------------------------------------------------------
(* What the files may become while a command runs: none goes away, and a     *)
(* version that was not there is newer than every version made before.       *)
Later(c, n, d, m) ==
  /\ c \in [Paths -> Nat] /\ n \in [Paths -> Nat]
  /\ d \in [Paths -> Nat] /\ m \in [Paths -> Nat]
  /\ \A p \in Paths : n[p] <= m[p] /\ (c[p] > 0 => d[p] > 0) /\ (d[p] = c[p] \/ d[p] > n[p])

LEMMA ReadLater ==
  ASSUME NEW c, NEW n, NEW d, NEW m, Later(c, n, d, m), NEW read \in Snapshots
  PROVE  /\ Known(n, read) => Known(m, read)
         /\ Present(c, read) => Present(d, read)
         /\ \A later, left : Known(n, read) /\ Agrees(c, read, later, left)
                               => Agrees(d, read, later, left)
<1>1. PICK S \in SUBSET Paths : read \in [S -> Nat]
  BY DEF Snapshots
<1>2. Known(n, read) => Known(m, read)
  BY <1>1 DEF Later, Known
<1>3. Present(c, read) => Present(d, read)
  BY <1>1 DEF Later, Present
<1>4. ASSUME NEW later, NEW left, Known(n, read), Agrees(c, read, later, left)
      PROVE  Agrees(d, read, later, left)
  <2> SUFFICES ASSUME NEW p \in DOMAIN read, d[p] > 0, read[p] = d[p]
               PROVE  p \in left \/ (p \in DOMAIN later /\ later[p] = read[p])
    BY DEF Agrees
  <2>1. p \in Paths /\ read[p] <= n[p] /\ n[p] \in Nat /\ d[p] \in Nat
    BY <1>1, <1>4 DEF Known, Later
  <2>2. d[p] = c[p]
    BY <2>1 DEF Later
  <2> QED
    BY <1>4, <2>2 DEF Agrees
<1> QED
  BY <1>2, <1>3, <1>4

LEMMA PassedLater ==
  ASSUME NEW c, NEW n, NEW d, NEW m, Later(c, n, d, m), NEW expected \in Manifests,
         Known(n, expected.artifacts), NEW seen, Passed(c, expected, seen)
  PROVE  Passed(d, expected, seen)
<1>1. expected.artifacts \in Snapshots
  BY DEF Manifests
<1> QED
  BY <1>1, ReadLater DEF Passed

(* When what a stage covers is what it was, so is its manifest.              *)
LEMMA ManifestKept ==
  ASSUME NEW c, NEW n, NEW d, NEW m, Later(c, n, d, m), NEW slot \in Slots,
         \A p \in CoveredIn(d, slot) : d[p] = c[p]
  PROVE  ManifestIn(c, slot) = ManifestIn(d, slot)
<1>1. \A f \in Features : req(f) \in Paths
  BY DEF Paths
<1>2. ASSUME slot # release, NEW f \in FeaturesIn(d, slot) PROVE d[req(f)] = c[req(f)]
  <2>1. f \in Features /\ d[req(f)] > 0
    BY <1>2 DEF FeaturesIn
  <2>2. req(f) \in Covers(slot, FeaturesIn(d, slot))
    BY <1>2, SlotKinds DEF Covers
  <2> QED
    BY <1>1, <2>1, <2>2 DEF CoveredIn
<1>3. FeaturesIn(c, slot) = FeaturesIn(d, slot)
  BY <1>1, <1>2 DEF FeaturesIn, Later
<1>4. CoveredIn(c, slot) = CoveredIn(d, slot)
  BY <1>3 DEF CoveredIn, Later
<1> QED
  BY <1>3, <1>4 DEF ManifestIn

(* What an earlier stage covers, the later one covers too.                   *)
LEMMA EarlierIsCovered ==
  ASSUME NEW c, NEW slot \in Slots, NEW e \in Earlier(slot)
  PROVE  e \in Slots /\ e # slot /\ CoveredIn(c, e) \subseteq CoveredIn(c, slot)
<1>1. e \in Slots
  BY DEF Earlier
<1>2. CASE slot = release
  BY <1>1, <1>2, SlotKinds DEF Earlier, CoveredIn, Covers
<1>3. CASE slot # release
  <2>1. slot[1] = "design" /\ e = <<"requirements", slot[2]>> /\ e[1] = "requirements"
        /\ e[2] = slot[2] /\ e # release
    BY <1>3 DEF Earlier, release
  <2>2. FeaturesIn(c, e) = FeaturesIn(c, slot)
    BY <1>3, <2>1 DEF FeaturesIn
  <2> QED
    BY <1>1, <2>1, <2>2 DEF CoveredIn, Covers
<1> QED
  BY <1>2, <1>3

LEMMA RecordingLater ==
  ASSUME NEW c, NEW n, NEW d, NEW m, Later(c, n, d, m), NEW a, NEW for \in Records,
         Recording(c, n, a, for)
  PROVE  Recording(d, m, a, for)
<1> DEFINE slot == for.slot  expected == for.expected
<1>1. slot \in Slots /\ expected.artifacts \in Snapshots
  BY DEF Records, Manifests
<1>2. Known(m, expected.artifacts) /\ Known(n, expected.artifacts)
  BY <1>1, ReadLater DEF Recording
<1>3. ASSUME expected = ManifestIn(d, slot) PROVE RestsOn(d, a, slot)
  <2>1. \A p \in CoveredIn(d, slot) : p \in Paths /\ d[p] <= n[p]
    BY <1>2, <1>3 DEF ManifestIn, Known, CoveredIn
  <2>2. \A p \in CoveredIn(d, slot) : d[p] = c[p]
    BY <2>1 DEF Later
  <2>3. ManifestIn(c, slot) = ManifestIn(d, slot)
    BY <1>1, <2>2, ManifestKept
  <2>4. RestsOn(c, a, slot)
    BY <1>3, <2>3 DEF Recording
  <2>5. ASSUME NEW e \in Earlier(slot) PROVE CurrentIn(d, a, e)
    <3>1. e \in Slots /\ \A p \in CoveredIn(d, e) : d[p] = c[p]
      BY <1>1, <2>2, EarlierIsCovered
    <3>2. ManifestIn(c, e) = ManifestIn(d, e)
      BY <3>1, ManifestKept
    <3> QED
      BY <2>4, <3>2 DEF RestsOn, CurrentIn
  <2> QED
    BY <2>5 DEF RestsOn
<1> QED
  BY <1>2, <1>3 DEF Recording

(* A file read now is one more file read some time.                          *)
LEMMA WithVersionIs ==
  ASSUME TypeOK, VersionInv, NEW read \in Snapshots, NEW p \in Paths, content[p] > 0
  PROVE  LET new == WithVersion(read, p) IN
         /\ new \in Snapshots /\ DOMAIN new = DOMAIN read \union {p}
         /\ \A q \in DOMAIN new : new[q] = IF q = p THEN content[p] ELSE read[q]
         /\ Known(newest, read) => Known(newest, new)
         /\ Present(content, read) => Present(content, new)
         /\ \A old \in Snapshots : \A left :
              Agrees(content, old, read, left) => Agrees(content, old, new, left \ {p})
<1> DEFINE new == WithVersion(read, p)
<1>1. PICK S \in SUBSET Paths : read \in [S -> Nat]
  BY DEF Snapshots
<1>2. content[p] \in Nat /\ content[p] <= newest[p]
  BY DEF TypeOK, VersionInv, Known
<1>3. new \in [S \union {p} -> Nat]
  BY <1>1, <1>2 DEF WithVersion
<1>4. new \in Snapshots
  BY <1>1, <1>3 DEF Snapshots
<1>5. /\ DOMAIN new = DOMAIN read \union {p}
      /\ \A q \in DOMAIN new : new[q] = IF q = p THEN content[p] ELSE read[q]
  BY <1>1, <1>3 DEF WithVersion
<1> HIDE DEF new
<1>6. Known(newest, read) => Known(newest, new)
  BY <1>2, <1>5 DEF Known
<1>7. Present(content, read) => Present(content, new)
  BY <1>5 DEF Present
<1>8. \A old \in Snapshots : \A left :
        Agrees(content, old, read, left) => Agrees(content, old, new, left \ {p})
  BY <1>5 DEF Agrees
<1> QED
  BY <1>4, <1>5, <1>6, <1>7, <1>8 DEF new

-----------------------------------------------------------------------------
(* The kind of a command is told by its op.                                  *)
LEMMA Kinds ==
  ASSUME TypeOK
  PROVE  /\ cmd.op = "gate" => cmd \in Gates
         /\ cmd.op = "record" => cmd \in Records
         /\ cmd.op = "manifest" => cmd \in Writers
BY DEF TypeOK, Gates, Records, Writers, NoCommand

LEMMA NoneIsManifest == None \in Manifests /\ <<>> \in Snapshots /\ DOMAIN <<>> = {}
<1>1. <<>> \in [{} -> Nat] /\ DOMAIN <<>> = {}
  OBVIOUS
<1>2. <<>> \in Snapshots
  BY <1>1 DEF Snapshots
<1> QED
  BY <1>1, <1>2 DEF None, Manifests

LEMMA InitIsGood == Init => IInv
<1> SUFFICES ASSUME Init PROVE IInv
  OBVIOUS
<1> USE DEF Init
<1>1. TypeOK
  BY NoneIsManifest, SlotKinds DEF TypeOK, NoQuality, NoCommand
<1>2. VersionInv
  BY <1>1 DEF VersionInv, Known, TypeOK
<1>3. ApprovalInv /\ ReviewInv /\ QualityInv
  BY NoneIsManifest, SlotKinds DEF ApprovalInv, ReviewInv, QualityInv, NoQuality, None, Known
<1>4. RecordInv /\ WriterInv /\ GateInv
  BY DEF RecordInv, WriterInv, GateInv, NoCommand
<1> QED
  BY <1>1, <1>2, <1>3, <1>4 DEF IInv

(* An edit makes nothing that was read untrue of the past.                   *)
LEMMA EditKeepsIInv == ASSUME IInv, NEW p \in Paths, Edit(p) PROVE IInv'
<1>0. /\ content' = [content EXCEPT ![p] = newest[p] + 1]
      /\ newest' = [newest EXCEPT ![p] = @ + 1]
      /\ restores' = restores /\ reviewed' = reviewed /\ approvals' = approvals
      /\ quality' = quality /\ cmd' = cmd
  BY DEF Edit
<1> HIDE DEF Edit
<1>1. TypeOK /\ VersionInv
  BY DEF IInv
<1>2. /\ cmd.op = "gate" => cmd \in Gates
      /\ cmd.op = "record" => cmd \in Records
      /\ cmd.op = "manifest" => cmd \in Writers
  BY <1>1, Kinds
<1>3. Later(content, newest, content', newest')
  BY <1>0, <1>1 DEF TypeOK, VersionInv, Known, Later
<1>4. TypeOK' /\ VersionInv'
  BY <1>0, <1>1, <1>3 DEF TypeOK, VersionInv, Known, Later
<1>5. reviewed.manifest \in Manifests /\ reviewed.manifest.artifacts \in Snapshots
  BY <1>1 DEF TypeOK, Manifests
<1>6. ApprovalInv' /\ ReviewInv' /\ QualityInv'
  BY <1>0, <1>3, <1>5, ReadLater DEF IInv, ApprovalInv, ReviewInv, QualityInv
<1>7. RecordInv'
  <2> SUFFICES ASSUME cmd.op = "record" PROVE RecordInv'
    BY <1>0 DEF RecordInv
  <2>1. /\ cmd \in Records /\ cmd.expected \in Manifests
        /\ Recording(content, newest, approvals, cmd)
    BY <1>2 DEF IInv, RecordInv, Records
  <2>2. Recording(content', newest', approvals, cmd)
    BY <1>3, <2>1, RecordingLater
  <2>3. \A seen : Passed(content, cmd.expected, seen) => Passed(content', cmd.expected, seen)
    BY <1>3, <2>1, PassedLater DEF Recording
  <2> QED
    BY <1>0, <2>2, <2>3 DEF IInv, RecordInv
<1>8. WriterInv'
  <2> SUFFICES ASSUME cmd.op = "manifest" PROVE WriterInv'
    BY <1>0 DEF WriterInv
  <2>1. /\ cmd.for \in Records /\ cmd.for.expected \in Manifests /\ cmd.left \subseteq Paths
        /\ Recording(content, newest, approvals, cmd.for)
    BY <1>2 DEF IInv, WriterInv, Writers, Records
  <2>2. Recording(content', newest', approvals, cmd.for)
    BY <1>3, <2>1, RecordingLater
  <2>3. \A seen : Vouched(content, cmd, seen) => Vouched(content', cmd, seen)
    BY <1>3, <2>1, PassedLater DEF Recording, Vouched
  <2>4. \A q \in cmd.left : content[q] > 0 => content'[q] > 0
    BY <1>3, <2>1 DEF Later
  <2> QED
    BY <1>0, <2>2, <2>3, <2>4 DEF IInv, WriterInv
<1>9. GateInv'
  <2> SUFFICES ASSUME cmd.op = "gate" PROVE GateInv'
    BY <1>0 DEF GateInv
  <2>1. /\ cmd.for \in Records \union {NoCommand} /\ cmd.left \subseteq Paths
        /\ cmd.inputs \in Snapshots /\ cmd.seen \in Snapshots
    BY <1>2 DEF Gates
  <2>2. cmd.for # NoCommand =>
          /\ cmd.for \in Records /\ cmd.for.expected \in Manifests
          /\ cmd.for.expected.artifacts \in Snapshots
          /\ Recording(content, newest, approvals, cmd.for)
          /\ Known(newest, cmd.for.expected.artifacts)
    BY <2>1 DEF IInv, GateInv, ForInv, Records, Manifests, Recording
  <2>3. ForInv'
    BY <1>0, <1>3, <2>2, RecordingLater DEF IInv, GateInv, ForInv
  <2>4. InputInv => InputInv'
    <3> SUFFICES ASSUME InputInv PROVE InputInv'
      OBVIOUS
    <3>1. Known(newest', cmd.inputs) /\ Present(content', cmd.inputs)
      BY <1>3, <2>1, ReadLater DEF InputInv
    <3>2. \A q \in cmd.left : content'[q] > 0
      BY <1>3, <2>1 DEF InputInv, Later
    <3> QED
      BY <1>0, <3>1, <3>2 DEF InputInv
  <2>5. (cmd.step = "before" => BeforeInv)'
    BY <1>0, <2>4 DEF IInv, GateInv, BeforeInv
  <2>6. (cmd.step = "checks" => ChecksInv)'
    <3> SUFFICES ASSUME cmd.step = "checks" PROVE ChecksInv'
      BY <1>0
    <3>1. ChecksInv
      BY DEF IInv, GateInv
    <3>2. Present(content', cmd.seen) /\ Agrees(content', cmd.inputs, cmd.seen, cmd.left)
      BY <1>3, <2>1, <3>1, ReadLater DEF ChecksInv, InputInv
    <3>3. cmd.for # NoCommand =>
            Agrees(content', cmd.for.expected.artifacts, cmd.seen, cmd.left)
      BY <1>3, <2>2, <3>1, ReadLater DEF ChecksInv
    <3> QED
      BY <1>0, <2>4, <3>1, <3>2, <3>3 DEF ChecksInv
  <2>7. (cmd.step = "after" => AfterInv)'
    <3> SUFFICES ASSUME cmd.step = "after", cmd.pass, cmd.stable PROVE AfterInv'
      BY <1>0 DEF AfterInv
    <3>1. InputInv /\ skills \notin cmd.left
      BY DEF IInv, GateInv, AfterInv
    <3>2. PICK seen \in Snapshots : Confirms(content, cmd, seen)
      BY DEF IInv, GateInv, AfterInv
    <3>3. Agrees(content', cmd.inputs, seen, {})
      BY <1>3, <2>1, <3>1, <3>2, ReadLater DEF Confirms, InputInv
    <3>4. cmd.for # NoCommand => Passed(content', cmd.for.expected, seen)
      BY <1>3, <2>2, <3>2, PassedLater DEF Confirms
    <3>5. Confirms(content', cmd, seen)
      BY <3>2, <3>3, <3>4 DEF Confirms
    <3> QED
      BY <1>0, <2>4, <3>1, <3>5 DEF AfterInv
  <2> QED
    BY <1>0, <2>3, <2>5, <2>6, <2>7 DEF GateInv
<1> QED
  BY <1>4, <1>6, <1>7, <1>8, <1>9 DEF IInv

(* Between commands nothing was read that a later step relies on.            *)
LEMMA RestoreKeepsIInv == ASSUME IInv, NEW p \in Paths, Restore(p) PROVE IInv'
<1>1. PICK version \in 0..newest[p] \ {content[p]} :
        content' = [content EXCEPT ![p] = version]
  BY DEF Restore
<1>2. cmd = NoCommand /\ restores' = restores + 1
      /\ UNCHANGED <<newest, reviewed, approvals, quality, cmd>>
  BY DEF Restore, Idle
<1>3. TypeOK' /\ VersionInv'
  BY <1>1, <1>2 DEF IInv, TypeOK, VersionInv, Known
<1>4. ApprovalInv' /\ ReviewInv' /\ QualityInv'
  BY <1>2 DEF IInv, ApprovalInv, ReviewInv, QualityInv
<1>5. RecordInv' /\ WriterInv' /\ GateInv'
  BY <1>2 DEF RecordInv, WriterInv, GateInv, NoCommand
<1> QED
  BY <1>3, <1>4, <1>5 DEF IInv

LEMMA PrepareKeepsIInv == ASSUME IInv, NEW slot \in Slots, Prepare(slot) PROVE IInv'
<1> USE DEF Prepare
<1>1. /\ approvalManifest(slot) \in Manifests
      /\ Known(newest, approvalManifest(slot).artifacts)
  BY ManifestIs DEF IInv
<1>2. TypeOK'
  BY <1>1 DEF IInv, TypeOK
<1>3. ReviewInv'
  BY <1>1 DEF ReviewInv
<1>4. VersionInv' /\ ApprovalInv' /\ QualityInv' /\ RecordInv' /\ WriterInv' /\ GateInv'
  BY DEF IInv, VersionInv, ApprovalInv, QualityInv, RecordInv, WriterInv, GateInv, Idle, NoCommand
<1> QED
  BY <1>2, <1>3, <1>4 DEF IInv

(* A gate begins with nothing read.                                          *)
LEMMA GateBegins ==
  ASSUME TypeOK, NEW for \in Records \union {NoCommand}
  PROVE  /\ Gate(for) \in Gates /\ Gate(for).op = "gate" /\ Gate(for).step = "before"
         /\ Gate(for).for = for /\ DOMAIN Gate(for).seen = {} /\ DOMAIN Gate(for).inputs = {}
         /\ skills \notin Gate(for).left
         /\ \A p \in Gate(for).left : content[p] > 0
<1>1. evidenceInputPaths \subseteq Paths /\ skills \notin evidenceInputPaths
      /\ \A p \in evidenceInputPaths : content[p] > 0
  BY DEF evidenceInputPaths, files
<1>2. Gate(for) \in Gates
  BY <1>1, NoneIsManifest DEF Gate, Gates
<1> QED
  BY <1>1, <1>2, NoneIsManifest DEF Gate

LEMMA RunGateKeepsIInv == ASSUME IInv, runGate PROVE IInv'
<1> USE DEF runGate
<1>1. TypeOK /\ TypeOK' /\ cmd' \in Gates
  BY GateBegins DEF IInv, TypeOK
<1>2. GateInv'
  BY <1>1, GateBegins DEF GateInv, ForInv, BeforeInv, InputInv, Known, Present
<1>3. VersionInv' /\ ApprovalInv' /\ ReviewInv' /\ QualityInv' /\ RecordInv' /\ WriterInv'
  BY <1>1, GateBegins
     DEF IInv, VersionInv, ApprovalInv, ReviewInv, QualityInv, RecordInv, WriterInv
<1> QED
  BY <1>1, <1>2, <1>3 DEF IInv

(* When an approval begins to be recorded, the stages before are current.    *)
LEMMA RecordingBegins ==
  ASSUME IInv, NEW for \in Records, RequiredApprovals(for.slot),
         for.slot = reviewed.slot, for.expected = reviewed.manifest
  PROVE  Recording(content, newest, approvals, for)
<1> DEFINE slot == for.slot
<1>1. TypeOK /\ slot \in Slots /\ Known(newest, for.expected.artifacts)
  BY DEF IInv, Records, ReviewInv
<1>2. ASSUME NEW e \in Earlier(slot) PROVE CurrentIn(content, approvals, e)
  <2>1. e \in Slots
    BY DEF Earlier
  <2>2. Approved(e)
    BY <1>1, <2>1, SlotKinds DEF RequiredApprovals, Earlier
  <2> QED
    BY <1>1, <2>1, <2>2, ApprovedIs
<1> QED
  BY <1>1, <1>2 DEF Recording, RestsOn

LEMMA RecordKeepsIInv == ASSUME IInv, NEW slot \in Slots, recordApproval(slot) PROVE IInv'
<1> DEFINE for == [op |-> "record", slot |-> slot, expected |-> reviewed.manifest,
                   features |-> FeaturesOf(slot)]
<1>1. /\ reviewed.slot = slot /\ RequiredApprovals(slot)
      /\ cmd' = (IF slot = release THEN Gate(for) ELSE for)
      /\ content' = content /\ newest' = newest /\ restores' = restores
      /\ reviewed' = reviewed /\ approvals' = approvals /\ quality' = quality
  BY DEF recordApproval
<1>2. TypeOK /\ FeaturesOf(slot) \subseteq Features
  BY FeaturesAre DEF IInv, FeaturesIn
<1>3. for \in Records /\ for.slot = slot /\ for.expected = reviewed.manifest /\ for.op = "record"
  BY <1>2 DEF Records, TypeOK
<1> HIDE DEF for
<1>4. Recording(content, newest, approvals, for) /\ for # NoCommand
  BY <1>1, <1>3, RecordingBegins DEF NoCommand
<1>5. VersionInv' /\ ApprovalInv' /\ ReviewInv' /\ QualityInv'
  BY <1>1 DEF IInv, VersionInv, ApprovalInv, ReviewInv, QualityInv
<1>6. CASE slot = release
  <2>1. TypeOK' /\ cmd' = Gate(for)
    BY <1>1, <1>2, <1>3, <1>6, GateBegins DEF TypeOK
  <2>2. GateInv'
    BY <1>1, <1>2, <1>3, <1>4, <1>6, <2>1, GateBegins
       DEF GateInv, ForInv, BeforeInv, InputInv, Known, Present
  <2>3. RecordInv' /\ WriterInv'
    BY <1>2, <1>3, <2>1, GateBegins DEF RecordInv, WriterInv
  <2> QED
    BY <1>5, <2>1, <2>2, <2>3 DEF IInv
<1>7. CASE slot # release
  <2>1. TypeOK' /\ cmd' = for
    BY <1>1, <1>2, <1>3, <1>7 DEF TypeOK
  <2>2. RecordInv' /\ WriterInv' /\ GateInv'
    BY <1>1, <1>3, <1>4, <1>7, <2>1 DEF RecordInv, WriterInv, GateInv
  <2> QED
    BY <1>5, <2>1, <2>2 DEF IInv
<1> QED
  BY <1>6, <1>7

(* Steps of a gate that change nothing but the gate.                         *)
LEMMA GateStep ==
  ASSUME IInv, cmd.op = "gate", cmd' \in Gates, cmd'.for = cmd.for,
         UNCHANGED <<content, newest, restores, reviewed, approvals, quality>>,
         (cmd.step = "before" => BeforeInv)', (cmd.step = "checks" => ChecksInv)',
         (cmd.step = "after" => AfterInv)'
  PROVE  IInv'
<1>1. TypeOK'
  BY DEF IInv, TypeOK
<1>2. cmd'.op = "gate"
  BY DEF Gates
<1>3. VersionInv' /\ ApprovalInv' /\ ReviewInv' /\ QualityInv'
  BY DEF IInv, VersionInv, ApprovalInv, ReviewInv, QualityInv
<1>4. RecordInv' /\ WriterInv'
  BY <1>2 DEF RecordInv, WriterInv
<1>5. GateInv'
  BY DEF IInv, GateInv, ForInv
<1> QED
  BY <1>1, <1>3, <1>4, <1>5 DEF IInv

LEMMA ReadKeepsIInv == ASSUME IInv, NEW p \in Paths, Read(p) PROVE IInv'
<1>1. /\ cmd.op = "gate" /\ p \in cmd.left
      /\ content' = content /\ newest' = newest /\ restores' = restores
      /\ reviewed' = reviewed /\ approvals' = approvals /\ quality' = quality
  BY DEF Read
<1>2. TypeOK /\ VersionInv /\ cmd \in Gates /\ GateInv
  BY <1>1, Kinds DEF IInv
<1>3. cmd.inputs \in Snapshots /\ cmd.seen \in Snapshots /\ cmd.left \subseteq Paths
      /\ cmd.step \in {"before", "checks", "after"} /\ cmd.for \in Records \union {NoCommand}
  BY <1>2 DEF Gates
<1>4. CASE cmd.step = "before"
  <2> DEFINE read == WithVersion(cmd.inputs, p)
  <2>1. cmd' = [cmd EXCEPT !.left = @ \ {p}, !.inputs = read]
    BY <1>4 DEF Read
  <2>2. BeforeInv /\ content[p] > 0
    BY <1>1, <1>2, <1>4 DEF GateInv, BeforeInv, InputInv
  <2>3. /\ read \in Snapshots /\ Known(newest, read) /\ Present(content, read)
        /\ DOMAIN read = DOMAIN cmd.inputs \union {p}
    BY <1>2, <1>3, <2>2, WithVersionIs DEF BeforeInv, InputInv
  <2> HIDE DEF read
  <2>4. /\ cmd' \in Gates /\ cmd'.for = cmd.for /\ cmd'.step = "before"
        /\ cmd'.inputs = read /\ cmd'.left = cmd.left \ {p} /\ cmd'.seen = cmd.seen
    BY <1>2, <1>4, <2>1, <2>3 DEF Gates
  <2>5. BeforeInv'
    BY <1>1, <2>2, <2>3, <2>4 DEF BeforeInv, InputInv
  <2> QED
    BY <1>1, <2>4, <2>5, GateStep
<1>5. CASE cmd.step = "checks"
  <2> DEFINE read == WithVersion(cmd.seen, p)
  <2>1. cmd' = [cmd EXCEPT !.left = @ \ {p}, !.seen = read]
    BY <1>5 DEF Read
  <2>2. ChecksInv /\ content[p] > 0
    BY <1>1, <1>2, <1>5 DEF GateInv, ChecksInv, InputInv
  <2>3. /\ read \in Snapshots /\ Present(content, read)
        /\ \A old \in Snapshots : \A left :
             Agrees(content, old, cmd.seen, left) => Agrees(content, old, read, left \ {p})
    BY <1>2, <1>3, <2>2, WithVersionIs DEF ChecksInv
  <2> HIDE DEF read
  <2>4. /\ cmd' \in Gates /\ cmd'.for = cmd.for /\ cmd'.step = "checks"
        /\ cmd'.inputs = cmd.inputs /\ cmd'.seen = read /\ cmd'.left = cmd.left \ {p}
    BY <1>2, <1>5, <2>1, <2>3 DEF Gates
  <2>5. cmd.for # NoCommand => cmd.for.expected.artifacts \in Snapshots
    BY <1>3 DEF Records, Manifests
  <2>6. ChecksInv'
    BY <1>1, <1>3, <2>2, <2>3, <2>4, <2>5 DEF ChecksInv, InputInv
  <2> QED
    BY <1>1, <2>4, <2>6, GateStep
<1>6. CASE cmd.step = "after"
  <2> DEFINE read == WithVersion(cmd.inputs, p)
             stable == cmd.stable /\ UnchangedInput(p)
  <2>1. cmd' = [cmd EXCEPT !.left = @ \ {p}, !.inputs = read, !.stable = stable]
    BY <1>6 DEF Read
  <2>2. AfterInv
    BY <1>1, <1>2, <1>6 DEF GateInv
  <2>3. PICK S \in SUBSET Paths : cmd.inputs \in [S -> Nat]
    BY <1>3 DEF Snapshots
  <2>4. /\ DOMAIN read = DOMAIN cmd.inputs \union {p}
        /\ \A q \in DOMAIN read : read[q] = IF q = p THEN content[p] ELSE cmd.inputs[q]
        /\ read \in [S \union {p} -> Nat]
    BY <1>2, <1>3, <1>1, <2>3 DEF WithVersion, TypeOK
  <2>5. read \in Snapshots
    BY <1>1, <1>3, <2>4 DEF Snapshots
  <2>6. stable \in BOOLEAN /\ (stable => cmd.stable /\ UnchangedInput(p))
    BY <1>2 DEF Gates, UnchangedInput
  <2> HIDE DEF read, stable
  <2>7. /\ cmd' \in Gates /\ cmd'.for = cmd.for /\ cmd'.step = "after"
        /\ cmd'.inputs = read /\ cmd'.left = cmd.left \ {p} /\ cmd'.stable = stable
        /\ cmd'.pass = cmd.pass
    BY <1>2, <1>6, <2>1, <2>5, <2>6 DEF Gates
  <2>8. AfterInv'
    <3> SUFFICES ASSUME cmd.pass, stable PROVE AfterInv'
      BY <2>7 DEF AfterInv
    <3>1. cmd.stable /\ p \in DOMAIN cmd.inputs /\ cmd.inputs[p] = content[p]
      BY <2>6 DEF UnchangedInput
    <3>2. read = cmd.inputs
      BY <2>3, <2>4, <3>1
    <3>3. InputInv /\ skills \notin cmd.left /\ content[p] > 0
      BY <1>1, <2>2, <3>1 DEF AfterInv, InputInv
    <3>4. PICK seen \in Snapshots : Confirms(content, cmd, seen)
      BY <2>2, <3>1 DEF AfterInv
    <3>5. p \in DOMAIN seen /\ seen[p] = cmd.inputs[p]
      BY <3>1, <3>3, <3>4 DEF Confirms, Agrees
    <3>6. DOMAIN seen \ {skills} \subseteq DOMAIN cmd.inputs \union (cmd.left \ {p})
      BY <3>1, <3>4 DEF Confirms
    <3>7. \A q \in DOMAIN cmd.inputs \ (cmd.left \ {p}) :
            q \in DOMAIN seen /\ seen[q] = cmd.inputs[q]
      BY <3>4, <3>5 DEF Confirms
    <3>8. Confirms(content, cmd', seen)
      BY <2>7, <3>2, <3>4, <3>6, <3>7 DEF Confirms
    <3>9. InputInv' /\ skills \notin cmd'.left
      BY <1>1, <2>7, <3>2, <3>3 DEF InputInv
    <3> QED
      BY <1>1, <3>8, <3>9 DEF AfterInv
  <2> QED
    BY <1>1, <2>7, <2>8, GateStep
<1> QED
  BY <1>3, <1>4, <1>5, <1>6

LEMMA CheckKeepsIInv == ASSUME IInv, Check PROVE IInv'
<1> USE DEF Check
<1>1. TypeOK /\ cmd \in Gates /\ GateInv /\ BeforeInv
  BY Kinds DEF IInv, GateInv
<1>2. files \subseteq Paths /\ \A p \in Paths : p \in files <=> content[p] > 0
  BY DEF files
<1>3. /\ cmd' \in Gates /\ cmd'.for = cmd.for /\ cmd'.step = "checks"
      /\ cmd'.inputs = cmd.inputs /\ cmd'.seen = cmd.seen /\ cmd'.left = files
  BY <1>1, <1>2 DEF Gates
<1>4. /\ cmd.for \in Records \union {NoCommand}
      /\ cmd.inputs \in Snapshots
  BY <1>1 DEF Gates
<1>5. ASSUME NEW old \in Snapshots PROVE Agrees(content, old, cmd.seen, files)
  <2>1. DOMAIN old \subseteq Paths
    BY DEF Snapshots
  <2> QED
    BY <1>2, <2>1 DEF Agrees
<1>6. cmd.for # NoCommand => cmd.for.expected.artifacts \in Snapshots
  BY <1>4 DEF Records, Manifests
<1>7. ChecksInv'
  BY <1>1, <1>2, <1>3, <1>4, <1>5, <1>6 DEF BeforeInv, ChecksInv, InputInv, Present
<1> QED
  BY <1>3, <1>7, GateStep

LEMMA CompareKeepsIInv == ASSUME IInv, Compare PROVE IInv'
<1> DEFINE pass == Passes(cmd.seen)  approved == validateApprovals
<1>1. /\ cmd.op = "gate" /\ cmd.step = "checks" /\ cmd.left = {}
      /\ cmd' = [cmd EXCEPT !.step = "after", !.left = evidenceInputPaths, !.seen = <<>>,
                            !.pass = pass, !.approved = approved, !.stable = TRUE]
      /\ UNCHANGED <<content, newest, restores, reviewed, approvals, quality>>
  BY DEF Compare
<1>2. TypeOK /\ cmd \in Gates /\ GateInv /\ ChecksInv
  BY <1>1, Kinds DEF IInv, GateInv
<1>3. pass \in BOOLEAN /\ approved \in BOOLEAN
  BY DEF Passes, validateApprovals
<1>4. evidenceInputPaths = files \ {skills} /\ files \subseteq Paths
      /\ \A p \in Paths : p \in files <=> content[p] > 0
  BY DEF evidenceInputPaths, files
<1>5. pass => Passes(cmd.seen)
  OBVIOUS
<1> HIDE DEF pass, approved
<1>6. /\ cmd' \in Gates /\ cmd'.for = cmd.for /\ cmd'.step = "after"
      /\ cmd'.inputs = cmd.inputs /\ cmd'.left = evidenceInputPaths /\ cmd'.pass = pass
  BY <1>1, <1>2, <1>3, <1>4, NoneIsManifest DEF Gates
<1>7. AfterInv'
  <2> SUFFICES ASSUME pass PROVE AfterInv'
    BY <1>6 DEF AfterInv
  <2>1. /\ cmd.seen \in Snapshots /\ cmd.for \in Records \union {NoCommand}
        /\ cmd.inputs \in Snapshots
    BY <1>2 DEF Gates
  <2>2. DOMAIN cmd.inputs \subseteq Paths /\ DOMAIN cmd.seen \subseteq Paths
    BY <2>1 DEF Snapshots
  <2>3. DOMAIN cmd.inputs \subseteq evidenceInputPaths
        /\ DOMAIN cmd.seen \ {skills} \subseteq evidenceInputPaths
    BY <1>2, <1>4, <2>2 DEF ChecksInv, InputInv, Present
  <2>4. cmd.for # NoCommand => Passed(content, cmd.for.expected, cmd.seen)
    BY <1>1, <1>2, <1>5, <2>1 DEF ChecksInv, Passed
  <2>5. Confirms(content, cmd', cmd.seen)
    BY <1>1, <1>2, <1>5, <1>6, <2>3, <2>4 DEF ChecksInv, Confirms
  <2>6. InputInv' /\ skills \notin cmd'.left
    BY <1>1, <1>2, <1>4, <1>6 DEF ChecksInv, InputInv
  <2> QED
    BY <1>1, <2>1, <2>5, <2>6 DEF AfterInv
<1> QED
  BY <1>1, <1>6, <1>7, GateStep

LEMMA DocumentsAlike ==
  ASSUME NEW one, NEW other, DocumentsPass(one),
         \A f \in Features : req(f) \in DOMAIN one <=> req(f) \in DOMAIN other,
         \A f \in Features : design(f) \in DOMAIN one <=> design(f) \in DOMAIN other,
         \A p \in DOMAIN one \intersect DOMAIN other : p # skills => one[p] = other[p]
  PROVE  DocumentsPass(other)
<1>1. \A f \in Features : req(f) # skills /\ design(f) # skills
  BY DEF req, design, skills
<1> QED
  BY <1>1 DEF DocumentsPass

LEMMA ReportKeepsIInv == ASSUME IInv, Report PROVE IInv'
<1> DEFINE sound == cmd.pass /\ cmd.stable
<1>1. /\ cmd.op = "gate" /\ cmd.step = "after" /\ cmd.left = {}
      /\ quality' = (IF sound /\ cmd.approved THEN [status |-> "pass", fingerprints |-> cmd.inputs]
                     ELSE [status |-> "fail", fingerprints |-> <<>>])
      /\ cmd' = (IF sound THEN cmd.for ELSE NoCommand)
      /\ UNCHANGED <<content, newest, restores, reviewed, approvals>>
  BY DEF Report
<1>2. TypeOK /\ cmd \in Gates /\ GateInv /\ ForInv /\ AfterInv
  BY <1>1, Kinds DEF IInv, GateInv
<1>3. cmd.for \in Records \union {NoCommand} /\ cmd.inputs \in Snapshots
  BY <1>2 DEF Gates
<1>4. quality' \in [status : {"skipped", "pass", "fail"}, fingerprints : Snapshots]
  BY <1>1, <1>3, NoneIsManifest
<1>5. TypeOK'
  BY <1>1, <1>2, <1>3, <1>4 DEF TypeOK
<1>6. VersionInv' /\ ApprovalInv' /\ ReviewInv'
  BY <1>1 DEF IInv, VersionInv, ApprovalInv, ReviewInv
<1>7. QualityInv'
  <2> SUFFICES ASSUME sound PROVE DocumentsPass(cmd.inputs)
    BY <1>1 DEF QualityInv
  <2>1. skills \notin DOMAIN cmd.inputs
    BY <1>2 DEF AfterInv, InputInv
  <2>2. PICK seen \in Snapshots : Confirms(content, cmd, seen)
    BY <1>2 DEF AfterInv
  <2>3. /\ DOMAIN cmd.inputs \subseteq DOMAIN seen
        /\ DOMAIN seen \ {skills} \subseteq DOMAIN cmd.inputs
        /\ \A p \in DOMAIN cmd.inputs : cmd.inputs[p] = seen[p]
    BY <1>1, <2>2 DEF Confirms
  <2>4. \A f \in Features : req(f) # skills /\ design(f) # skills
    BY DEF req, design, skills
  <2>5. DocumentsPass(seen)
    BY <2>2 DEF Confirms, Passes
  <2> QED
    BY <2>3, <2>4, <2>5, DocumentsAlike
<1>8. RecordInv' /\ WriterInv' /\ GateInv'
  <2>1. CASE cmd' = NoCommand
    BY <2>1 DEF RecordInv, WriterInv, GateInv, NoCommand
  <2>2. CASE sound /\ cmd.for # NoCommand
    <3>1. cmd' = cmd.for /\ cmd' \in Records /\ cmd'.op = "record"
      BY <1>1, <1>3, <2>2 DEF Records
    <3>2. Recording(content, newest, approvals, cmd.for)
      BY <1>2, <2>2 DEF ForInv
    <3>3. \E seen \in Snapshots : Passed(content, cmd.for.expected, seen)
      BY <1>2, <2>2 DEF AfterInv, Confirms
    <3> QED
      BY <1>1, <3>1, <3>2, <3>3 DEF RecordInv, WriterInv, GateInv
  <2> QED
    BY <1>1, <2>1, <2>2
<1> QED
  BY <1>5, <1>6, <1>7, <1>8 DEF IInv

LEMMA InterruptKeepsIInv == ASSUME IInv, Interrupt PROVE IInv'
<1>1. cmd' = NoCommand /\ UNCHANGED <<content, newest, restores, reviewed, approvals, quality>>
  BY DEF Interrupt
<1>2. TypeOK' /\ VersionInv' /\ ApprovalInv' /\ ReviewInv' /\ QualityInv'
  BY <1>1 DEF IInv, TypeOK, VersionInv, ApprovalInv, ReviewInv, QualityInv
<1>3. RecordInv' /\ WriterInv' /\ GateInv'
  BY <1>1 DEF RecordInv, WriterInv, GateInv, NoCommand
<1> QED
  BY <1>2, <1>3 DEF IInv

(* The paths known when recording began are compared with what the human was *)
(* shown.                                                                    *)
LEMMA ListKeepsIInv == ASSUME IInv, ListManifest PROVE IInv'
<1> DEFINE slot == cmd.slot  expected == cmd.expected
           listed == stagePaths(slot, cmd.features)
<1>1. /\ cmd.op = "record" /\ cmd' = Manifest(cmd)
      /\ UNCHANGED <<content, newest, restores, reviewed, approvals, quality>>
  BY DEF ListManifest
<1>2. TypeOK /\ cmd \in Records /\ Recording(content, newest, approvals, cmd)
  BY <1>1, Kinds DEF IInv, RecordInv
<1>3. slot \in Slots /\ expected \in Manifests
  BY <1>2 DEF Records
<1>4. listed = files \intersect Covers(slot, cmd.features) /\ files \subseteq Paths
      /\ \A p \in Paths : p \in files <=> content[p] > 0
  BY <1>3, StagePathsAre DEF files
<1>5. VersionInv' /\ ApprovalInv' /\ ReviewInv' /\ QualityInv'
  BY <1>1 DEF IInv, VersionInv, ApprovalInv, ReviewInv, QualityInv
<1>6. CASE cmd' = NoCommand
  <2>1. TypeOK'
    BY <1>1, <1>2, <1>6 DEF TypeOK
  <2>2. RecordInv' /\ WriterInv' /\ GateInv'
    BY <1>6 DEF RecordInv, WriterInv, GateInv, NoCommand
  <2> QED
    BY <1>5, <2>1, <2>2 DEF IInv
<1>7. CASE cmd' # NoCommand
  <2>1. /\ listed = DOMAIN expected.artifacts
        /\ cmd' = [op |-> "manifest", for |-> cmd, left |-> listed, read |-> <<>>]
    BY <1>1, <1>7 DEF Manifest
  <2> HIDE DEF slot, expected, listed
  <2>2. cmd' \in Writers /\ cmd'.op = "manifest" /\ cmd'.for = cmd /\ cmd'.left = listed
        /\ DOMAIN cmd'.read = {}
    BY <1>2, <1>4, <2>1, NoneIsManifest DEF Writers
  <2>3. TypeOK'
    BY <1>1, <1>2, <2>2 DEF TypeOK
  <2>4. RecordInv' /\ GateInv'
    BY <2>2 DEF RecordInv, GateInv
  <2>5. ASSUME slot = release PROVE \E seen \in Snapshots : Vouched(content, cmd', seen)
    <3>1. PICK seen \in Snapshots : Passed(content, expected, seen)
      BY <1>1, <2>5 DEF IInv, RecordInv, slot, expected
    <3>2. DOMAIN seen \subseteq Paths
      BY DEF Snapshots
    <3>3. DOMAIN seen \subseteq files
      BY <1>4, <3>1, <3>2 DEF Passed, Present
    <3>4. listed = files
      BY <1>4, <2>5, SlotKinds DEF Covers
    <3>5. Vouched(content, cmd', seen)
      BY <2>1, <2>2, <3>1, <3>3, <3>4 DEF Vouched, expected
    <3> QED
      BY <3>5
  <2>6. WriterInv'
    <3>1. Recording(content', newest', approvals', cmd'.for)
      BY <1>1, <1>2, <2>2
    <3>2. /\ DOMAIN cmd'.for.expected.artifacts = cmd'.left \union DOMAIN cmd'.read
          /\ \A p \in cmd'.left : content'[p] > 0
          /\ \A p \in DOMAIN cmd'.read : cmd'.read[p] = cmd'.for.expected.artifacts[p]
      BY <1>1, <1>4, <2>1, <2>2 DEF expected
    <3>3. cmd'.for.slot = release => \E seen \in Snapshots : Vouched(content', cmd', seen)
      BY <1>1, <2>2, <2>5 DEF slot
    <3> QED
      BY <3>1, <3>2, <3>3 DEF WriterInv
  <2> QED
    BY <1>5, <2>3, <2>4, <2>6 DEF IInv
<1> QED
  BY <1>6, <1>7

(* A version that was shown and is there now was there in between.           *)
LEMMA ReadManifestKeepsIInv == ASSUME IInv, NEW p \in Paths, ReadManifest(p) PROVE IInv'
<1> DEFINE for == cmd.for  expected == cmd.for.expected  read == WithVersion(cmd.read, p)
<1>1. /\ cmd.op = "manifest" /\ p \in cmd.left
      /\ cmd' = (IF Expected(p) THEN [cmd EXCEPT !.left = @ \ {p}, !.read = read] ELSE NoCommand)
      /\ UNCHANGED <<content, newest, restores, reviewed, approvals, quality>>
  BY DEF ReadManifest
<1>2. TypeOK /\ VersionInv /\ cmd \in Writers /\ WriterInv
  BY <1>1, Kinds DEF IInv
<1>3. cmd.read \in Snapshots /\ cmd.left \subseteq Paths
  BY <1>2 DEF Writers
<1>4. VersionInv' /\ ApprovalInv' /\ ReviewInv' /\ QualityInv'
  BY <1>1 DEF IInv, VersionInv, ApprovalInv, ReviewInv, QualityInv
<1>5. CASE ~Expected(p)
  <2>1. TypeOK' /\ RecordInv' /\ WriterInv' /\ GateInv'
    BY <1>1, <1>2, <1>5 DEF TypeOK, RecordInv, WriterInv, GateInv, NoCommand
  <2> QED
    BY <1>4, <2>1 DEF IInv
<1>6. CASE Expected(p)
  <2>1. expected.artifacts[p] = content[p] /\ content[p] > 0
    BY <1>1, <1>2, <1>6 DEF Expected, WriterInv
  <2>2. /\ read \in Snapshots /\ DOMAIN read = DOMAIN cmd.read \union {p}
        /\ \A q \in DOMAIN read : read[q] = IF q = p THEN content[p] ELSE cmd.read[q]
    BY <1>2, <1>3, <2>1, WithVersionIs
  <2> HIDE DEF read
  <2>3. /\ cmd' \in Writers /\ cmd'.op = "manifest" /\ cmd'.for = for
        /\ cmd'.left = cmd.left \ {p} /\ cmd'.read = read
    BY <1>1, <1>2, <1>6, <2>2 DEF Writers
  <2>4. TypeOK' /\ RecordInv' /\ GateInv'
    BY <1>1, <1>2, <2>3 DEF TypeOK, RecordInv, GateInv
  <2>5. /\ Recording(content, newest, approvals, for)
        /\ DOMAIN expected.artifacts = cmd.left \union DOMAIN cmd.read
        /\ \A q \in cmd.left : content[q] > 0
        /\ \A q \in DOMAIN cmd.read : cmd.read[q] = expected.artifacts[q]
    BY <1>1, <1>2 DEF WriterInv
  <2>6. ASSUME NEW seen \in Snapshots, Vouched(content, cmd, seen)
        PROVE  Vouched(content, cmd', seen)
    <3>1. p \in DOMAIN expected.artifacts
      BY <1>1, <2>5
    <3>2. p \in DOMAIN seen /\ seen[p] = content[p]
      BY <2>1, <2>6, <3>1 DEF Vouched, Passed, Agrees
    <3> QED
      BY <2>2, <2>3, <2>6, <3>2 DEF Vouched
  <2>7. \A q \in DOMAIN read : read[q] = expected.artifacts[q]
    BY <2>1, <2>2, <2>5
  <2>8. DOMAIN expected.artifacts = (cmd.left \ {p}) \union DOMAIN read
    BY <1>1, <2>2, <2>5
  <2>9. for.slot = release => \E seen \in Snapshots : Vouched(content, cmd', seen)
    BY <1>1, <1>2, <2>6 DEF WriterInv
  <2> HIDE DEF for, expected
  <2>10. WriterInv'
    <3>1. Recording(content', newest', approvals', cmd'.for)
      BY <1>1, <2>3, <2>5
    <3>2. cmd'.for.expected = expected
      BY <2>3 DEF for, expected
    <3>3. /\ DOMAIN cmd'.for.expected.artifacts = cmd'.left \union DOMAIN cmd'.read
          /\ \A q \in cmd'.left : content'[q] > 0
          /\ \A q \in DOMAIN cmd'.read : cmd'.read[q] = cmd'.for.expected.artifacts[q]
      BY <1>1, <2>3, <2>5, <2>7, <2>8, <3>2
    <3>4. cmd'.for.slot = release => \E seen \in Snapshots : Vouched(content', cmd', seen)
      BY <1>1, <2>3, <2>9
    <3> QED
      BY <3>1, <3>3, <3>4 DEF WriterInv
  <2> QED
    BY <1>4, <2>4, <2>10 DEF IInv
<1> QED
  BY <1>5, <1>6

(* What is written is what was shown.                                        *)
LEMMA WriteIs ==
  ASSUME IInv, WriteApproval
  PROVE  LET slot == cmd.for.slot  expected == cmd.for.expected IN
         /\ slot \in Slots /\ expected \in Manifests
         /\ approvals' = [approvals EXCEPT ![slot] = expected]
         /\ Recording(content, newest, approvals, cmd.for)
         /\ slot = release => Passes(expected.artifacts)
<1> DEFINE slot == cmd.for.slot  expected == cmd.for.expected
<1>1. /\ cmd.op = "manifest" /\ cmd.left = {}
      /\ approvals' = [approvals EXCEPT ![slot] = [expected EXCEPT !.artifacts = cmd.read]]
  BY DEF WriteApproval
<1>2. TypeOK /\ cmd \in Writers /\ WriterInv
  BY <1>1, Kinds DEF IInv
<1>3. /\ slot \in Slots /\ expected \in Manifests
      /\ cmd.read \in Snapshots /\ expected.artifacts \in Snapshots
  BY <1>2 DEF Writers, Records, Manifests
<1>4. /\ Recording(content, newest, approvals, cmd.for)
      /\ DOMAIN expected.artifacts = DOMAIN cmd.read
      /\ \A q \in DOMAIN cmd.read : cmd.read[q] = expected.artifacts[q]
  BY <1>1, <1>2 DEF WriterInv
<1>5. \A one, other \in Snapshots :
        DOMAIN one = DOMAIN other /\ (\A q \in DOMAIN one : one[q] = other[q]) => one = other
  BY DEF Snapshots
<1>6. cmd.read = expected.artifacts
  BY <1>3, <1>4, <1>5
<1>7. [expected EXCEPT !.artifacts = cmd.read] = expected
  BY <1>3, <1>6 DEF Manifests
<1>8. ASSUME slot = release PROVE Passes(expected.artifacts)
  <2>1. PICK seen \in Snapshots : Vouched(content, cmd, seen)
    BY <1>1, <1>2, <1>8 DEF WriterInv
  <2>2. Passes(seen) /\ DOMAIN seen = DOMAIN cmd.read
        /\ \A q \in DOMAIN seen : seen[q] = cmd.read[q]
    BY <1>4, <2>1 DEF Vouched, Passed
  <2>3. seen = cmd.read
    BY <1>3, <1>5, <2>2
  <2> QED
    BY <1>6, <2>2, <2>3
<1> QED
  BY <1>1, <1>3, <1>4, <1>7, <1>8

LEMMA WriteKeepsIInv == ASSUME IInv, WriteApproval PROVE IInv'
<1>1. cmd' = NoCommand /\ UNCHANGED <<content, newest, restores, reviewed, quality>>
  BY DEF WriteApproval
<1>2. PICK slot \in Slots, expected \in Manifests :
        /\ approvals' = [approvals EXCEPT ![slot] = expected]
        /\ slot = release => Passes(expected.artifacts)
  BY WriteIs
<1>3. TypeOK'
  BY <1>1, <1>2 DEF IInv, TypeOK
<1>4. ApprovalInv'
  BY <1>2, SlotKinds DEF IInv, TypeOK, ApprovalInv
<1>5. VersionInv' /\ ReviewInv' /\ QualityInv' /\ RecordInv' /\ WriterInv' /\ GateInv'
  BY <1>1 DEF IInv, VersionInv, ReviewInv, QualityInv, RecordInv, WriterInv, GateInv, NoCommand
<1> QED
  BY <1>3, <1>4, <1>5 DEF IInv

(* The gate and the approvals, as the steps keep them.                       *)
THEOREM ReleaseGateInvariant == Spec => []IInv
<1>1. ASSUME IInv, [Next]_vars PROVE IInv'
  <2>1. CASE UNCHANGED vars
    BY <1>1, <2>1 DEF vars, IInv, TypeOK, VersionInv, ApprovalInv, ReviewInv, QualityInv,
       RecordInv, WriterInv, GateInv, ForInv, InputInv, BeforeInv, ChecksInv, AfterInv
  <2>2. CASE Next
    BY <1>1, <2>2, EditKeepsIInv, RestoreKeepsIInv, ReadKeepsIInv, ReadManifestKeepsIInv,
       PrepareKeepsIInv, RecordKeepsIInv, RunGateKeepsIInv, CheckKeepsIInv, CompareKeepsIInv,
       ReportKeepsIInv, ListKeepsIInv, WriteKeepsIInv, InterruptKeepsIInv DEF Next
  <2> QED
    BY <1>1, <2>1, <2>2
<1> QED
  BY <1>1, InitIsGood, PTL DEF Spec

-----------------------------------------------------------------------------
(* An approval that is current when it is written rests on approvals that    *)
(* are current then, in every domain, whatever is edited between the checks  *)
(* of recording one and its write.                                           *)
THEOREM ApprovalsRestOnCurrentOnes == Spec => ApprovalsRestOnCurrent
<1>1. ASSUME IInv, Next, NEW slot \in Slots, approvals'[slot] # approvals[slot],
             Approved(slot)', NEW e \in Earlier(slot)
      PROVE  Approved(e)'
  <2>1. WriteApproval
    BY <1>1 DEF Next, Edit, Restore, Prepare, runGate, recordApproval, Read, Check, Compare,
       Report, ListManifest, ReadManifest, Interrupt
  <2>2. content' = content /\ TypeOK
    BY <1>1, <2>1 DEF WriteApproval, IInv
  <2>3. \A s \in Slots : approvalManifest(s)' = approvalManifest(s)
    BY <2>2 DEF approvalManifest, FeaturesOf, resolveDomains, slugs, files, stagePaths, snapshot
  <2>4. PICK expected :
          /\ cmd.for.slot \in Slots /\ cmd.for.expected = expected
          /\ approvals' = [approvals EXCEPT ![cmd.for.slot] = expected]
          /\ Recording(content, newest, approvals, cmd.for)
    BY <1>1, <2>1, WriteIs
  <2>5. slot = cmd.for.slot /\ approvals'[slot] = expected
    BY <1>1, <2>2, <2>4 DEF TypeOK
  <2>6. expected = ManifestIn(content, slot)
    BY <1>1, <2>2, <2>3, <2>5, ManifestIs DEF Approved
  <2>7. e \in Slots /\ e # slot /\ CurrentIn(content, approvals, e)
    BY <1>1, <2>4, <2>5, <2>6, EarlierIsCovered DEF Recording, RestsOn
  <2>8. Approved(e) /\ approvals'[e] = approvals[e]
    BY <2>2, <2>4, <2>5, <2>7, ApprovedIs
  <2> QED
    BY <2>3, <2>7, <2>8 DEF Approved
<1>2. ASSUME IInv, [Next]_vars
      PROVE  [\A slot \in Slots :
                approvals'[slot] # approvals[slot] /\ Approved(slot)' =>
                  \A e \in Earlier(slot) : Approved(e)']_vars
  BY <1>1, <1>2
<1> QED
  BY <1>2, ReleaseGateInvariant, PTL DEF Spec, ApprovalsRestOnCurrent

LEMMA ReleaseIsWhole ==
  ASSUME IInv, Approved(release)
  PROVE  Passes(snapshot(files))
<1>1. Passes(approvals[release].artifacts)
  BY DEF IInv, ApprovalInv, Approved
<1>2. CoveredIn(content, release) = files
  BY SlotKinds DEF CoveredIn, Covers, files
<1>3. approvals[release] = ManifestIn(content, release)
  BY SlotKinds, ManifestIs DEF IInv, Approved
<1>4. approvals[release].artifacts = [p \in files |-> content[p]]
  BY <1>2, <1>3 DEF ManifestIn
<1> QED
  BY <1>1, <1>4 DEF snapshot

(* What is approved for release passes the checks as it stands, though the   *)
(* manifest was read, the checks were run and the approval written at        *)
(* different moments while files were edited.                                *)
THEOREM ApprovedReleasePasses == Spec => []ReleasePassesNow
<1>1. IInv => ReleasePassesNow
  BY ReleaseIsWhole DEF ReleasePassesNow
<1> QED
  BY <1>1, ReleaseGateInvariant, PTL

(* The documents of a project shown as ready pass the checks as they stand,  *)
(* and its Skills too when the release is approved.                          *)
THEOREM ReadyProjectPasses == Spec => []ReadyPassesNow
<1>1. ASSUME IInv, Ready PROVE DocumentsPass(snapshot(files))
  <2>1. DocumentsPass(snapshot(evidenceInputPaths))
    BY <1>1 DEF IInv, QualityInv, Ready
  <2>2. \A f \in Features : req(f) # skills /\ design(f) # skills
    BY DEF req, design, skills
  <2>3. /\ DOMAIN snapshot(evidenceInputPaths) = files \ {skills}
        /\ DOMAIN snapshot(files) = files
        /\ \A p \in files \ {skills} : snapshot(evidenceInputPaths)[p] = snapshot(files)[p]
    BY DEF snapshot, evidenceInputPaths
  <2> QED
    BY <2>1, <2>2, <2>3, DocumentsAlike
<1>2. IInv => ReadyPassesNow
  BY <1>1, ReleaseIsWhole DEF ReadyPassesNow, Passes
<1> QED
  BY <1>2, ReleaseGateInvariant, PTL

-----------------------------------------------------------------------------
(* Workflow evidence.                                                        *)
(* Lines are of no fixed type: a log is a sequence over its own elements.    *)
IsLog(s) == s \in Seq({s[i] : i \in DOMAIN s})

LEMMA LogIndices ==
  ASSUME NEW s, IsLog(s)
  PROVE  Len(s) \in Nat /\ DOMAIN s = 1..Len(s) /\ DOMAIN s \subseteq Nat
BY LenProperties DEF IsLog

(* A log with more records.                                                  *)
Extended(s, n, f, t) ==
  /\ IsLog(t)
  /\ DOMAIN s = 1..Len(s) /\ Len(s) \in Nat
  /\ DOMAIN t = 1..(Len(s) + n) /\ Len(t) = Len(s) + n
  /\ \A i \in DOMAIN s : t[i] = s[i]
  /\ \A i \in 1..n : Len(s) + i \in DOMAIN t /\ t[Len(s) + i] = f[i]

LEMMA ExtendedLog ==
  ASSUME NEW s, IsLog(s), NEW n \in Nat, NEW T, NEW f \in [1..n -> T]
  PROVE  Extended(s, n, f, s \o f)
<1> DEFINE S == {s[i] : i \in DOMAIN s} \union {f[i] : i \in 1..n}
           t == s \o f
<1>1. s \in Seq(S)
  BY SeqMonotonic DEF IsLog
<1>2. f \in Seq(S) /\ Len(f) = n
  <2>1. f \in [1..n -> S]
    OBVIOUS
  <2> HIDE DEF S
  <2> QED BY <2>1, SeqDef, LenProperties
<1>3. /\ t \in Seq(S) /\ Len(t) = Len(s) + n
      /\ \A i \in 1..(Len(s) + n) : t[i] = IF i <= Len(s) THEN s[i] ELSE f[i - Len(s)]
  <2> HIDE DEF S
  <2> QED BY <1>1, <1>2, ConcatProperties
<1>4. Len(s) \in Nat /\ DOMAIN s = 1..Len(s) /\ DOMAIN t = 1..(Len(s) + n)
  BY <1>1, <1>3, LenProperties
<1>5. IsLog(t)
  <2> DEFINE U == {t[j] : j \in DOMAIN t}
  <2>1. t = [i \in DOMAIN t |-> t[i]]
    BY <1>3, <1>4, LenProperties
  <2>2. t \in [1..(Len(s) + n) -> U]
    BY <1>4, <2>1
  <2> HIDE DEF U, t
  <2>3. t \in Seq(U)
    BY <1>4, <2>2, SeqDef
  <2> QED BY <2>3 DEF IsLog, U
<1>6. \A i \in 1..n : Len(s) + i \in DOMAIN t /\ t[Len(s) + i] = f[i]
  <2> SUFFICES ASSUME NEW i \in 1..n PROVE Len(s) + i \in DOMAIN t /\ t[Len(s) + i] = f[i]
    OBVIOUS
  <2>1. Len(s) + i \in 1..(Len(s) + n) /\ ~(Len(s) + i <= Len(s)) /\ (Len(s) + i) - Len(s) = i
    BY <1>4
  <2> QED BY <1>3, <1>4, <2>1
<1>7. \A i \in DOMAIN s : t[i] = s[i]
  <2> SUFFICES ASSUME NEW i \in DOMAIN s PROVE t[i] = s[i]
    OBVIOUS
  <2>1. i \in 1..(Len(s) + n) /\ i <= Len(s)
    BY <1>4
  <2> QED BY <1>3, <2>1
<1> QED BY <1>3, <1>4, <1>5, <1>6, <1>7 DEF Extended

LEMMA AppendToLog ==
  ASSUME NEW s, IsLog(s), NEW rec
  PROVE  /\ IsLog(Append(s, rec))
         /\ DOMAIN s = 1..Len(s) /\ Len(s) \in Nat
         /\ DOMAIN Append(s, rec) = 1..(Len(s) + 1) /\ Len(Append(s, rec)) = Len(s) + 1
         /\ \A i \in DOMAIN s : Append(s, rec)[i] = s[i]
         /\ Append(s, rec)[Len(s) + 1] = rec
<1> DEFINE S == {s[i] : i \in DOMAIN s} \union {rec}
           t == Append(s, rec)
<1>1. s \in Seq(S) /\ rec \in S
  BY SeqMonotonic DEF IsLog
<1>2. /\ t \in Seq(S) /\ Len(t) = Len(s) + 1 /\ Len(s) \in Nat
      /\ DOMAIN s = 1..Len(s) /\ DOMAIN t = 1..(Len(s) + 1)
      /\ \A i \in 1..Len(s) : t[i] = s[i]
      /\ t[Len(s) + 1] = rec
  BY <1>1, AppendProperties, LenProperties
<1>3. t \in [1..Len(t) -> {t[j] : j \in DOMAIN t}]
  <2>1. t = [i \in DOMAIN t |-> t[i]]
    BY <1>1, <1>2, LenProperties
  <2> QED BY <1>2, <2>1
<1>4. IsLog(t)
  <2> DEFINE T == {t[j] : j \in DOMAIN t}
  <2> HIDE DEF T
  <2>1. t \in Seq(T)
    <3>1. t \in [1..Len(t) -> T] /\ Len(t) \in Nat
      BY <1>2, <1>3 DEF T
    <3> HIDE DEF t
    <3> QED BY <3>1, SeqDef
  <2> QED BY <2>1 DEF IsLog, T
<1> QED BY <1>2, <1>4

LEMMA NatMin ==
  ASSUME NEW T, T \subseteq Nat, T # {}
  PROVE  \E x \in T : \A y \in T : x <= y
<1>1. IsWellFoundedOn(OpToRel(<, Nat), Nat)
  BY NatLessThanWellFounded
<1>2. \A x, y \in Nat : y < x => <<y, x>> \in OpToRel(<, Nat)
  BY DEF OpToRel
<1>3. PICK R : IsWellFoundedOn(R, Nat) /\ \A x, y \in Nat : y < x => <<y, x>> \in R
  BY <1>1, <1>2, Zenon
<1>4. \E x \in T : \A y \in T : ~ (<<y, x>> \in R)
  BY <1>3, WFMin
<1>5. \E x \in T : \A y \in T : ~ (y < x)
  BY <1>3, <1>4, Zenon
<1> QED BY <1>5

LEMMA NatMax ==
  ASSUME NEW S, S \subseteq Nat, S # {}, NEW n \in Nat, \A x \in S : x <= n
  PROVE  \E m \in S : \A x \in S : x <= m
<1> DEFINE T == {n - x : x \in S}
<1>1. \A x \in S : x \in Nat /\ n - x \in Nat
  OBVIOUS
<1>2. T \subseteq Nat /\ T # {}
  BY <1>1
<1>3. PICK d \in T : \A y \in T : d <= y
  <2> HIDE DEF T
  <2> QED BY <1>2, NatMin
<1>4. PICK m \in S : d = n - m
  BY <1>3
<1>5. \A x \in S : n - m <= n - x
  BY <1>3, <1>4
<1> QED BY <1>1, <1>5

-----------------------------------------------------------------------------
(* Lines in the order they are read.                                         *)
Keys == Nat \X Nat

LEMMA NoCallIsNoKey == NoCall \notin Keys
BY DEF NoCall, Keys

LEMMA BeforeOrders ==
  /\ \A k, l, m \in Keys : Before(k, l) /\ Before(l, m) => Before(k, m)
  /\ \A k \in Keys : ~Before(k, k)
  /\ \A k, l \in Keys : k = l \/ Before(k, l) \/ Before(l, k)
<1>1. \A k, l, m \in Keys : Before(k, l) /\ Before(l, m) => Before(k, m)
  BY DEF Keys, Before
<1>2. \A k \in Keys : ~Before(k, k)
  BY DEF Keys, Before
<1>3. ASSUME NEW k \in Keys, NEW l \in Keys, ~Before(k, l), ~Before(l, k) PROVE k = l
  <2>1. k[1] = l[1] /\ k[2] = l[2]
    BY <1>3 DEF Keys, Before
  <2> QED BY <2>1 DEF Keys
<1> QED BY <1>1, <1>2, <1>3

LEMMA FirstKey ==
  ASSUME NEW S, S \subseteq Keys, S # {}
  PROVE  \E k \in S : \A l \in S : l = k \/ Before(k, l)
<1>1. PICK a \in {k[1] : k \in S} : \A b \in {k[1] : k \in S} : a <= b
  <2> DEFINE T == {k[1] : k \in S}
  <2>1. T \subseteq Nat /\ T # {}
    BY DEF Keys
  <2> HIDE DEF T
  <2>2. \E a \in T : \A b \in T : a <= b
    BY <2>1, NatMin
  <2> QED BY <2>2 DEF T
<1>2. PICK c \in {k[2] : k \in {l \in S : l[1] = a}} : \A d \in {k[2] : k \in {l \in S : l[1] = a}} : c <= d
  <2> DEFINE T == {k[2] : k \in {l \in S : l[1] = a}}
  <2>1. T \subseteq Nat /\ T # {}
    BY <1>1 DEF Keys
  <2> HIDE DEF T
  <2>2. \E x \in T : \A y \in T : x <= y
    BY <2>1, NatMin
  <2> QED BY <2>2 DEF T
<1>3. PICK k \in S : k[1] = a /\ k[2] = c
  BY <1>2
<1>4. ASSUME NEW l \in S PROVE l = k \/ Before(k, l)
  <2>1. /\ k[1] \in Nat /\ k[2] \in Nat /\ l[1] \in Nat /\ l[2] \in Nat
        /\ k = <<k[1], k[2]>> /\ l = <<l[1], l[2]>>
    BY DEF Keys
  <2>2. k[1] <= l[1] /\ (l[1] = k[1] => k[2] <= l[2])
    BY <1>1, <1>2, <1>3
  <2> QED BY <2>1, <2>2 DEF Before
<1> QED BY <1>4

LEMMA FirstMatch ==
  ASSUME NEW S, S \subseteq Keys, S # {}
  PROVE  ChooseMatch(S) \in S /\ \A l \in S : l = ChooseMatch(S) \/ Before(ChooseMatch(S), l)
BY FirstKey DEF ChooseMatch

-----------------------------------------------------------------------------
(* Declarations are bound one after the other: the recursion has a solution, *)
(* that of n declarations extending that of one less.                        *)
Fit(b, n) ==
  {i \in Eligible(n) : CompleteAt(i, n) /\ \A u \in {b[m] : m \in 1..(n - 1)} \ {NoCall} : Before(u, i)}
Binding(b, n) == IF Declared(n) /\ Fit(b, n) # {} THEN ChooseMatch(Fit(b, n)) ELSE NoCall

LEMMA BindingsAgree ==
  ASSUME NEW b, NEW c, NEW n, \A m \in 1..(n - 1) : b[m] = c[m]
  PROVE  Binding(b, n) = Binding(c, n)
<1>1. {b[m] : m \in 1..(n - 1)} = {c[m] : m \in 1..(n - 1)}
  OBVIOUS
<1>2. Fit(b, n) = Fit(c, n)
  BY <1>1 DEF Fit
<1> QED BY <1>2 DEF Binding

LEMMA BindingExists ==
  ASSUME NEW n \in Nat
  PROVE  \E b : b = [m \in 1..n |-> Binding(b, m)]
<1> DEFINE Bad == {k \in Nat : ~\E b : b = [m \in 1..k |-> Binding(b, m)]}
<1> SUFFICES ASSUME Bad # {} PROVE FALSE
  OBVIOUS
<1>1. PICK k \in Bad : \A l \in Bad : k <= l
  <2>1. Bad \subseteq Nat
    OBVIOUS
  <2> HIDE DEF Bad
  <2> QED BY <2>1, NatMin
<1>2. CASE k = 0
  <2> DEFINE b == [m \in 1..0 |-> NoCall]
  <2>1. b = [m \in 1..0 |-> Binding(b, m)]
    OBVIOUS
  <2> HIDE DEF b
  <2> QED BY <1>1, <1>2, <2>1
<1>3. CASE k # 0
  <2>1. k - 1 \in Nat /\ k - 1 \notin Bad
    BY <1>1, <1>3
  <2>2. PICK b : b = [m \in 1..(k - 1) |-> Binding(b, m)]
    BY <2>1
  <2> DEFINE c == [m \in 1..k |-> IF m = k THEN Binding(b, k) ELSE b[m]]
  <2>3. \A m \in 1..(k - 1) : c[m] = b[m]
    BY <1>1
  <2>4. \A m \in 1..k : Binding(c, m) = Binding(b, m)
    <3> HIDE DEF c
    <3> TAKE m \in 1..k
    <3>1. \A l \in 1..(m - 1) : c[l] = b[l]
      BY <1>1, <2>3
    <3> QED BY <3>1, BindingsAgree
  <2>5. \A m \in 1..k : c[m] = Binding(b, m)
    <3>1. \A m \in 1..(k - 1) : b[m] = Binding(b, m)
      BY <2>2, Zenon
    <3>2. c[k] = Binding(b, k)
      BY <1>1, <1>3
    <3> HIDE DEF c
    <3>3. \A m \in 1..k : m = k \/ m \in 1..(k - 1)
      BY <1>1
    <3> QED BY <2>3, <3>1, <3>2, <3>3, Zenon
  <2>6. c = [m \in 1..k |-> Binding(c, m)]
    <3>1. c = [m \in 1..k |-> c[m]]
      OBVIOUS
    <3> HIDE DEF c
    <3> QED BY <2>4, <2>5, <3>1
  <2> HIDE DEF c
  <2> QED BY <1>1, <2>6
<1> QED BY <1>2, <1>3

LEMMA BoundIs ==
  ASSUME IsLog(events)
  PROVE  \A n \in DOMAIN events : bound[n] = Binding(bound, n)
<1>1. DOMAIN events = 1..Len(events) /\ Len(events) \in Nat
  BY LogIndices
<1>2. \E b : b = [n \in DOMAIN events |-> Binding(b, n)]
  BY <1>1, BindingExists
<1>3. bound = CHOOSE b : b = [n \in DOMAIN events |-> Binding(b, n)]
  BY DEF bound, Binding, Fit
<1>4. bound = [n \in DOMAIN events |-> Binding(bound, n)]
  BY <1>2, <1>3, Zenon
<1> QED BY <1>4

-----------------------------------------------------------------------------
(* Binding each declaration to the first call it may have leaves no less to  *)
(* the declarations after it than any other binding in their order.          *)
LEMMA BoundIsEarliest ==
  ASSUME IsLog(events), DOMAIN verification.invocations \subseteq Keys, NEW call,
         NEW n \in DOMAIN events, Declared(n),
         \A m \in {l \in DOMAIN events : Declared(l)} :
           /\ call[m] \in Eligible(m) /\ CompleteAt(call[m], m)
           /\ \A l \in {j \in DOMAIN events : Declared(j)} : l < m => Before(call[l], call[m])
  PROVE  bound[n] # NoCall
<1> DEFINE Late(m) == ~(bound[m] \in Keys /\ (bound[m] = call[m] \/ Before(bound[m], call[m])))
           Bad == {m \in DOMAIN events : Declared(m) /\ Late(m)}
<1>1. DOMAIN events = 1..Len(events) /\ Len(events) \in Nat
  BY LogIndices
<1>2. \A m \in DOMAIN events : Eligible(m) \subseteq Keys
  BY DEF Eligible
<1>3. Bad = {}
  <2> SUFFICES ASSUME Bad # {} PROVE FALSE
    OBVIOUS
  <2>1. PICK m \in Bad : \A l \in Bad : m <= l
    <3>1. Bad \subseteq Nat
      BY <1>1
    <3> HIDE DEF Bad
    <3> QED BY <3>1, NatMin
  <2>2. m \in DOMAIN events /\ Declared(m) /\ Late(m)
    OBVIOUS
  <2>3. call[m] \in Keys /\ call[m] \in Eligible(m) /\ CompleteAt(call[m], m)
    BY <1>2, <2>2
  <2>4. ASSUME NEW l \in 1..(m - 1), bound[l] # NoCall PROVE Before(bound[l], call[m])
    <3>1. l \in DOMAIN events /\ l < m /\ ~(m <= l)
      BY <1>1, <2>2
    <3>2. Declared(l)
      BY <2>4, <3>1, BoundIs DEF Binding
    <3>3. l \notin Bad
      BY <2>1, <3>1
    <3>4. bound[l] \in Keys /\ (bound[l] = call[l] \/ Before(bound[l], call[l]))
      BY <3>1, <3>2, <3>3
    <3>5. call[l] \in Keys /\ Before(call[l], call[m])
      BY <1>2, <2>2, <3>1, <3>2
    <3> QED BY <2>3, <3>4, <3>5, BeforeOrders
  <2> HIDE DEF Late, Bad
  <2>5. call[m] \in Fit(bound, m)
    BY <2>3, <2>4 DEF Fit
  <2>6. Fit(bound, m) \subseteq Keys
    BY <1>2, <2>2 DEF Fit
  <2>7. bound[m] = ChooseMatch(Fit(bound, m))
    BY <2>2, <2>5, BoundIs DEF Binding
  <2>8. ChooseMatch(Fit(bound, m)) \in Fit(bound, m)
        /\ \A l \in Fit(bound, m) : l = ChooseMatch(Fit(bound, m)) \/ Before(ChooseMatch(Fit(bound, m)), l)
    BY <2>5, <2>6, FirstMatch
  <2>9. bound[m] \in Keys /\ (bound[m] = call[m] \/ Before(bound[m], call[m]))
    BY <2>5, <2>6, <2>7, <2>8
  <2> QED BY <2>2, <2>9 DEF Late
<1> QED BY <1>3, NoCallIsNoKey

LEMMA BoundFits ==
  ASSUME IsLog(events), DOMAIN verification.invocations \subseteq Keys,
         NEW n \in DOMAIN events, bound[n] # NoCall
  PROVE  /\ Declared(n) /\ bound[n] \in Keys
         /\ bound[n] \in Eligible(n) /\ CompleteAt(bound[n], n)
         /\ \A m \in DOMAIN events : m < n /\ bound[m] # NoCall => Before(bound[m], bound[n])
<1>1. DOMAIN events = 1..Len(events) /\ Len(events) \in Nat
  BY LogIndices
<1>2. bound[n] = Binding(bound, n)
  BY BoundIs
<1>3. Declared(n) /\ Fit(bound, n) # {} /\ bound[n] = ChooseMatch(Fit(bound, n))
  BY <1>2 DEF Binding
<1>4. Fit(bound, n) \subseteq Keys
  BY DEF Fit, Eligible
<1>5. bound[n] \in Fit(bound, n)
  BY <1>3, <1>4, FirstMatch
<1>6. ASSUME NEW m \in DOMAIN events, m < n, bound[m] # NoCall PROVE Before(bound[m], bound[n])
  <2>1. m \in 1..(n - 1)
    BY <1>1, <1>6
  <2> QED BY <1>5, <1>6, <2>1 DEF Fit
<1> QED BY <1>3, <1>4, <1>5, <1>6 DEF Fit

-----------------------------------------------------------------------------
(* WaivedScopes: the declarations of one name in one millisecond.                  *)
LEMMA CollidingIsFinite ==
  ASSUME IsLog(events), NEW skill, NEW at
  PROVE  /\ Colliding(skill, at) \subseteq 1..Len(events) /\ Len(events) \in Nat
         /\ IsFiniteSet(Colliding(skill, at)) /\ Cardinality(Colliding(skill, at)) \in Nat
<1>1. DOMAIN events = 1..Len(events) /\ Len(events) \in Nat
  BY LogIndices
<1>2. Colliding(skill, at) \subseteq 1..Len(events)
  BY <1>1 DEF Colliding
<1>3. IsFiniteSet(1..Len(events))
  BY <1>1, FS_Interval
<1> QED BY <1>1, <1>2, <1>3, FS_Subset, FS_CardinalityType

LEMMA ScopeResolves ==
  ASSUME IsLog(events), NEW n \in DOMAIN events, Declared(n)
  PROVE  n \in Nat /\ n # 0 /\ resolveEvent(declarationScope(n)) = n
<1> DEFINE C == Colliding(events[n].skill, events[n].at)
           scope == declarationScope(n)
<1>1. DOMAIN events = 1..Len(events) /\ Len(events) \in Nat
  BY LogIndices
<1>2. n \in C
  BY DEF Colliding
<1>3. IsFiniteSet(C) /\ Cardinality(C) \in Nat /\ Cardinality(C) # 0
  BY <1>2, CollidingIsFinite, FS_EmptySet
<1>4. C \subseteq 1..Len(events)
  BY CollidingIsFinite
<1>5. scope.skill = events[n].skill /\ scope.at = events[n].at
  BY DEF declarationScope
<1>6. scope.index = IF Cardinality(C) >= 2 THEN n ELSE 0
  BY DEF declarationScope
<1> HIDE DEF scope
<1>7. Colliding(scope.skill, scope.at) = C
  BY <1>5
<1> HIDE DEF C
<1>8. CASE Cardinality(C) >= 2
  BY <1>1, <1>2, <1>3, <1>4, <1>6, <1>7, <1>8 DEF resolveEvent, scope
<1>9. CASE ~(Cardinality(C) >= 2)
  <2>1. Cardinality(C) = 1
    BY <1>3, <1>9
  <2>2. PICK x : C = {x}
    BY <1>3, <2>1, FS_Singleton
  <2>3. C = {n}
    BY <1>2, <2>2
  <2>4. (CHOOSE m \in C : TRUE) = n
    BY <2>3
  <2> QED BY <1>1, <1>6, <1>7, <1>9, <2>1, <2>4 DEF resolveEvent, scope
<1> QED BY <1>1, <1>8, <1>9

(* What a waiver is loose for.                                               *)
Loose(scope) == scope.index = 0 /\ Cardinality(Colliding(scope.skill, scope.at)) > 1
Attached(scope) == resolveEvent(scope) # 0 \/ Loose(scope)

ResolveIn(scope, C) ==
  CASE scope.index = 0 /\ Cardinality(C) = 1 -> CHOOSE n \in C : TRUE
    [] scope.index \in C /\ Cardinality(C) >= 2 -> scope.index
    [] OTHER -> 0

AttachedIn(scope, C) ==
  \/ scope.index = 0 /\ Cardinality(C) >= 1
  \/ scope.index \in C /\ Cardinality(C) >= 2

LEMMA AttachedIs ==
  ASSUME NEW scope, NEW C, NEW n \in Nat, C \subseteq 1..n, IsFiniteSet(C), Cardinality(C) \in Nat
  PROVE  (ResolveIn(scope, C) # 0 \/ (scope.index = 0 /\ Cardinality(C) > 1)) <=> AttachedIn(scope, C)
<1>1. CASE Cardinality(C) = 1
  <2>1. PICK x : C = {x}
    BY <1>1, FS_Singleton
  <2>2. (CHOOSE m \in C : TRUE) \in C
    BY <2>1
  <2>3. (CHOOSE m \in C : TRUE) # 0
    BY <2>2
  <2>4. scope.index = 0 => ResolveIn(scope, C) # 0
    BY <1>1, <2>3 DEF ResolveIn
  <2>5. scope.index # 0 => ResolveIn(scope, C) = 0
    BY <1>1 DEF ResolveIn
  <2> QED BY <1>1, <2>4, <2>5 DEF AttachedIn
<1>2. CASE Cardinality(C) # 1
  <2>1. scope.index \in C /\ Cardinality(C) >= 2 => scope.index # 0 /\ ResolveIn(scope, C) = scope.index
    BY <1>2 DEF ResolveIn
  <2>2. ~(scope.index \in C /\ Cardinality(C) >= 2) => ResolveIn(scope, C) = 0
    BY <1>2 DEF ResolveIn
  <2>3. Cardinality(C) > 1 <=> Cardinality(C) >= 2
    OBVIOUS
  <2>4. Cardinality(C) >= 1 <=> Cardinality(C) >= 2
    BY <1>2
  <2> QED BY <2>1, <2>2, <2>3, <2>4 DEF AttachedIn
<1> QED BY <1>1, <1>2

(* A further declaration leaves every scope attached.                        *)
LEMMA AttachedStays ==
  ASSUME IsLog(events), NEW e, events' = Append(events, e), NEW scope, Attached(scope)
  PROVE  Attached(scope)'
<1> DEFINE C == Colliding(scope.skill, scope.at)
           D == Colliding(scope.skill, scope.at)'
<1>1. /\ IsLog(events') /\ DOMAIN events = 1..Len(events) /\ Len(events) \in Nat
      /\ DOMAIN events' = 1..(Len(events) + 1)
      /\ \A i \in DOMAIN events : events'[i] = events[i]
  BY AppendToLog
<1>2. C \subseteq D
  BY <1>1 DEF Colliding, Declared
<1>3. IsFiniteSet(C) /\ Cardinality(C) \in Nat
  BY CollidingIsFinite
<1>4. IsFiniteSet(D) /\ Cardinality(D) \in Nat
  <2>1. D \subseteq 1..(Len(events) + 1)
    BY <1>1 DEF Colliding
  <2>2. IsFiniteSet(1..(Len(events) + 1))
    BY <1>1, FS_Interval
  <2> QED BY <2>1, <2>2, FS_Subset, FS_CardinalityType
<1>5. Cardinality(C) <= Cardinality(D)
  BY <1>2, <1>4, FS_Subset
<1>6. AttachedIn(scope, C)
  <2>1. ResolveIn(scope, C) # 0 \/ (scope.index = 0 /\ Cardinality(C) > 1)
    BY DEF Attached, Loose, resolveEvent, ResolveIn
  <2>2. C \subseteq 1..Len(events)
    BY CollidingIsFinite
  <2> HIDE DEF C
  <2> QED BY <1>1, <1>3, <2>1, <2>2, AttachedIs
<1>7. AttachedIn(scope, D)
  <2> HIDE DEF C, D
  <2> QED BY <1>2, <1>3, <1>4, <1>5, <1>6 DEF AttachedIn
<1>8. ResolveIn(scope, D) # 0 \/ (scope.index = 0 /\ Cardinality(D) > 1)
  <2>1. D \subseteq 1..(Len(events) + 1) /\ Len(events) + 1 \in Nat
    BY <1>1 DEF Colliding
  <2> HIDE DEF C, D
  <2> QED BY <1>4, <1>7, <2>1, AttachedIs
<1> QED BY <1>8 DEF Attached, Loose, resolveEvent, ResolveIn

-----------------------------------------------------------------------------
(* A transcript starts its calls under the names of their lines, completes   *)
(* calls of its own, and each of them once.                                  *)
LogInv(t, s) ==
  /\ IsLog(t)
  /\ \A j \in DOMAIN t : t[j].type = "start" => t[j].call = <<s, j>>
  /\ \A j \in DOMAIN t : t[j].type = "complete" => t[j].call[1] = s
  /\ \A i, j \in DOMAIN t :
       t[i].type = "complete" /\ t[j].type = "complete" /\ t[i].call = t[j].call => i = j

TranscriptInv ==
  /\ transcript = [s \in Sessions |-> transcript[s]]
  /\ \A s \in Sessions : LogInv(transcript[s], s)

(* What was verified was read of the transcripts, each in one place.         *)
ReadAs(t, p) ==
  /\ \A k \in DOMAIN t :
       /\ p[k[1]] \in Sessions /\ k[2] \in DOMAIN transcript[p[k[1]]]
       /\ t[k] = transcript[p[k[1]]][k[2]]
  /\ \A k, l \in DOMAIN t : p[k[1]] = p[l[1]] => k[1] = l[1]

SourceInv == Verified =>
  /\ DOMAIN verification.source \subseteq Keys
  /\ \E p : ReadAs(verification.source, p)
  /\ verification.invocations = invocations(verification.source)
  /\ verification.eventsSha = events

Prefix(t, n) == [k \in {1} \X (1..n) |-> t[k[2]]]

SanitizeInv ==
  /\ sanitizing.step = "verified" =>
       Verified /\ sanitizing.session \in Sessions /\ StrictlyValid(verification.source)
  /\ sanitizing.step = "written" =>
       /\ sanitizing.session \in Sessions
       /\ \E n \in DOMAIN transcript[sanitizing.session] :
            LET t == Prefix(transcript[sanitizing.session], n)
            IN StrictlyValid(t) /\ sanitizing.copy = Sanitized(t)

(* What a waiver bound, and what its approver was shown.                     *)
WaiverInv(w, x) ==
  LET v == w.snapshot[3] IN
  /\ v.mode # "none" /\ v.source = x.source /\ w.snapshot[4] # {}
  /\ IsLog(v.eventsSha) /\ Len(v.eventsSha) <= Len(events)
  /\ v.eventsSha = events => resolveEvent(w.scope) = x.declaration
  /\ Attached(w.scope)

WaiversInv ==
  /\ IsLog(waivers) /\ IsLog(shown) /\ Len(shown) = Len(waivers)
  /\ \A i \in DOMAIN waivers : WaiverInv(waivers[i], shown[i])

WorkflowInv ==
  /\ IsLog(events) /\ TranscriptInv /\ SourceInv /\ SanitizeInv /\ WaiversInv

LEMMA EmptyLog == IsLog(<<>>) /\ DOMAIN <<>> = {} /\ Len(<<>>) = 0
<1>1. <<>> \in Seq({<<>>[i] : i \in DOMAIN <<>>}) /\ DOMAIN <<>> = {} /\ Len(<<>>) = 0
  BY EmptySeq
<1> QED BY <1>1 DEF IsLog

LEMMA WorkflowInitInv == WorkflowInit => WorkflowInv
<1> SUFFICES ASSUME WorkflowInit PROVE WorkflowInv
  OBVIOUS
<1>1. IsLog(<<>>) /\ DOMAIN <<>> = {} /\ Len(<<>>) = 0
  BY EmptyLog
<1>2. TranscriptInv
  <2>1. \A s \in Sessions : transcript[s] = <<>>
    BY DEF WorkflowInit
  <2>2. transcript = [s \in Sessions |-> transcript[s]]
    BY DEF WorkflowInit
  <2>3. \A s : LogInv(<<>>, s)
    BY <1>1 DEF LogInv
  <2> QED BY <2>1, <2>2, <2>3 DEF TranscriptInv
<1>3. SourceInv /\ SanitizeInv
  BY DEF WorkflowInit, SourceInv, SanitizeInv, Verified, Unverified, Nothing
<1>4. WaiversInv
  BY <1>1 DEF WorkflowInit, WaiversInv
<1> QED BY <1>1, <1>2, <1>3, <1>4 DEF WorkflowInit, WorkflowInv

-----------------------------------------------------------------------------
LEMMA SameDeclarations ==
  ASSUME events' = events, NEW w, NEW x, WaiverInv(w, x)
  PROVE  WaiverInv(w, x)'
<1>1. resolveEvent(w.scope)' = resolveEvent(w.scope) /\ Loose(w.scope)' = Loose(w.scope)
  <2>1. Colliding(w.scope.skill, w.scope.at)' = Colliding(w.scope.skill, w.scope.at)
    BY DEF Colliding, Declared
  <2> QED BY <2>1 DEF resolveEvent, Loose
<1> QED BY <1>1 DEF WaiverInv, Attached

LEMMA SameWaivers ==
  ASSUME WaiversInv, events' = events, waivers' = waivers, shown' = shown
  PROVE  WaiversInv'
<1>1. ASSUME NEW i \in DOMAIN waivers PROVE WaiverInv(waivers[i], shown[i])'
  <2>1. PICK w, x : w = waivers[i] /\ x = shown[i]
    OBVIOUS
  <2>2. WaiverInv(w, x)
    BY <2>1 DEF WaiversInv
  <2>3. WaiverInv(w, x)'
    BY <2>2, SameDeclarations
  <2>4. w = waivers'[i] /\ x = shown'[i]
    BY <2>1
  <2> QED BY <2>3, <2>4
<1> QED BY <1>1 DEF WaiversInv, IsLog

(* A line more leaves what was read of the transcripts.                      *)
LEMMA LogsKeepsInv ==
  ASSUME WorkflowInv, NEW s \in Sessions, NEW line, Logs(s, line), LogInv(Append(transcript[s], line), s)
  PROVE  WorkflowInv'
<1>1. /\ transcript' = [transcript EXCEPT ![s] = Append(transcript[s], line)]
      /\ UNCHANGED <<clock, events, verification, waivers, sanitizing, shown>>
  BY DEF Logs
<1>2. /\ transcript = [u \in Sessions |-> transcript[u]]
      /\ \A u \in Sessions : LogInv(transcript[u], u)
  BY DEF WorkflowInv, TranscriptInv
<1>3. /\ transcript' = [u \in Sessions |-> transcript'[u]]
      /\ transcript'[s] = Append(transcript[s], line)
      /\ \A u \in Sessions : u # s => transcript'[u] = transcript[u]
  BY <1>1, <1>2
<1>4. TranscriptInv'
  BY <1>2, <1>3 DEF TranscriptInv
<1>5. ASSUME NEW u \in Sessions, NEW j \in DOMAIN transcript[u]
      PROVE  j \in DOMAIN transcript'[u] /\ transcript'[u][j] = transcript[u][j]
  <2>1. CASE u = s
    <3>1. IsLog(transcript[s])
      BY <1>2 DEF LogInv
    <3>2. /\ DOMAIN transcript[s] = 1..Len(transcript[s]) /\ Len(transcript[s]) \in Nat
          /\ DOMAIN Append(transcript[s], line) = 1..(Len(transcript[s]) + 1)
          /\ \A i \in DOMAIN transcript[s] : Append(transcript[s], line)[i] = transcript[s][i]
      BY <3>1, AppendToLog
    <3> QED BY <1>3, <2>1, <3>2
  <2>2. CASE u # s
    BY <1>3, <2>2
  <2> QED BY <2>1, <2>2
<1>6. ASSUME NEW t, NEW p, ReadAs(t, p) PROVE ReadAs(t, p)'
  BY <1>5, <1>6 DEF ReadAs
<1>7. SourceInv'
  <2>1. SourceInv /\ verification' = verification /\ events' = events
    BY <1>1 DEF WorkflowInv
  <2> QED BY <1>6, <2>1 DEF SourceInv, Verified
<1>8. SanitizeInv'
  <2>1. SanitizeInv /\ verification' = verification /\ sanitizing' = sanitizing
    BY <1>1 DEF WorkflowInv
  <2>2. ASSUME sanitizing.step = "written"
        PROVE  /\ sanitizing.session \in Sessions
               /\ \E n \in DOMAIN transcript'[sanitizing.session] :
                    LET t == Prefix(transcript'[sanitizing.session], n)
                    IN StrictlyValid(t) /\ sanitizing.copy = Sanitized(t)
    <3> DEFINE u == sanitizing.session
    <3>1. u \in Sessions
      BY <2>1, <2>2 DEF SanitizeInv
    <3>2. PICK n \in DOMAIN transcript[u] :
            StrictlyValid(Prefix(transcript[u], n)) /\ sanitizing.copy = Sanitized(Prefix(transcript[u], n))
      BY <2>1, <2>2 DEF SanitizeInv
    <3>3. DOMAIN transcript[u] = 1..Len(transcript[u]) /\ Len(transcript[u]) \in Nat
      BY <1>2, <3>1, LogIndices DEF LogInv
    <3>4. \A k \in {1} \X (1..n) : transcript'[u][k[2]] = transcript[u][k[2]]
      <4> TAKE k \in {1} \X (1..n)
      <4>1. k[2] \in DOMAIN transcript[u]
        BY <3>3
      <4> QED BY <1>5, <3>1, <4>1
    <3>5. Prefix(transcript'[u], n) = Prefix(transcript[u], n)
      BY <3>4 DEF Prefix
    <3>6. n \in DOMAIN transcript'[u]
      BY <1>5, <3>1
    <3> QED BY <3>1, <3>2, <3>5, <3>6
  <2> QED BY <2>1, <2>2 DEF SanitizeInv, Verified
<1>9. WaiversInv'
  <2>1. WaiversInv /\ events' = events /\ waivers' = waivers /\ shown' = shown
    BY <1>1 DEF WorkflowInv
  <2> QED BY <2>1, SameWaivers
<1> QED BY <1>1, <1>4, <1>7, <1>8, <1>9 DEF WorkflowInv

LEMMA SessionsKeepInv ==
  ASSUME WorkflowInv, NEW s \in Sessions
  PROVE  /\ \A skill : StartCall(s, skill) => WorkflowInv'
         /\ \A ok : \A call \in Ids(transcript[s]) : CompleteCall(s, call, ok) => WorkflowInv'
         /\ \A routine : EndSession(s, routine) => WorkflowInv'
<1> DEFINE t == transcript[s]
<1>1. LogInv(t, s)
  BY DEF WorkflowInv, TranscriptInv
<1>2. ASSUME NEW line
      PROVE  /\ IsLog(Append(t, line)) /\ Len(t) \in Nat /\ DOMAIN t = 1..Len(t)
             /\ DOMAIN Append(t, line) = 1..(Len(t) + 1)
             /\ \A i \in DOMAIN t : Append(t, line)[i] = t[i]
             /\ Append(t, line)[Len(t) + 1] = line
  BY <1>1, AppendToLog DEF LogInv
<1>3. ASSUME NEW line,
             line.type = "start" => line.call = <<s, Len(t) + 1>>,
             line.type = "complete" => line.call[1] = s /\ Completions(t, line.call) = {}
      PROVE  LogInv(Append(t, line), s)
  <2> DEFINE u == Append(t, line)
  <2>1. \A j \in DOMAIN u : (j \in DOMAIN t /\ u[j] = t[j]) \/ (j = Len(t) + 1 /\ u[j] = line)
    BY <1>2
  <2>2. IsLog(u)
    BY <1>2
  <2> HIDE DEF u
  <2>3. \A j \in DOMAIN u : u[j].type = "start" => u[j].call = <<s, j>>
    BY <1>1, <1>3, <2>1 DEF LogInv
  <2>4. \A j \in DOMAIN u : u[j].type = "complete" => u[j].call[1] = s
    BY <1>1, <1>3, <2>1 DEF LogInv
  <2>5. \A i, j \in DOMAIN u :
          u[i].type = "complete" /\ u[j].type = "complete" /\ u[i].call = u[j].call => i = j
    BY <1>1, <1>3, <2>1 DEF LogInv, Completions
  <2> QED BY <2>2, <2>3, <2>4, <2>5 DEF LogInv, u
<1>4. ASSUME NEW skill, StartCall(s, skill) PROVE WorkflowInv'
  <2>1. PICK line : line = [type |-> "start", call |-> <<s, Len(t) + 1>>, skill |-> skill, at |-> clock]
    OBVIOUS
  <2>2. Logs(s, line)
    BY <1>4, <2>1 DEF StartCall
  <2>3. LogInv(Append(t, line), s)
    BY <1>3, <2>1
  <2> QED BY <2>2, <2>3, LogsKeepsInv
<1>5. ASSUME NEW ok, NEW call \in Ids(t), CompleteCall(s, call, ok) PROVE WorkflowInv'
  <2>1. PICK line : line = [type |-> "complete", call |-> call, ok |-> ok, at |-> clock]
    OBVIOUS
  <2>2. Logs(s, line) /\ Completions(t, line.call) = {}
    BY <1>5, <2>1 DEF CompleteCall
  <2>3. call[1] = s
    BY <1>1 DEF LogInv, Ids, Calls
  <2>4. LogInv(Append(t, line), s)
    BY <1>3, <2>1, <2>2, <2>3
  <2> QED BY <2>2, <2>4, LogsKeepsInv
<1>6. ASSUME NEW routine, EndSession(s, routine) PROVE WorkflowInv'
  <2>1. PICK line : line = [type |-> "end", routine |-> routine, at |-> clock]
    OBVIOUS
  <2>2. Logs(s, line)
    BY <1>6, <2>1 DEF EndSession
  <2>3. LogInv(Append(t, line), s)
    BY <1>3, <2>1
  <2> QED BY <2>2, <2>3, LogsKeepsInv
<1> QED BY <1>4, <1>5, <1>6

-----------------------------------------------------------------------------
(* Declarations and verifications.                                           *)
LEMMA recordWorkflowKeepsInv ==
  ASSUME WorkflowInv, NEW skill, NEW status, recordWorkflow(skill, status)
  PROVE  WorkflowInv'
<1>1. PICK e : events' = Append(events, e)
  BY DEF recordWorkflow
<1>2. /\ verification' = Unverified /\ sanitizing = Nothing
      /\ UNCHANGED <<clock, transcript, waivers, sanitizing, shown>>
  BY DEF recordWorkflow, Free
<1>3. /\ IsLog(events') /\ Len(events) \in Nat /\ Len(events') = Len(events) + 1
  BY <1>1, AppendToLog DEF WorkflowInv
<1>4. TranscriptInv'
  BY <1>2 DEF WorkflowInv, TranscriptInv
<1>5. SourceInv' /\ SanitizeInv'
  BY <1>2 DEF SourceInv, SanitizeInv, Verified, Unverified, Nothing
<1>6. ASSUME NEW w, NEW x, WaiverInv(w, x) PROVE WaiverInv(w, x)'
  <2> DEFINE v == w.snapshot[3]
  <2>1. IsLog(v.eventsSha) /\ Len(v.eventsSha) <= Len(events) /\ Len(v.eventsSha) \in Nat
    BY <1>6, LogIndices DEF WaiverInv
  <2>2. Len(v.eventsSha) <= Len(events') /\ v.eventsSha # events'
    BY <1>3, <2>1
  <2>3. Attached(w.scope)'
    BY <1>1, <1>6, AttachedStays DEF WorkflowInv, WaiverInv
  <2>4. v.mode # "none" /\ v.source = x.source /\ w.snapshot[4] # {}
    BY <1>6 DEF WaiverInv
  <2> QED BY <2>1, <2>2, <2>3, <2>4 DEF WaiverInv
<1>7. WaiversInv'
  <2>1. ASSUME NEW i \in DOMAIN waivers PROVE WaiverInv(waivers[i], shown[i])'
    <3>1. PICK w, x : w = waivers[i] /\ x = shown[i]
      OBVIOUS
    <3>2. WaiverInv(w, x)'
      BY <1>6, <3>1 DEF WorkflowInv, WaiversInv
    <3>3. w = waivers'[i] /\ x = shown'[i]
      BY <1>2, <3>1
    <3> QED BY <3>2, <3>3
  <2> QED BY <1>2, <2>1 DEF WorkflowInv, WaiversInv, IsLog
<1> QED BY <1>3, <1>4, <1>5, <1>7 DEF WorkflowInv, IsLog

LEMMA VerifiesKeepsInv ==
  ASSUME WorkflowInv, NEW t, NEW mode \in {"compatible", "strict"}, Verifies(t, mode),
         DOMAIN t \subseteq Keys, \E p : ReadAs(t, p),
         sanitizing' = Nothing \/ (mode = "strict" /\ \E s \in Sessions : sanitizing' = [step |-> "verified", session |-> s]),
         UNCHANGED <<clock, transcript, events, waivers, shown>>
  PROVE  WorkflowInv'
<1>1. /\ verification' = Evidence(t, mode) /\ mode # "none"
      /\ mode = "strict" => StrictlyValid(t)
  BY DEF Verifies
<1>2. /\ verification'.mode = mode /\ verification'.source = t /\ verification'.eventsSha = events
      /\ verification'.invocations = invocations(t)
  BY <1>1 DEF Evidence
<1>3. SourceInv'
  <2>1. \E p : ReadAs(t, p)'
    BY DEF ReadAs
  <2> QED BY <1>2, <2>1 DEF SourceInv
<1>4. SanitizeInv'
  BY <1>1, <1>2 DEF SanitizeInv, Verified, Nothing
<1>5. TranscriptInv'
  BY DEF WorkflowInv, TranscriptInv
<1>6. WaiversInv'
  BY SameWaivers DEF WorkflowInv
<1> QED BY <1>3, <1>4, <1>5, <1>6 DEF WorkflowInv, IsLog

LEMMA verifyWorkflowLogFileKeepsInv ==
  ASSUME WorkflowInv, NEW n \in Nat, NEW paths \in Injection(1..n, Sessions), NEW mode \in Modes,
         verifyWorkflowLogFile(paths, mode)
  PROVE  WorkflowInv'
<1> DEFINE t == Concatenated(paths)
<1>1. /\ paths \in [1..n -> Sessions]
      /\ \A i, j \in 1..n : paths[i] = paths[j] => i = j
  BY DEF Injection, IsInjective
<1>2. /\ Verifies(t, mode) /\ sanitizing' = Nothing
      /\ UNCHANGED <<clock, transcript, events, waivers, shown>>
  BY DEF verifyWorkflowLogFile, Verifies, Free
<1>3. \A k \in DOMAIN t : k \in Keys /\ k[1] \in 1..n /\ k[2] \in DOMAIN transcript[paths[k[1]]]
                          /\ t[k] = transcript[paths[k[1]]][k[2]]
  <2> TAKE k \in DOMAIN t
  <2>1. DOMAIN t = UNION {DOMAIN Lines(transcript[paths[i]], i) : i \in 1..n}
    BY <1>1 DEF Concatenated
  <2>2. PICK i \in 1..n : k \in DOMAIN Lines(transcript[paths[i]], i)
    BY <2>1
  <2>3. k \in {i} \X DOMAIN transcript[paths[i]]
    BY <2>2 DEF Lines
  <2>4. LogInv(transcript[paths[i]], paths[i])
    BY <1>1 DEF WorkflowInv, TranscriptInv
  <2>5. DOMAIN transcript[paths[i]] \subseteq Nat
    BY <2>4, LogIndices DEF LogInv
  <2>6. t[k] = transcript[paths[k[1]]][k[2]]
    BY DEF Concatenated
  <2> QED BY <2>3, <2>5, <2>6 DEF Keys
<1>4. ReadAs(t, paths)
  <2> HIDE DEF t
  <2> QED BY <1>1, <1>3 DEF ReadAs
<1>5. mode \in {"compatible", "strict"}
  BY DEF Modes
<1>6. DOMAIN t \subseteq Keys
  BY <1>3
<1> HIDE DEF t
<1> QED BY <1>2, <1>4, <1>5, <1>6, VerifiesKeepsInv

LEMMA sanitizeWorkflowLogFileKeepsInv ==
  ASSUME WorkflowInv, NEW s \in Sessions, sanitizeWorkflowLogFile(s)
  PROVE  WorkflowInv'
<1> DEFINE t == Lines(transcript[s], 1)
<1>1. /\ Verifies(t, "strict") /\ sanitizing' = [step |-> "verified", session |-> s]
      /\ UNCHANGED <<clock, transcript, events, waivers, shown>>
  BY DEF sanitizeWorkflowLogFile
<1>2. DOMAIN transcript[s] \subseteq Nat
  BY LogIndices DEF WorkflowInv, TranscriptInv, LogInv
<1>3. \A k \in DOMAIN t : k \in Keys /\ k[1] = 1 /\ k[2] \in DOMAIN transcript[s] /\ t[k] = transcript[s][k[2]]
  BY <1>2 DEF Lines, Keys
<1>4. ReadAs(t, [i \in {1} |-> s])
  <2> HIDE DEF t
  <2> QED BY <1>3 DEF ReadAs
<1>5. DOMAIN t \subseteq Keys
  BY <1>3
<1> HIDE DEF t
<1> QED BY <1>1, <1>4, <1>5, VerifiesKeepsInv

LEMMA SecondReadKeepsInv ==
  ASSUME WorkflowInv, SecondRead
  PROVE  WorkflowInv'
<1> DEFINE s == sanitizing.session
           t == Lines(transcript[s], 1)
<1>1. /\ sanitizing' = IF t = verification.source
                       THEN [step |-> "written", session |-> s, copy |-> Sanitized(t)]
                       ELSE Nothing
      /\ UNCHANGED <<clock, transcript, events, verification, waivers, shown>>
  BY DEF SecondRead
<1>2. Verified /\ s \in Sessions /\ StrictlyValid(verification.source)
  BY DEF SecondRead, WorkflowInv, SanitizeInv
<1>3. DOMAIN transcript[s] = 1..Len(transcript[s]) /\ Len(transcript[s]) \in Nat
  BY <1>2, LogIndices DEF WorkflowInv, TranscriptInv, LogInv
<1>4. t = Prefix(transcript[s], Len(transcript[s]))
  BY <1>3 DEF Lines, Prefix
<1>5. SanitizeInv'
  <2>1. CASE t = verification.source
    <3>1. StrictlyValid(t)
      BY <1>2, <2>1
    <3>2. DOMAIN t # {}
      BY <3>1 DEF StrictlyValid, Ends
    <3>3. Len(transcript[s]) \in DOMAIN transcript[s]
      BY <1>3, <3>2 DEF Lines
    <3>4. sanitizing' = [step |-> "written", session |-> s, copy |-> Sanitized(t)]
      BY <1>1, <2>1
    <3> HIDE DEF t, s
    <3> QED BY <1>1, <1>2, <1>4, <3>1, <3>3, <3>4 DEF SanitizeInv
  <2>2. CASE t # verification.source
    BY <1>1, <2>2 DEF SanitizeInv, Nothing
  <2> QED BY <2>1, <2>2
<1>6. TranscriptInv' /\ SourceInv'
  <2> HIDE DEF t
  <2>1. TranscriptInv'
    BY <1>1 DEF WorkflowInv, TranscriptInv
  <2>2. SourceInv'
    BY <1>1 DEF WorkflowInv, SourceInv, Verified, ReadAs
  <2> QED BY <2>1, <2>2
<1>7. WaiversInv'
  BY <1>1, SameWaivers DEF WorkflowInv
<1> QED BY <1>1, <1>5, <1>6, <1>7 DEF WorkflowInv, IsLog

LEMMA IdleStepsKeepInv ==
  ASSUME WorkflowInv, Tick \/ SanitizationEnds \/ UNCHANGED workflowVars
  PROVE  WorkflowInv'
<1>1. /\ sanitizing' = sanitizing \/ sanitizing' = Nothing
      /\ UNCHANGED <<transcript, events, verification, waivers, shown>>
  BY DEF Tick, SanitizationEnds, workflowVars
<1>2. TranscriptInv' /\ SourceInv'
  <2>1. TranscriptInv'
    BY <1>1 DEF WorkflowInv, TranscriptInv
  <2>2. SourceInv'
    BY <1>1 DEF WorkflowInv, SourceInv, Verified, ReadAs
  <2> QED BY <2>1, <2>2
<1>3. SanitizeInv'
  BY <1>1 DEF WorkflowInv, SanitizeInv, Verified, Nothing
<1>4. WaiversInv'
  BY <1>1, SameWaivers DEF WorkflowInv
<1> QED BY <1>1, <1>2, <1>3, <1>4 DEF WorkflowInv, IsLog

-----------------------------------------------------------------------------
(* Waivers.                                                                  *)
LEMMA ReportsAreFinite ==
  ASSUME IsLog(events)
  PROVE  IsFiniteSet(Reported)
<1>1. DOMAIN events = 1..Len(events) /\ Len(events) \in Nat
  BY LogIndices
<1>2. IsFiniteSet(Unbound)
  <2>1. Unbound \subseteq 1..Len(events) /\ IsFiniteSet(1..Len(events))
    BY <1>1, FS_Interval DEF Unbound
  <2> QED BY <2>1, FS_Subset
<1> DEFINE named == [n \in Unbound |-> <<declarationScope(n), codeOf(n)>>]
<1>3. named \in Surjection(Unbound, Reported)
  BY DEF Surjection, Reported
<1> QED BY <1>2, <1>3, FS_Surjection

LEMMA NewWaiver ==
  ASSUME WorkflowInv, NEW r \in Reported, NEW w, NEW x,
         w.scope = r[1], w.snapshot = snapshotPayload(r[1]),
         x.declaration = resolveEvent(r[1]), x.source = verification.source
  PROVE  WaiverInv(w, x)
<1>1. PICK n \in Unbound : r = <<declarationScope(n), codeOf(n)>>
  BY DEF Reported
<1>2. n \in DOMAIN events /\ Declared(n) /\ Verified
  BY DEF Unbound
<1>3. resolveEvent(r[1]) # 0
  BY <1>1, <1>2, ScopeResolves DEF WorkflowInv
<1>4. w.snapshot[3] = verification /\ w.snapshot[4] = currentCodeFor(r[1])
  BY DEF snapshotPayload
<1>5. r[2] \in currentCodeFor(r[1])
  BY DEF currentCodeFor
<1>6. verification.eventsSha = events /\ IsLog(events) /\ Len(events) \in Nat
  BY <1>2, LogIndices DEF WorkflowInv, SourceInv
<1> QED BY <1>2, <1>3, <1>4, <1>5, <1>6 DEF WaiverInv, Verified, Attached

LEMMA WaiveKeepsInv ==
  ASSUME WorkflowInv, NEW reports, reports \subseteq Reported, Waive(reports)
  PROVE  WorkflowInv'
<1> DEFINE count == Cardinality(reports)
<1>1. count \in Nat
  BY ReportsAreFinite, FS_Subset, FS_CardinalityType DEF WorkflowInv
<1>2. PICK ordered \in [1..count -> reports] :
        /\ waivers' = waivers \o [i \in 1..count |->
             [scope |-> ordered[i][1], code |-> ordered[i][2], snapshot |-> snapshotPayload(ordered[i][1])]]
        /\ shown' = shown \o [i \in 1..count |->
             [declaration |-> resolveEvent(ordered[i][1]), source |-> verification.source]]
  BY DEF Waive, Bijection, Injection
<1>3. UNCHANGED <<clock, transcript, events, verification, sanitizing>>
  BY DEF Waive
<1> DEFINE f == [i \in 1..count |->
             [scope |-> ordered[i][1], code |-> ordered[i][2], snapshot |-> snapshotPayload(ordered[i][1])]]
           g == [i \in 1..count |->
             [declaration |-> resolveEvent(ordered[i][1]), source |-> verification.source]]
<1>4. \A i \in 1..count :
        /\ ordered[i] \in Reported
        /\ f[i].scope = ordered[i][1] /\ f[i].snapshot = snapshotPayload(ordered[i][1])
        /\ g[i].declaration = resolveEvent(ordered[i][1]) /\ g[i].source = verification.source
  BY <1>2
<1>5. /\ f \in [1..count -> {f[i] : i \in 1..count}]
      /\ g \in [1..count -> {g[i] : i \in 1..count}]
  OBVIOUS
<1>6. waivers' = waivers \o f /\ shown' = shown \o g
  BY <1>2
<1> HIDE DEF f, g, count
<1>7. IsLog(waivers) /\ IsLog(shown) /\ Len(shown) = Len(waivers)
  BY DEF WorkflowInv, WaiversInv
<1>8. /\ IsLog(waivers') /\ DOMAIN waivers = 1..Len(waivers) /\ Len(waivers) \in Nat
      /\ DOMAIN waivers' = 1..(Len(waivers) + count) /\ Len(waivers') = Len(waivers) + count
      /\ \A i \in DOMAIN waivers : waivers'[i] = waivers[i]
      /\ \A i \in 1..count : waivers'[Len(waivers) + i] = f[i]
  <2>1. Extended(waivers, count, f, waivers \o f)
    BY <1>1, <1>5, <1>7, ExtendedLog
  <2> QED BY <1>6, <2>1 DEF Extended
<1>9. /\ IsLog(shown') /\ DOMAIN shown = 1..Len(waivers)
      /\ Len(shown') = Len(waivers) + count
      /\ \A i \in DOMAIN waivers : shown'[i] = shown[i]
      /\ \A i \in 1..count : shown'[Len(waivers) + i] = g[i]
  <2>1. Extended(shown, count, g, shown \o g)
    BY <1>1, <1>5, <1>7, ExtendedLog
  <2> QED BY <1>6, <1>7, <1>8, <2>1 DEF Extended
<1>10. ASSUME NEW i \in DOMAIN waivers' PROVE WaiverInv(waivers[i], shown[i])'
  <2>1. PICK w, x : w = waivers'[i] /\ x = shown'[i]
    OBVIOUS
  <2>2. CASE i \in DOMAIN waivers
    <3>1. w = waivers[i] /\ x = shown[i]
      BY <1>8, <1>9, <2>1, <2>2
    <3>2. WaiverInv(w, x)
      BY <2>2, <3>1 DEF WorkflowInv, WaiversInv
    <3> QED BY <1>3, <2>1, <3>2, SameDeclarations
  <2>3. CASE i \notin DOMAIN waivers
    <3>1. i - Len(waivers) \in 1..count /\ i = Len(waivers) + (i - Len(waivers))
      BY <1>1, <1>8, <2>3
    <3>2. PICK j \in 1..count : i = Len(waivers) + j
      BY <3>1
    <3>3. w = f[j] /\ x = g[j]
      BY <1>8, <1>9, <2>1, <3>2
    <3>4. WaiverInv(w, x)
      BY <1>4, <3>3, NewWaiver
    <3> QED BY <1>3, <2>1, <3>4, SameDeclarations
  <2> QED BY <2>2, <2>3
<1>11. WaiversInv'
  BY <1>8, <1>9, <1>10 DEF WaiversInv, IsLog
<1>12. TranscriptInv' /\ SourceInv' /\ SanitizeInv'
  <2>1. TranscriptInv'
    BY <1>3 DEF WorkflowInv, TranscriptInv
  <2>2. SourceInv'
    BY <1>3 DEF WorkflowInv, SourceInv, Verified, ReadAs
  <2>3. SanitizeInv'
    BY <1>3 DEF WorkflowInv, SanitizeInv, Verified
  <2> QED BY <2>1, <2>2, <2>3
<1> QED BY <1>3, <1>11, <1>12 DEF WorkflowInv, IsLog

LEMMA NextKeepsInv ==
  ASSUME WorkflowInv, [WorkflowNext]_workflowVars
  PROVE  WorkflowInv'
<1>1. ASSUME NEW s \in Sessions, NEW skill, StartCall(s, skill) PROVE WorkflowInv'
  BY <1>1, SessionsKeepInv
<1>2. ASSUME NEW s \in Sessions, NEW ok, NEW call \in Ids(transcript[s]), CompleteCall(s, call, ok) PROVE WorkflowInv'
  BY <1>2, SessionsKeepInv
<1>3. ASSUME NEW s \in Sessions, NEW routine, EndSession(s, routine) PROVE WorkflowInv'
  BY <1>3, SessionsKeepInv
<1>4. ASSUME NEW skill, NEW status, recordWorkflow(skill, status) PROVE WorkflowInv'
  BY <1>4, recordWorkflowKeepsInv
<1>5. ASSUME NEW paths \in UNION {Injection(1..n, Sessions) : n \in 1..Cardinality(Sessions)}, NEW mode \in Modes,
             verifyWorkflowLogFile(paths, mode)
      PROVE  WorkflowInv'
  <2>1. PICK n \in 1..Cardinality(Sessions) : paths \in Injection(1..n, Sessions)
    OBVIOUS
  <2>2. n \in Nat
    OBVIOUS
  <2> QED BY <1>5, <2>1, <2>2, verifyWorkflowLogFileKeepsInv
<1>6. ASSUME NEW s \in Sessions, sanitizeWorkflowLogFile(s) PROVE WorkflowInv'
  BY <1>6, sanitizeWorkflowLogFileKeepsInv
<1>7. ASSUME NEW report \in Reported, recordWorkflowWaiver(report) PROVE WorkflowInv'
  BY <1>7, WaiveKeepsInv DEF recordWorkflowWaiver
<1>8. ASSUME recordAllWorkflowWaivers PROVE WorkflowInv'
  BY <1>8, WaiveKeepsInv DEF recordAllWorkflowWaivers
<1> QED
  BY <1>1, <1>2, <1>3, <1>4, <1>5, <1>6, <1>7, <1>8, SecondReadKeepsInv, IdleStepsKeepInv DEF WorkflowNext, RecordStep, SessionGoesOn

-----------------------------------------------------------------------------
(* What was verified is what the transcripts record, each completion the     *)
(* only one of its call.                                                     *)
HappenedAs(k, p) ==
  LET i == verification.invocations[k]
      t == transcript[p[k[1]]]
  IN /\ k \in Keys /\ k \in DOMAIN verification.source
     /\ p[k[1]] \in Sessions /\ i.call = <<p[k[1]], k[2]>>
     /\ k[2] \in Calls(t) /\ t[k[2]].skill = i.skill /\ i.skill \in Skills
     /\ t[k[2]].call = i.call
     /\ i.outcome.status = "completed" =>
          \E l \in Completions(t, i.call) : t[l].ok /\ t[l].at = i.outcome.completedAt

LEMMA InvocationHappened ==
  ASSUME WorkflowInv, Verified, NEW p, ReadAs(verification.source, p),
         NEW k \in DOMAIN verification.invocations
  PROVE  HappenedAs(k, p)
<1> DEFINE S == verification.source
           i == verification.invocations[k]
           s == p[k[1]]
           t == transcript[s]
           C == Completions(S, i.call)
<1>1. DOMAIN S \subseteq Keys /\ verification.invocations = invocations(S)
  BY DEF WorkflowInv, SourceInv
<1>2. /\ k \in Calls(S) /\ S[k].skill \in Skills
      /\ i = [call |-> S[k].call, skill |-> S[k].skill, invokedAt |-> S[k].at, outcome |-> outcomeOf(S, S[k].call)]
  BY <1>1 DEF invocations
<1>3. k \in DOMAIN S /\ S[k].type = "start" /\ s \in Sessions /\ k[2] \in DOMAIN t /\ S[k] = t[k[2]]
  BY <1>2 DEF Calls, ReadAs
<1>4. LogInv(t, s)
  BY <1>3 DEF WorkflowInv, TranscriptInv
<1>5. i.call = <<s, k[2]>> /\ k[2] \in Calls(t) /\ t[k[2]].skill = i.skill /\ t[k[2]].call = i.call
  <2>1. i.call = S[k].call /\ i.skill = S[k].skill
    BY <1>2
  <2> HIDE DEF i, S, t, s
  <2>2. k[2] \in Calls(t) /\ t[k[2]].call = <<s, k[2]>>
    BY <1>3, <1>4 DEF LogInv, Calls
  <2> QED BY <1>3, <2>1, <2>2
<1>6. ASSUME i.outcome.status = "completed"
      PROVE  \E l \in Completions(t, i.call) : t[l].ok /\ t[l].at = i.outcome.completedAt
  <2>1. ASSUME NEW l \in C
        PROVE  p[l[1]] = s /\ l[2] \in Completions(t, i.call) /\ S[l] = t[l[2]] /\ l \in DOMAIN S
    <3>1. l \in DOMAIN S /\ S[l].type = "complete" /\ S[l].call = i.call
      BY DEF Completions
    <3>2. p[l[1]] \in Sessions /\ l[2] \in DOMAIN transcript[p[l[1]]] /\ S[l] = transcript[p[l[1]]][l[2]]
      BY <3>1 DEF ReadAs
    <3>3. LogInv(transcript[p[l[1]]], p[l[1]])
      BY <3>2 DEF WorkflowInv, TranscriptInv
    <3>4. i.call[1] = p[l[1]]
      BY <3>1, <3>2, <3>3 DEF LogInv
    <3>5. i.call[1] = s
      BY <1>5
    <3> QED BY <3>1, <3>2, <3>4, <3>5 DEF Completions
  <2>2. \A l, m \in C : l = m
    <3> TAKE l \in C, m \in C
    <3>1. l \in Keys /\ m \in Keys /\ l[1] = m[1]
      BY <1>1, <2>1 DEF ReadAs
    <3>2. l[2] \in Completions(t, i.call) /\ m[2] \in Completions(t, i.call)
      BY <2>1
    <3>3. l[2] = m[2]
      <4> HIDE DEF t, i
      <4> QED BY <1>4, <3>2 DEF LogInv, Completions
    <3> QED BY <3>1, <3>3 DEF Keys
  <2> DEFINE last == CHOOSE l \in C : \A m \in C : m = l \/ Before(m, l)
  <2>3. C # {} /\ i.outcome = [status |-> IF S[last].ok THEN "completed" ELSE "failed", completedAt |-> S[last].at]
    <3>1. i.outcome = outcomeOf(S, i.call)
      BY <1>2
    <3> HIDE DEF i, S
    <3>2. C # {}
      BY <1>6, <3>1 DEF outcomeOf
    <3> QED BY <3>1, <3>2 DEF outcomeOf
  <2>4. last \in C
    <3> HIDE DEF C
    <3> QED BY <2>2, <2>3
  <2> HIDE DEF last, C
  <2>5. S[last].ok /\ i.outcome.completedAt = S[last].at
    BY <1>6, <2>3
  <2> QED BY <2>1, <2>4, <2>5
<1> HIDE DEF t, s, i, C, S
<1> QED BY <1>1, <1>2, <1>3, <1>5, <1>6 DEF t, s, i, S, HappenedAs

LEMMA InvGivesDeclarationsHappened == WorkflowInv => AcceptedDeclarationsHappened
<1> SUFFICES ASSUME WorkflowInv, Accepts PROVE AcceptedDeclarationsHappened
  BY DEF AcceptedDeclarationsHappened
<1> DEFINE unwaived == {n \in DOMAIN events : Declared(n)} \ Waived
           calls == [n \in unwaived |-> verification.invocations[bound[n]].call]
<1>1. Verified /\ IsLog(events)
  BY DEF Accepts, WorkflowInv
<1>2. PICK p : ReadAs(verification.source, p)
  BY <1>1 DEF WorkflowInv, SourceInv
<1>3. DOMAIN verification.invocations \subseteq Keys
  BY <1>1, <1>2, InvocationHappened DEF HappenedAs
<1>4. ASSUME NEW n \in unwaived
      PROVE  /\ n \in DOMAIN events /\ bound[n] # NoCall /\ bound[n] \in Keys
             /\ bound[n] \in Eligible(n) /\ CompleteAt(bound[n], n)
             /\ bound[n] \in DOMAIN verification.invocations
  <2>1. n \in DOMAIN events /\ bound[n] # NoCall
    BY <1>1 DEF Accepts, Unbound
  <2>2. bound[n] \in Keys /\ bound[n] \in Eligible(n) /\ CompleteAt(bound[n], n)
    BY <1>1, <1>3, <2>1, BoundFits
  <2> QED BY <2>1, <2>2 DEF Eligible
<1>5. ASSUME NEW n \in unwaived
      PROVE  LET k == bound[n] IN
             /\ calls[n] = <<p[k[1]], k[2]>> /\ p[k[1]] \in Sessions
             /\ k \in DOMAIN verification.source
             /\ calls[n] \in Happened /\ DoneBefore(calls[n], n)
  <2> DEFINE k == bound[n]
             i == verification.invocations[k]
             t == transcript[p[k[1]]]
  <2>1. /\ k \in DOMAIN verification.source
        /\ p[k[1]] \in Sessions /\ i.call = <<p[k[1]], k[2]>>
        /\ k[2] \in Calls(t) /\ t[k[2]].skill = i.skill /\ i.skill \in Skills
        /\ t[k[2]].call = i.call
        /\ i.outcome.status = "completed" =>
             \E l \in Completions(t, i.call) : t[l].ok /\ t[l].at = i.outcome.completedAt
    <3>1. HappenedAs(bound[n], p)
      BY <1>1, <1>2, <1>4, InvocationHappened
    <3> QED BY <3>1 DEF HappenedAs
  <2>2. calls[n] = i.call
    OBVIOUS
  <2>3. i.skill = events[n].skill /\ i.outcome.status = "completed" /\ i.outcome.completedAt <= events[n].at
    BY <1>4 DEF Eligible, CompleteAt
  <2> HIDE DEF k, i, calls
  <2>4. calls[n] \in Happened
    <3>1. p[k[1]] \in Sessions /\ k[2] \in {j \in Calls(t) : t[j].skill \in Skills}
      BY <2>1
    <3>2. calls[n] = <<p[k[1]], k[2]>>
      BY <2>1, <2>2
    <3> QED BY <3>1, <3>2 DEF Happened
  <2>5. DoneBefore(calls[n], n)
    <3> DEFINE call == calls[n]
    <3>1. calls[n][1] = p[k[1]] /\ calls[n][2] = k[2]
      <4>1. call = <<p[k[1]], k[2]>>
        BY <2>1, <2>2
      <4> HIDE DEF call
      <4>2. call[1] = p[k[1]] /\ call[2] = k[2]
        BY <4>1
      <4> QED BY <4>2 DEF call
    <3>2. PICK l \in Completions(t, i.call) : t[l].ok /\ t[l].at = i.outcome.completedAt
      BY <2>1, <2>3
    <3>3. t[l].at <= events[n].at
      BY <2>3, <3>2
    <3>4. \E m \in Completions(t, i.call) : t[m].ok /\ t[m].at <= events[n].at
      BY <3>2, <3>3
    <3> QED BY <2>1, <2>3, <3>1, <3>4 DEF DoneBefore
  <2> QED BY <2>1, <2>2, <2>4, <2>5 DEF k
<1>6. ASSUME NEW n \in unwaived, NEW m \in unwaived, m < n
      PROVE  calls[m] # calls[n] /\ (calls[m][1] = calls[n][1] => calls[m][2] < calls[n][2])
  <2> DEFINE k == bound[n]
             l == bound[m]
  <2>1. Before(l, k) /\ k \in Keys /\ l \in Keys
    BY <1>1, <1>3, <1>4, <1>6, BoundFits
  <2>2. /\ calls[n] = <<p[k[1]], k[2]>> /\ calls[m] = <<p[l[1]], l[2]>>
        /\ k \in DOMAIN verification.source /\ l \in DOMAIN verification.source
    BY <1>5
  <2> HIDE DEF k, l, calls
  <2>3. ASSUME calls[m][1] = calls[n][1] PROVE l[2] < k[2]
    <3>1. p[k[1]] = p[l[1]]
      BY <2>2, <2>3
    <3>2. k[1] = l[1]
      BY <1>2, <2>2, <3>1 DEF ReadAs
    <3> QED BY <2>1, <3>2 DEF Before, Keys
  <2>4. k[2] \in Nat /\ l[2] \in Nat
    BY <2>1 DEF Keys
  <2> QED BY <2>2, <2>3, <2>4
<1>7. calls \in [unwaived -> Happened]
  BY <1>5
<1> HIDE DEF calls
<1>8. \E call \in [unwaived -> Happened] :
        \A n \in unwaived :
          /\ DoneBefore(call[n], n)
          /\ \A m \in unwaived : m < n =>
               call[m] # call[n] /\ (call[m][1] = call[n][1] => call[m][2] < call[n][2])
  <2> WITNESS calls \in [unwaived -> Happened]
  <2> HIDE DEF unwaived
  <2> QED BY <1>5, <1>6
<1> QED BY <1>8 DEF AcceptedDeclarationsHappened

LEMMA InvGivesBindingComplete == WorkflowInv => BindingIsComplete
<1> DEFINE declared == {n \in DOMAIN events : Declared(n)}
<1> SUFFICES ASSUME WorkflowInv, Verified, NEW call \in [declared -> DOMAIN verification.invocations],
                    \A n \in declared :
                      /\ call[n] \in Eligible(n) /\ CompleteAt(call[n], n)
                      /\ \A m \in declared : m < n => Before(call[m], call[n])
             PROVE  Reported = {}
  <2> HIDE DEF declared
  <2> QED BY DEF BindingIsComplete, declared
<1>1. IsLog(events)
  BY DEF WorkflowInv
<1>2. DOMAIN verification.invocations \subseteq Keys
  BY DEF WorkflowInv, SourceInv, invocations, Calls
<1>3. ASSUME NEW n \in declared PROVE bound[n] # NoCall
  BY <1>1, <1>2, BoundIsEarliest
<1>4. Unbound = {}
  BY <1>3 DEF Unbound
<1> QED BY <1>4 DEF Reported

-----------------------------------------------------------------------------
(* Leaving lines out of a whole transcript that belong to no Skill call      *)
(* leaves a whole transcript, with the same Skill calls.                     *)
LEMMA SanitizedIsWhole ==
  ASSUME NEW t, DOMAIN t \subseteq Keys, StrictlyValid(t)
  PROVE  StrictlyValid(Sanitized(t)) /\ invocations(Sanitized(t)) = invocations(t)
<1> DEFINE u == Sanitized(t)
<1>1. /\ \A k \in DOMAIN u : k \in DOMAIN t /\ u[k] = t[k] /\ Kept(t, t[k])
      /\ \A k \in DOMAIN t : Kept(t, t[k]) => k \in DOMAIN u
  BY DEF Sanitized
<1> HIDE DEF u
<1>2. Ends(u) = Ends(t)
  BY <1>1 DEF Ends, Kept
<1>3. Calls(u) = {k \in Calls(t) : t[k].skill \in Skills}
  BY <1>1 DEF Calls, Kept
<1>4. ASSUME NEW k \in Calls(u) PROVE Completions(u, t[k].call) = Completions(t, t[k].call)
  BY <1>1, <1>3 DEF Completions, Kept
<1>5. \E k \in Ends(u) : u[k].routine /\ \A l \in DOMAIN u \ {k} : Before(l, k) /\ l \notin Ends(u)
  BY <1>1, <1>2 DEF StrictlyValid, Ends
<1>6. \A k, l \in Calls(u) : u[k].call = u[l].call => k = l
  BY <1>1, <1>3 DEF StrictlyValid, Calls
<1>7. ASSUME NEW k \in Calls(u) PROVE \E l \in DOMAIN u : Completions(u, u[k].call) = {l}
  <2>1. k \in DOMAIN u /\ k \in Calls(t) /\ u[k] = t[k]
    BY <1>1, <1>3 DEF Calls
  <2>2. PICK l \in DOMAIN t : Completions(t, t[k].call) = {l}
    BY <2>1 DEF StrictlyValid
  <2>3. Completions(u, u[k].call) = {l}
    BY <1>4, <2>1, <2>2
  <2> QED BY <2>3 DEF Completions
<1>8. ASSUME NEW l \in DOMAIN u, u[l].type = "complete"
      PROVE  \E k \in Calls(u) : u[k].call = u[l].call /\ Before(k, l)
  <2>1. l \in DOMAIN t /\ t[l].type = "complete" /\ u[l] = t[l] /\ Kept(t, t[l])
    BY <1>1, <1>8
  <2>2. PICK k \in Calls(t) : t[k].call = t[l].call /\ Before(k, l)
    BY <2>1 DEF StrictlyValid
  <2>3. PICK m \in Calls(t) : t[m].call = t[l].call /\ t[m].skill \in Skills
    BY <2>1 DEF Kept
  <2>4. m = k
    BY <2>2, <2>3 DEF StrictlyValid
  <2>5. k \in Calls(u)
    BY <1>3, <2>3, <2>4
  <2>6. u[k] = t[k]
    BY <1>1, <2>5 DEF Calls
  <2> QED BY <2>1, <2>2, <2>5, <2>6
<1>9. StrictlyValid(u)
  BY <1>5, <1>6, <1>7, <1>8 DEF StrictlyValid
<1>10. ASSUME NEW k \in Calls(u)
       PROVE  u[k] = t[k] /\ outcomeOf(u, t[k].call) = outcomeOf(t, t[k].call)
  <2>1. k \in DOMAIN u /\ k \in Calls(t) /\ u[k] = t[k]
    BY <1>1, <1>3 DEF Calls
  <2>2. PICK l \in DOMAIN u : Completions(u, t[k].call) = {l} /\ Completions(t, t[k].call) = {l}
    BY <1>4, <1>7, <2>1
  <2>3. u[l] = t[l]
    BY <1>1
  <2>4. (CHOOSE x \in {l} : \A y \in {l} : y = x \/ Before(y, x)) = l
    OBVIOUS
  <2>5. outcomeOf(u, t[k].call) = outcomeOf(t, t[k].call)
    BY <2>2, <2>3, <2>4 DEF outcomeOf
  <2> QED BY <2>1, <2>5
<1>11. {l \in Calls(u) : u[l].skill \in Skills} = {l \in Calls(t) : t[l].skill \in Skills}
  BY <1>3, <1>10
<1>12. \A k \in {l \in Calls(t) : t[l].skill \in Skills} : k \in Calls(u)
  BY <1>3
<1>13. invocations(u) = invocations(t)
  BY <1>10, <1>11, <1>12 DEF invocations
<1> QED BY <1>9, <1>13 DEF u

LEMMA InvGivesSanitizedFaithful == WorkflowInv => SanitizedIsFaithful
<1> DEFINE s == sanitizing.session
<1> SUFFICES ASSUME WorkflowInv, sanitizing.step = "written"
             PROVE  /\ StrictlyValid(sanitizing.copy)
                    /\ \E n \in DOMAIN transcript[s] :
                         LET source == Lines(SubSeq(transcript[s], 1, n), 1)
                         IN StrictlyValid(source) /\ invocations(sanitizing.copy) = invocations(source)
  BY DEF SanitizedIsFaithful
<1>1. s \in Sessions
  BY DEF WorkflowInv, SanitizeInv
<1>2. PICK n \in DOMAIN transcript[s] :
        StrictlyValid(Prefix(transcript[s], n)) /\ sanitizing.copy = Sanitized(Prefix(transcript[s], n))
  BY DEF WorkflowInv, SanitizeInv
<1> DEFINE t == transcript[s]
<1>3. IsLog(t)
  BY <1>1 DEF WorkflowInv, TranscriptInv, LogInv
<1>4. DOMAIN t = 1..Len(t) /\ Len(t) \in Nat
  BY <1>3, LogIndices
<1>5. /\ DOMAIN SubSeq(t, 1, n) = 1..n
      /\ \A i \in 1..n : SubSeq(t, 1, n)[i] = t[i]
  <2> HIDE DEF t
  <2>1. t \in Seq({t[i] : i \in DOMAIN t})
    BY <1>3 DEF IsLog
  <2>2. /\ SubSeq(t, 1, n) \in Seq({t[i] : i \in DOMAIN t})
        /\ Len(SubSeq(t, 1, n)) = n
        /\ \A i \in 1..n : SubSeq(t, 1, n)[i] = t[1 + i - 1]
    <3> DEFINE S == {t[i] : i \in DOMAIN t}
    <3>1. n \in 1..Len(t) /\ 1 \in 1..(Len(t) + 1) /\ n \in (1 - 1)..Len(t) /\ n \in Nat
      BY <1>2, <1>4 DEF t
    <3>2. t \in Seq(S)
      BY <2>1
    <3> HIDE DEF S
    <3>3. /\ SubSeq(t, 1, n) \in Seq(S)
          /\ Len(SubSeq(t, 1, n)) = IF 1 <= n THEN n - 1 + 1 ELSE 0
          /\ \A i \in 1..(n - 1 + 1) : SubSeq(t, 1, n)[i] = t[1 + i - 1]
      BY <3>1, <3>2, SubSeqProperties
    <3> QED BY <3>1, <3>3 DEF S
  <2> QED BY <1>2, <1>4, <2>2, LenProperties DEF t
<1>6. Lines(SubSeq(t, 1, n), 1) = Prefix(t, n)
  <2> HIDE DEF t
  <2> QED BY <1>5 DEF Lines, Prefix
<1>7. DOMAIN Prefix(t, n) \subseteq Keys
  BY <1>2, <1>4 DEF Prefix, Keys
<1> HIDE DEF t, s
<1>8. StrictlyValid(Prefix(t, n)) /\ sanitizing.copy = Sanitized(Prefix(t, n))
  BY <1>2 DEF t
<1>9. StrictlyValid(sanitizing.copy) /\ invocations(sanitizing.copy) = invocations(Prefix(t, n))
  BY <1>7, <1>8, SanitizedIsWhole
<1> QED BY <1>2, <1>6, <1>8, <1>9 DEF t

-----------------------------------------------------------------------------
LEMMA InvGivesWaiversCover == WorkflowInv => WaiversCoverWhatWasShown
<1> SUFFICES ASSUME WorkflowInv PROVE WaiversCoverWhatWasShown
  OBVIOUS
<1>1. \A j \in DOMAIN waivers : WaiverInv(waivers[j], shown[j])
  BY DEF WorkflowInv, WaiversInv
<1>2. DOMAIN waivers = 1..Len(waivers) /\ Len(waivers) \in Nat
  BY LogIndices DEF WorkflowInv, WaiversInv
<1>3. ASSUME NEW scope \in WaivedScopes, Active(scope)
      PROVE  LET i == authoritativeIndex(scope) IN
             /\ resolveEvent(scope) = shown[i].declaration /\ shown[i].declaration \in Unbound
             /\ verification.source = shown[i].source
  <2> DEFINE i == authoritativeIndex(scope)
  <2>1. i \in Linked(scope)
    <3>1. Linked(scope) \subseteq Nat /\ Linked(scope) # {} /\ \A j \in Linked(scope) : j <= Len(waivers)
      BY <1>2, <1>3 DEF Linked, Active
    <3>2. \E j \in Linked(scope) : \A l \in Linked(scope) : l <= j
      BY <1>2, <3>1, NatMax
    <3> QED BY <3>2 DEF authoritativeIndex
  <2> HIDE DEF i
  <2>2. i \in DOMAIN waivers /\ waivers[i].scope = scope
    BY <2>1 DEF Linked
  <2>3. waivers[i].snapshot = snapshotPayload(scope)
    BY <1>3, <2>2 DEF Active, nonStale, i
  <2>4. waivers[i].snapshot[3] = verification /\ waivers[i].snapshot[4] = currentCodeFor(scope)
    BY <2>3 DEF snapshotPayload
  <2>5. WaiverInv(waivers[i], shown[i])
    BY <1>1, <2>2
  <2>6. /\ verification.mode # "none" /\ verification.source = shown[i].source
        /\ currentCodeFor(scope) # {}
        /\ verification.eventsSha = events => resolveEvent(scope) = shown[i].declaration
    BY <2>2, <2>4, <2>5 DEF WaiverInv
  <2>7. resolveEvent(scope) = shown[i].declaration
    BY <2>6 DEF WorkflowInv, SourceInv, Verified
  <2>8. PICK r \in Reported : r[1] = scope
    BY <2>6 DEF currentCodeFor
  <2>9. PICK n \in Unbound : scope = declarationScope(n)
    BY <2>8 DEF Reported
  <2>10. resolveEvent(scope) = n
    BY <2>9, ScopeResolves DEF WorkflowInv, Unbound
  <2> QED BY <2>6, <2>7, <2>9, <2>10 DEF i
<1>4. ASSUME NEW j \in DOMAIN waivers
      PROVE  LET scope == waivers[j].scope IN
             waiverLinkage(j) \/ (scope.index = 0 /\ Cardinality(Colliding(scope.skill, scope.at)) > 1)
  BY <1>1 DEF WaiverInv, Attached, Loose, waiverLinkage
<1> QED BY <1>3, <1>4 DEF WaiversCoverWhatWasShown

-----------------------------------------------------------------------------
(* Transcripts name their calls and complete each once, the verification is  *)
(* of lines that are still in them and of the declarations as they are, and  *)
(* every waiver still shows what it was recorded for.                        *)
THEOREM WorkflowInvariant == WorkflowSpec => []WorkflowInv
<1>1. WorkflowInit => WorkflowInv
  BY WorkflowInitInv
<1>2. WorkflowInv /\ [WorkflowNext]_workflowVars => WorkflowInv'
  BY NextKeepsInv
<1> QED BY <1>1, <1>2, PTL DEF WorkflowSpec

(* Each declaration that validateLoadedWorkflow accepts without a waiver has *)
(* a Skill call of its own in a transcript as it now is, completed before it *)
(* was declared, and calls of one session come in the declarations' order.   *)
THEOREM PassingDeclarationsHappened == WorkflowSpec => []AcceptedDeclarationsHappened
BY WorkflowInvariant, InvGivesDeclarationsHappened, PTL

(* Taking the first eligible call for each declaration in turn reports       *)
(* nothing if any assignment in the declarations' order would do.            *)
THEOREM BindingMissesNothing == WorkflowSpec => []BindingIsComplete
BY WorkflowInvariant, InvGivesBindingComplete, PTL

(* A sanitized copy verifies strictly and shows the Skill calls of the       *)
(* transcript that was verified, however the session went on between the two *)
(* reads of sanitizeWorkflowLogFile.                                         *)
THEOREM SanitizedCopyIsFaithful == WorkflowSpec => []SanitizedIsFaithful
BY WorkflowInvariant, InvGivesSanitizedFaithful, PTL

(* A waiver in force is for the declaration and the transcript its approver  *)
(* was shown, that declaration is unbound, and only another declaration of   *)
(* its millisecond makes a waiver loose.                                     *)
THEOREM WaiverCoversWhatWasShown == WorkflowSpec => []WaiversCoverWhatWasShown
BY WorkflowInvariant, InvGivesWaiversCover, PTL
=============================================================================
