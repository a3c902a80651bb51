------------------------ MODULE ChangeLifecycleProofs ------------------------
(* What TLAPS proves of one change, for any requirements, units, imports,    *)
(* versions and bounds: what is recorded agrees with the order log and stands*)
(* in the order of the phases (RecordInv), cycles and phases saw the code in *)
(* the order they are recorded in (CyclesInv), and a waiver keeps the reason *)
(* it was given for (WaiversInv).                                            *)
EXTENDS ChangeLifecycle, SequenceTheorems, WellFoundedInduction, TLAPS

(* Records are of no fixed type: a log is a sequence over its own elements.  *)
IsLog(s) == s \in Seq({s[i] : i \in DOMAIN s})

IsFunction(f) == f = [x \in DOMAIN f |-> f[x]]

(* A log with one record more.                                               *)
LEMMA AppendToLog ==
  ASSUME NEW s, IsLog(s), NEW rec
  PROVE  /\ IsLog(Append(s, rec))
         /\ DOMAIN s = 1..Len(s) /\ Len(s) \in Nat
         /\ DOMAIN Append(s, rec) = 1..(Len(s) + 1) /\ Len(Append(s, rec)) = Len(s) + 1
         /\ \A i \in DOMAIN s : Append(s, rec)[i] = s[i]
         /\ Append(s, rec)[Len(s) + 1] = rec
<1> DEFINE S == {s[i] : i \in DOMAIN s} \union {rec}
           t == Append(s, rec)
<1>1. s \in Seq(S) /\ rec \in S
  BY SeqMonotonic DEF IsLog
<1>2. /\ t \in Seq(S) /\ Len(t) = Len(s) + 1 /\ Len(s) \in Nat
      /\ DOMAIN s = 1..Len(s) /\ DOMAIN t = 1..(Len(s) + 1)
      /\ \A i \in 1..Len(s) : t[i] = s[i]
      /\ t[Len(s) + 1] = rec
  BY <1>1, AppendProperties, LenProperties
<1>3. t \in [1..Len(t) -> {t[j] : j \in DOMAIN t}]
  <2>1. t = [i \in DOMAIN t |-> t[i]]
    BY <1>1, <1>2, LenProperties
  <2> QED BY <1>2, <2>1
<1>4. IsLog(t)
  <2> DEFINE T == {t[j] : j \in DOMAIN t}
  <2> HIDE DEF T
  <2>1. t \in Seq(T)
    BY <1>2, <1>3, SeqDef DEF T
  <2> QED BY <2>1 DEF IsLog, T
<1> QED BY <1>2, <1>4

LEMMA EmptyLog == IsLog(<<>>)
BY DEF IsLog

LEMMA NatOrder ==
  \E R : IsWellFoundedOn(R, Nat) /\ \A x, y \in Nat : y < x => <<y, x>> \in R
<1>1. IsWellFoundedOn(OpToRel(<, Nat), Nat)
  BY NatLessThanWellFounded
<1>2. \A x, y \in Nat : y < x => <<y, x>> \in OpToRel(<, Nat)
  BY DEF OpToRel
<1> QED BY <1>1, <1>2, Zenon

LEMMA NatMin ==
  ASSUME NEW T, T \subseteq Nat, T # {}
  PROVE  \E x \in T : \A y \in T : x <= y
<1>1. PICK R : IsWellFoundedOn(R, Nat) /\ \A x, y \in Nat : y < x => <<y, x>> \in R
  BY NatOrder
<1>2. \E x \in T : \A y \in T : ~ (<<y, x>> \in R)
  BY <1>1, WFMin
<1>3. \E x \in T : \A y \in T : ~ (y < x)
  BY <1>1, <1>2, Zenon
<1> QED BY <1>3

LEMMA NatMax ==
  ASSUME NEW S, S \subseteq Nat, S # {}, NEW n \in Nat, \A x \in S : x <= n
  PROVE  \E m \in S : \A x \in S : x <= m
<1> DEFINE T == {n - x : x \in S}
<1>1. \A x \in S : x \in Nat /\ n - x \in Nat
  OBVIOUS
<1>2. T \subseteq Nat /\ T # {}
  BY <1>1
<1>3. PICK d \in T : \A y \in T : d <= y
  <2> HIDE DEF T
  <2> QED BY <1>2, NatMin
<1>4. PICK m \in S : d = n - m
  BY <1>3
<1>5. \A x \in S : n - m <= n - x
  BY <1>3, <1>4
<1> QED BY <1>1, <1>5

LEMMA LogIndices ==
  ASSUME NEW s, IsLog(s)
  PROVE  Len(s) \in Nat /\ DOMAIN s = 1..Len(s) /\ DOMAIN s \subseteq Nat
BY LenProperties DEF IsLog

-----------------------------------------------------------------------------
Upto(f, g) == \A u \in Units : f[u] <= g[u]

(* The files: what is recorded of a change, of its batches and of cycles.    *)
BatchType(b) ==
  /\ b.ids \in SUBSET Requirements /\ b.ids # {}
  /\ IsFunction(b.ev) /\ DOMAIN b.ev \subseteq Batched

FileType ==
  /\ IsLog(order) /\ IsLog(change.batches) /\ IsLog(change.history)
  /\ change = [phases |-> change.phases, batches |-> change.batches, history |-> change.history]
  /\ IsFunction(change.phases) /\ DOMAIN change.phases \subseteq Singular \union Batched
  /\ \A i \in DOMAIN change.batches :
       /\ BatchType(change.batches[i]) /\ change.batches[i].ids # Requirements
       /\ change.batches[i] = [ids |-> change.batches[i].ids, ev |-> change.batches[i].ev]
       /\ \A j \in DOMAIN change.batches : change.batches[j].ids = change.batches[i].ids => i = j

TreeType ==
  /\ tree = [doc |-> tree.doc, req |-> tree.req, design |-> tree.design,
             tests |-> tree.tests, code |-> tree.code]
  /\ tree.code \in [Units -> Nat]

(* The phases of the whole change, each after the one before it.             *)
SingularInv ==
  /\ DOMAIN change.phases # {} \/ change.batches # <<>> => Recorded
  /\ Has(change.phases, "requirements") =>
       /\ OrderOf("requirements") > OrderOf("impact")
       /\ change.phases["requirements"].allowed
            \/ change.phases["requirements"].fp.req # change.phases["impact"].fp.req
  /\ Has(change.phases, "design") =>
       /\ Has(change.phases, "requirements") /\ OrderOf("design") > OrderOf("requirements")
       /\ change.phases["design"].fp.design # change.phases["requirements"].fp.design

(* Those of a batch, each showing the work of its phase.                     *)
BatchInv(b) ==
  /\ Has(b.ev, "red") /\ Has(change.phases, "design")
  /\ b.ev["red"].order > OrderOf("design")
  /\ b.ev["red"].fp.tests # change.phases["design"].fp.tests
  /\ b.ev["red"].fp.code \in [Units -> Nat] /\ Upto(b.ev["red"].fp.code, tree.code)
  /\ Has(b.ev, "implementation") =>
       /\ b.ev["implementation"].order > b.ev["red"].order
       /\ b.ev["implementation"].fp.code \in [Units -> Nat]
       /\ Upto(b.ev["red"].fp.code, b.ev["implementation"].fp.code)
       /\ Upto(b.ev["implementation"].fp.code, tree.code)
       /\ \A r \in b.ids : requirementImplementation(b.ev["red"].fp, r)
                             # requirementImplementation(b.ev["implementation"].fp, r)
  /\ Has(b.ev, "green") =>
       Has(b.ev, "implementation") /\ b.ev["green"].order > b.ev["implementation"].order

BatchesInv == \A b \in Batches : BatchInv(b)

QualityInv ==
  /\ ~qualityHistoryIssue
  /\ Has(change.phases, "quality") => Requirements \subseteq CoveredBy("green")

(* What a command has appended to the order log and not saved yet; nothing   *)
(* that it read has changed since.                                           *)
OrdersBelow(n) ==
  /\ \A phase \in DOMAIN change.phases : change.phases[phase].order < n
  /\ \A b \in Batches : \A phase \in DOMAIN b.ev : b.ev[phase].order < n
  /\ \A i \in DOMAIN change.history : change.history[i].order < n

PendingPhase ==
  cmd.op = "phase" =>
    /\ cmd.phase \in Singular \union Batched
    /\ cmd.ids \in SUBSET Requirements /\ (cmd.phase \in Batched => cmd.ids # {})
    /\ cmd.phase \in Singular => cmd.ids = Requirements
    /\ cmd.item.allowed => cmd.phase = "requirements"
    /\ cmd.item.fp = currentFingerprints(cmd.phase)
    /\ cmd.item.order = Len(order) /\ OrdersBelow(Len(order))
    /\ InOrder(Entity(cmd.phase, cmd.ids, cmd.item.detail), cmd.phase, cmd.item.order)
    /\ cmd.item.detail = Len(change.history) + (IF cmd.phase = "quality" /\ Has(change.phases, "quality") THEN 1 ELSE 0)
    /\ IF cmd.ids = Requirements THEN MayRecordFullSet(cmd.phase, cmd.item.allowed)
                                 ELSE MayRecordBatch(cmd.phase, cmd.ids)

FilesInv == FileType /\ SingularInv /\ BatchesInv /\ OrderMatches /\ QualityInv

RecordInv ==
  /\ FilesInv /\ TreeType
  /\ cmd.op \in {"none", "phase", "waiver"} /\ PendingPhase

(* A cycle saw the code of no later time than a phase recorded after it, and *)
(* of no earlier time than one recorded before it.                           *)
CycleType(c) ==
  /\ c = [requirement |-> c.requirement, red |-> c.red, green |-> c.green,
          redTree |-> c.redTree, greenTree |-> c.greenTree]
  /\ c.requirement \in Requirements
  /\ c.red \in 1..Len(order) /\ c.green \in 0..Len(order)
  /\ {c.redTree.code, c.greenTree.code} \subseteq [Units -> Nat]

CycleInv(c) ==
  /\ CycleType(c) /\ Upto(c.redTree.code, tree.code)
  /\ c.green # 0 => /\ c.green > c.red
                    /\ c.redTree.tests[c.requirement] = c.greenTree.tests[c.requirement]
  /\ \A b \in Batches :
       /\ c.red <= b.ev["red"].order => Upto(c.redTree.code, b.ev["red"].fp.code)
       /\ Has(b.ev, "implementation") /\ c.green > b.ev["implementation"].order =>
            Upto(b.ev["implementation"].fp.code, c.greenTree.code)

CyclesInv == IsLog(cycles) /\ \A i \in DOMAIN cycles : CycleInv(cycles[i])

(* The reason of a waiver, read off the evidence it was given for.           *)
Proven(reqOrder, ev, runs) ==
  /\ reqOrder # 0 /\ Batched \subseteq DOMAIN ev
  /\ \E run \in runs : /\ run.red \in (reqOrder + 1)..ev["red"].order
                       /\ run.green \in (ev["implementation"].order + 1)..ev["green"].order

Warranted(scope, snap) ==
  /\ scope = <<scope[1], scope[2]>>
  /\ \/ scope[1] = "CHANGE_RECORD_MISSING" /\ scope[2] = {}
     \/ scope[1] = "CHANGE_PHASE_MISSING" /\ scope[2] \in Batched /\ snap[1] # {}
     \/ scope[1] = "CHANGE_PHASE_MISSING" /\ scope[2] \in Singular /\ snap[1] = 0
     \/ /\ scope[1] \in Proofs /\ scope[2] \in Requirements
        /\ ~Proven(snap[1], snap[2], snap[3])
        /\ scope[1] = "CHANGE_RED_UNPROVEN" => Has(snap[2], "red")
        /\ scope[1] = "CHANGE_GREEN_UNPROVEN" => Has(snap[2], "green")
     \/ /\ scope[1] = "CHANGE_ORDER_MIGRATION_REQUIRED" /\ scope[2] \in Requirements
        /\ scope[2] \in CoveredBy("red") /\ \E run \in snap[1] : run.green = 0
     \/ /\ scope[1] = "CHANGE_TEST_CHANGED_AFTER_RED"
        /\ snap[1] # <<>> /\ snap[2] # <<>> /\ snap[1] # snap[2]

WaiverInv(w) ==
  /\ InOrder(<<"waiver", w.scope>>, "waiver", w.order)
  /\ Warranted(w.scope, w.snapshot)

WaiversInv ==
  /\ IsLog(waivers) /\ \A i \in DOMAIN waivers : WaiverInv(waivers[i])
  /\ cmd.op = "waiver" => WaiverInv(cmd.waiver)

-----------------------------------------------------------------------------
(* The batches, by their requirements.                                       *)
LEMMA EmptyRecord == IsFunction(<<>>) /\ DOMAIN <<>> = {}
BY DEF IsFunction

LEMMA PrependToLog ==
  ASSUME NEW s, IsLog(s), NEW x, NEW t, t = <<x>> \o s
  PROVE  DOMAIN t \subseteq Nat /\ Range(t) = Range(s) \union {x}
<1> DEFINE S == {s[i] : i \in DOMAIN s}
           T == S \union {x}
           one == <<x>>
<1>1. s \in Seq(S) /\ Len(s) \in Nat /\ DOMAIN s = 1..Len(s)
  BY LenProperties DEF IsLog
<1>2. s \in Seq(T)
  BY <1>1, SeqMonotonic
<1>3. one \in Seq(T) /\ Len(one) = 1 /\ one[1] = x
  <2>1. x \in T
    OBVIOUS
  <2> HIDE DEF T
  <2> QED BY <2>1
<1> HIDE DEF one, T
<1>4. /\ t \in Seq(T) /\ Len(t) = Len(one) + Len(s)
      /\ \A i \in 1..(Len(one) + Len(s)) : t[i] = IF i <= Len(one) THEN one[i] ELSE s[i - Len(one)]
  <2>1. t = one \o s
    BY DEF one
  <2> QED BY <1>2, <1>3, <2>1, ConcatProperties
<1>5. DOMAIN t = 1..(1 + Len(s))
  BY <1>3, <1>4, LenProperties
<1>6. t[1] = x /\ \A i \in DOMAIN s : i + 1 \in DOMAIN t /\ t[i + 1] = s[i]
  <2>1. t[1] = one[1]
    BY <1>1, <1>3, <1>4
  <2>2. ASSUME NEW i \in DOMAIN s PROVE i + 1 \in DOMAIN t /\ t[i + 1] = s[i]
    <3>1. i + 1 \in 1..(Len(one) + Len(s)) /\ ~(i + 1 <= Len(one)) /\ (i + 1) - Len(one) = i
      BY <1>1, <1>3
    <3> QED BY <1>3, <1>4, <1>5, <3>1
  <2> QED BY <1>3, <2>1, <2>2
<1>7. \A i \in DOMAIN t : i # 1 => i - 1 \in DOMAIN s /\ t[i] = s[i - 1]
  BY <1>1, <1>3, <1>4, <1>5
<1>8. 1 \in DOMAIN t
  BY <1>1, <1>5
<1>9. DOMAIN t \subseteq Nat
  BY <1>5
<1>10. Range(t) = Range(s) \union {x}
  <2>1. ASSUME NEW y \in Range(t) PROVE y \in Range(s) \union {x}
    <3>1. PICK i \in DOMAIN t : y = t[i]
      BY <2>1 DEF Range
    <3> QED BY <3>1, <1>6, <1>7 DEF Range
  <2>2. ASSUME NEW y \in Range(s) PROVE y \in Range(t)
    <3>1. PICK i \in DOMAIN s : y = s[i]
      BY <2>2 DEF Range
    <3> QED BY <3>1, <1>6 DEF Range
  <2>3. x \in Range(t)
    BY <1>6, <1>8 DEF Range
  <2> QED BY <2>1, <2>2, <2>3
<1> QED BY <1>9, <1>10

LEMMA BatchesAre ==
  ASSUME IsLog(change.batches)
  PROVE  /\ DOMAIN effectiveBatches \subseteq Nat
         /\ Batches = {change.batches[i] : i \in DOMAIN change.batches}
                      \union (IF DOMAIN FullBatch.ev = {} THEN {} ELSE {FullBatch})
<1>1. DOMAIN change.batches \subseteq Nat
  BY LogIndices
<1>2. CASE DOMAIN FullBatch.ev = {}
  BY <1>1, <1>2 DEF effectiveBatches, Batches, Range
<1>3. CASE DOMAIN FullBatch.ev # {}
  <2>1. effectiveBatches = <<FullBatch>> \o change.batches
    BY <1>3 DEF effectiveBatches
  <2>2. DOMAIN effectiveBatches \subseteq Nat /\ Batches = Range(change.batches) \union {FullBatch}
    BY <2>1, PrependToLog DEF Batches
  <2> QED BY <1>3, <2>2 DEF Range
<1> QED BY <1>2, <1>3

LEMMA FoundFirst ==
  ASSUME IsLog(change.batches), NEW found, found \subseteq DOMAIN effectiveBatches
  PROVE  IF found = {} THEN FirstOf(found) = NoBatch
         ELSE \E i \in found : FirstOf(found) = effectiveBatches[i]
<1>1. CASE found = {}
  BY <1>1 DEF FirstOf
<1>2. CASE found # {}
  <2>1. \E x \in found : \A y \in found : x <= y
    BY <1>2, BatchesAre, NatMin
  <2>2. Min(found) \in found
    BY <2>1 DEF Min
  <2> QED BY <1>2, <2>2 DEF FirstOf
<1> QED BY <1>1, <1>2

LEMMA BatchOf ==
  ASSUME IsLog(change.batches), NEW r
  PROVE  IF \E b \in Batches : r \in b.ids THEN batchFor(r) \in Batches /\ r \in batchFor(r).ids
         ELSE batchFor(r) = NoBatch
<1> DEFINE found == {i \in DOMAIN effectiveBatches : r \in effectiveBatches[i].ids}
<1>1. batchFor(r) = FirstOf(found) /\ found \subseteq DOMAIN effectiveBatches
  BY DEF batchFor
<1>2. Batches = {effectiveBatches[i] : i \in DOMAIN effectiveBatches}
  BY DEF Batches, Range
<1>3. (\E b \in Batches : r \in b.ids) <=> found # {}
  BY <1>2
<1>4. IF found = {} THEN FirstOf(found) = NoBatch
      ELSE \E i \in found : FirstOf(found) = effectiveBatches[i]
  <2> HIDE DEF found
  <2> QED BY <1>1, FoundFirst
<1> QED BY <1>1, <1>2, <1>3, <1>4

LEMMA BatchOfKey ==
  ASSUME IsLog(change.batches), NEW ids
  PROVE  IF \E b \in Batches : b.ids = ids THEN batchForKey(ids) \in Batches /\ batchForKey(ids).ids = ids
         ELSE batchForKey(ids) = NoBatch
<1> DEFINE found == {i \in DOMAIN effectiveBatches : effectiveBatches[i].ids = ids}
<1>1. batchForKey(ids) = FirstOf(found) /\ found \subseteq DOMAIN effectiveBatches
  BY DEF batchForKey
<1>2. Batches = {effectiveBatches[i] : i \in DOMAIN effectiveBatches}
  BY DEF Batches, Range
<1>3. (\E b \in Batches : b.ids = ids) <=> found # {}
  BY <1>2
<1>4. IF found = {} THEN FirstOf(found) = NoBatch
      ELSE \E i \in found : FirstOf(found) = effectiveBatches[i]
  <2> HIDE DEF found
  <2> QED BY <1>1, FoundFirst
<1> QED BY <1>1, <1>2, <1>3, <1>4

LEMMA BatchesDiffer ==
  ASSUME FileType, NEW b \in Batches, NEW c \in Batches, b.ids = c.ids
  PROVE  b = c
<1>1. Batches = {change.batches[i] : i \in DOMAIN change.batches}
                \union (IF DOMAIN FullBatch.ev = {} THEN {} ELSE {FullBatch})
  BY BatchesAre DEF FileType
<1>2. FullBatch.ids = Requirements
  BY DEF FullBatch
<1> QED BY <1>1, <1>2 DEF FileType

LEMMA FullBatchIs ==
  /\ FullBatch.ids = Requirements /\ IsFunction(FullBatch.ev)
  /\ FullBatch = [ids |-> FullBatch.ids, ev |-> FullBatch.ev]
  /\ DOMAIN FullBatch.ev = DOMAIN change.phases \intersect Batched
  /\ \A phase \in DOMAIN FullBatch.ev : FullBatch.ev[phase] = change.phases[phase]
BY DEF FullBatch, IsFunction

LEMMA BatchesHaveType ==
  ASSUME FileType, NEW b \in Batches
  PROVE  /\ b.ids \subseteq Requirements /\ IsFunction(b.ev) /\ DOMAIN b.ev \subseteq Batched
         /\ b = [ids |-> b.ids, ev |-> b.ev]
<1>1. Batches = {change.batches[i] : i \in DOMAIN change.batches}
                \union (IF DOMAIN FullBatch.ev = {} THEN {} ELSE {FullBatch})
  BY BatchesAre DEF FileType
<1> QED BY <1>1, FullBatchIs DEF FileType, BatchType

-----------------------------------------------------------------------------
(* What a step that saves no phase leaves as it is.                          *)
LogKept == order' = order \/ \E rec : order' = Append(order, rec)

LEMMA LogGrows ==
  ASSUME IsLog(order), LogKept
  PROVE  /\ IsLog(order') /\ Len(order) \in Nat /\ Len(order') \in Nat /\ Len(order) <= Len(order')
         /\ \A entity, phase, n : InOrder(entity, phase, n) => InOrder(entity, phase, n)'
<1>1. CASE order' = order
  BY <1>1, LogIndices DEF InOrder
<1>2. ASSUME NEW rec, order' = Append(order, rec)
      PROVE  /\ IsLog(order') /\ Len(order) \in Nat /\ Len(order') \in Nat /\ Len(order) <= Len(order')
             /\ \A entity, phase, n : InOrder(entity, phase, n) => InOrder(entity, phase, n)'
  <2>1. /\ IsLog(Append(order, rec)) /\ Len(order) \in Nat
        /\ DOMAIN order = 1..Len(order)
        /\ DOMAIN Append(order, rec) = 1..(Len(order) + 1) /\ Len(Append(order, rec)) = Len(order) + 1
        /\ \A i \in DOMAIN order : Append(order, rec)[i] = order[i]
    BY AppendToLog
  <2> QED BY <1>2, <2>1 DEF InOrder
<1> QED BY <1>1, <1>2 DEF LogKept

LEMMA OrdersAreNumbers ==
  ASSUME IsLog(order), NEW entity, NEW phase, NEW n, InOrder(entity, phase, n)
  PROVE  n \in Nat /\ n \in 1..Len(order) /\ order[n] = Record("change", entity, phase, n)
BY LogIndices DEF InOrder

LEMMA SameBatches ==
  change' = change => /\ Batches' = Batches /\ Recorded' = Recorded /\ Checkpoints' = Checkpoints
                      /\ qualityHistoryIssue' = qualityHistoryIssue
BY DEF Batches, effectiveBatches, FullBatch, Recorded, Checkpoints, qualityHistoryIssue

LEMMA SameOrders ==
  ASSUME change' = change
  PROVE  \A phase : OrderOf(phase)' = OrderOf(phase) /\ CoveredBy(phase)' = CoveredBy(phase)
BY SameBatches DEF OrderOf, CoveredBy

LEMMA SameLookups ==
  ASSUME change' = change
  PROVE  \A x : batchForKey(x)' = batchForKey(x) /\ batchFor(x)' = batchFor(x)
<1>1. effectiveBatches' = effectiveBatches
  BY DEF effectiveBatches, FullBatch
<1> QED BY <1>1 DEF batchForKey, batchFor, FirstOf

LEMMA UptoTransitive ==
  ASSUME NEW f \in [Units -> Nat], NEW g \in [Units -> Nat], NEW h \in [Units -> Nat], Upto(f, g), Upto(g, h)
  PROVE  Upto(f, h)
BY DEF Upto

LEMMA SameFiles ==
  ASSUME FilesInv, TreeType, TreeType', change' = change, LogKept, Upto(tree.code, tree'.code)
  PROVE  FilesInv'
<1>1. /\ IsLog(order') /\ \A entity, phase, n : InOrder(entity, phase, n) => InOrder(entity, phase, n)'
  BY LogGrows DEF FilesInv, FileType
<1>2. FileType'
  BY <1>1 DEF FilesInv, FileType, BatchType
<1>3. SingularInv'
  BY SameOrders, SameBatches DEF FilesInv, SingularInv, OrderOf
<1>4. BatchesInv'
  <2>1. ASSUME NEW b \in Batches, BatchInv(b) PROVE BatchInv(b)'
    <3>1. b.ev["red"].fp.code \in [Units -> Nat] /\ Upto(b.ev["red"].fp.code, tree'.code)
      BY <2>1, UptoTransitive DEF BatchInv, TreeType
    <3>2. Has(b.ev, "implementation") => Upto(b.ev["implementation"].fp.code, tree'.code)
      BY <2>1, UptoTransitive DEF BatchInv, TreeType
    <3> QED BY <2>1, <3>1, <3>2, SameOrders DEF BatchInv
  <2> QED BY <2>1, SameBatches DEF FilesInv, BatchesInv
<1>5. OrderMatches'
  <2>1. OrderMatches
    BY DEF FilesInv
  <2>2. CheckpointsInOrder'
    BY <2>1, <1>1, SameBatches DEF OrderMatches, CheckpointsInOrder
  <2>3. \A phase \in DOMAIN change'.phases \ {"quality"} : InOrder(<<"phase", Requirements>>, phase, OrderOf(phase))'
    BY <2>1, <1>1, SameOrders DEF OrderMatches
  <2>4. \A b \in Batches' : \A phase \in DOMAIN b.ev : InOrder(<<"phase", b.ids>>, phase, b.ev[phase].order)'
    BY <2>1, <1>1, SameBatches DEF OrderMatches
  <2> QED BY <2>2, <2>3, <2>4 DEF OrderMatches
<1>6. QualityInv'
  BY SameBatches, SameOrders DEF FilesInv, QualityInv
<1> QED BY <1>2, <1>3, <1>4, <1>5, <1>6 DEF FilesInv

(* A cycle that did not change.                                              *)
LEMMA SameCycle ==
  ASSUME NEW c, CycleInv(c), FilesInv, TreeType, TreeType', change' = change, LogKept,
         Upto(tree.code, tree'.code)
  PROVE  CycleInv(c)'
<1>1. /\ Len(order) \in Nat /\ Len(order') \in Nat /\ Len(order) <= Len(order')
  BY LogGrows DEF FilesInv, FileType
<1>2. CycleType(c)'
  BY <1>1 DEF CycleInv, CycleType
<1>3. Upto(c.redTree.code, tree'.code)
  BY UptoTransitive DEF CycleInv, CycleType, TreeType
<1> QED BY <1>2, <1>3, SameBatches DEF CycleInv

LEMMA SameWaiver ==
  ASSUME NEW w, WaiverInv(w), IsLog(order), change' = change, LogKept
  PROVE  WaiverInv(w)'
<1>1. InOrder(<<"waiver", w.scope>>, "waiver", w.order)'
  BY LogGrows DEF WaiverInv
<1>2. Warranted(w.scope, w.snapshot)'
  BY SameOrders DEF WaiverInv, Warranted
<1> QED BY <1>1, <1>2 DEF WaiverInv

-----------------------------------------------------------------------------
(* What recording appends, and that nothing changes until it is saved.       *)
LEMMA OrdersAreRecorded ==
  ASSUME FilesInv
  PROVE  /\ Len(order) \in Nat
         /\ \A phase \in DOMAIN change.phases : change.phases[phase].order \in 1..Len(order)
         /\ \A b \in Batches : \A phase \in DOMAIN b.ev : b.ev[phase].order \in 1..Len(order)
         /\ \A c \in Checkpoints : c.order \in 1..Len(order)
         /\ \A i \in DOMAIN change.history : change.history[i].order \in 1..Len(order)
<1>1. IsLog(order) /\ OrderMatches
  BY DEF FilesInv, FileType
<1>2. \A c \in Checkpoints : c.order \in 1..Len(order)
  BY <1>1, OrdersAreNumbers DEF OrderMatches, CheckpointsInOrder
<1>3. \A phase \in DOMAIN change.phases : change.phases[phase].order \in 1..Len(order)
  <2> TAKE phase \in DOMAIN change.phases
  <2>1. CASE phase = "quality"
    BY <2>1, <1>2 DEF Checkpoints
  <2>2. CASE phase # "quality"
    <3>1. InOrder(<<"phase", Requirements>>, phase, OrderOf(phase)) /\ OrderOf(phase) = change.phases[phase].order
      BY <2>2, <1>1 DEF OrderMatches, OrderOf, Has
    <3> QED BY <3>1, <1>1, OrdersAreNumbers
  <2> QED BY <2>1, <2>2
<1>4. \A b \in Batches : \A phase \in DOMAIN b.ev : b.ev[phase].order \in 1..Len(order)
  BY <1>1, OrdersAreNumbers DEF OrderMatches
<1>5. \A i \in DOMAIN change.history : change.history[i].order \in 1..Len(order)
  BY <1>2 DEF Checkpoints
<1> QED BY <1>1, <1>2, <1>3, <1>4, <1>5, LogIndices

LEMMA RecordedBelow == FilesInv => OrdersBelow(Len(order) + 1)
<1> SUFFICES ASSUME FilesInv PROVE OrdersBelow(Len(order) + 1)
  OBVIOUS
<1>1. Len(order) \in Nat /\ \A n \in 1..Len(order) : n < Len(order) + 1
  BY OrdersAreRecorded
<1> QED BY <1>1, OrdersAreRecorded DEF OrdersBelow

LEMMA SameGuards ==
  ASSUME change' = change, tree' = tree, CheckpointsInOrder', NEW phase, NEW ids, NEW allowed
  PROVE  /\ MayRecordFullSet(phase, allowed) => MayRecordFullSet(phase, allowed)'
         /\ MayRecordBatch(phase, ids) => MayRecordBatch(phase, ids)'
<1>1. MayRecordQuality => MayRecordQuality'
  BY SameBatches, SameOrders DEF MayRecordQuality, GreenAfterQuality
<1>2. \A base : unchangedRejection(phase, ids, base)' = unchangedRejection(phase, ids, base)
  BY DEF unchangedRejection
<1>3. \A base : unchangedRejection(phase, Requirements, base)' = unchangedRejection(phase, Requirements, base)
  BY DEF unchangedRejection
<1>4. MayRecordFullSet(phase, allowed) => MayRecordFullSet(phase, allowed)'
  BY <1>1, <1>3, SameBatches DEF MayRecordFullSet
<1>5. MayRecordBatch(phase, ids) => MayRecordBatch(phase, ids)'
  BY <1>2, SameLookups DEF MayRecordBatch
<1> QED BY <1>4, <1>5

LEMMA AppendedRecord ==
  ASSUME IsLog(order), NEW entity, NEW phase, appendEvidenceOrder("change", entity, phase)
  PROVE  /\ LogKept /\ Len(order) \in Nat /\ Len(order') = Len(order) + 1
         /\ Len(order') \in DOMAIN order'
         /\ order'[Len(order')] = Record("change", entity, phase, Len(order'))
<1> DEFINE rec == Record("change", entity, phase, Len(order) + 1)
<1>1. order' = Append(order, rec)
  BY DEF appendEvidenceOrder
<1> HIDE DEF rec
<1>2. /\ Len(order) \in Nat /\ DOMAIN order' = 1..(Len(order) + 1) /\ Len(order') = Len(order) + 1
      /\ order'[Len(order) + 1] = rec
  BY <1>1, AppendToLog
<1>3. Len(order) + 1 \in DOMAIN order'
  BY <1>2
<1> QED BY <1>1, <1>2, <1>3 DEF LogKept, rec

LEMMA UptoItself == TreeType => Upto(tree.code, tree.code)
BY DEF TreeType, Upto

LEMMA SameTree == tree' = tree /\ TreeType => TreeType' /\ Upto(tree.code, tree'.code)
BY UptoItself DEF TreeType

(* A command of Next: its phase and its requirements fit.                    *)
MayBegin(phase, ids, allowed) ==
  \/ phase \in Singular /\ ids = Requirements /\ allowed \in BOOLEAN
  \/ phase \in Batched /\ ids \in (SUBSET Requirements) \ {{}} /\ allowed = FALSE

LEMMA RecordingIsPending ==
  ASSUME RecordInv, NEW phase, NEW ids, NEW allowed, MayBegin(phase, ids, allowed),
         recordChangePhase(phase, ids, allowed)
  PROVE  RecordInv'
<1> DEFINE again == phase = "quality" /\ Has(change.phases, "quality")
           n == Len(change.history) + (IF again THEN 1 ELSE 0)
<1>1. /\ FilesInv /\ TreeType /\ IsLog(order)
      /\ change' = change /\ tree' = tree
      /\ appendEvidenceOrder("change", Entity(phase, ids, n), phase)
      /\ cmd' = [op |-> "phase", phase |-> phase, ids |-> ids,
                 item |-> [fp |-> currentFingerprints(phase), allowed |-> allowed, detail |-> n,
                           order |-> Len(order) + 1]]
      /\ allowed => phase = "requirements"
      /\ IF ids = Requirements THEN MayRecordFullSet(phase, allowed) ELSE MayRecordBatch(phase, ids)
  BY DEF RecordInv, FilesInv, FileType, recordChangePhase
<1> HIDE DEF n
<1>2. /\ LogKept /\ Len(order) \in Nat /\ Len(order') = Len(order) + 1
      /\ Len(order') \in DOMAIN order'
      /\ order'[Len(order')] = Record("change", Entity(phase, ids, n), phase, Len(order'))
  BY <1>1, AppendedRecord
<1>3. TreeType' /\ FilesInv'
  BY <1>1, <1>2, SameTree, SameFiles
<1>4. /\ cmd'.op = "phase" /\ cmd'.phase = phase /\ cmd'.ids = ids
      /\ cmd'.item.fp = currentFingerprints(phase) /\ cmd'.item.allowed = allowed
      /\ cmd'.item.detail = n /\ cmd'.item.order = Len(order) + 1
  BY <1>1
<1>5. currentFingerprints(phase)' = currentFingerprints(phase)
  BY <1>1 DEF currentFingerprints
<1>6. OrdersBelow(Len(order))'
  <2>1. OrdersBelow(Len(order) + 1)
    BY <1>1, RecordedBelow
  <2> QED BY <1>1, <1>2, <2>1, SameBatches DEF OrdersBelow
<1>7. IF ids = Requirements THEN MayRecordFullSet(phase, allowed)' ELSE MayRecordBatch(phase, ids)'
  BY <1>1, <1>3, SameGuards DEF FilesInv, OrderMatches
<1>8. /\ phase \in Singular \union Batched
      /\ ids \in SUBSET Requirements /\ (phase \in Batched => ids # {})
      /\ phase \in Singular => ids = Requirements
  <2>1. Singular \intersect Batched = {}
    BY DEF Singular, Batched
  <2>2. CASE phase \in Singular /\ ids = Requirements /\ allowed \in BOOLEAN
    BY <2>1, <2>2
  <2>3. CASE phase \in Batched /\ ids \in (SUBSET Requirements) \ {{}} /\ allowed = FALSE
    BY <2>1, <2>3
  <2> QED BY <2>2, <2>3 DEF MayBegin
<1>9. PendingPhase'
  <2>1. cmd'.item.detail = Len(change'.history) + (IF cmd'.phase = "quality" /\ Has(change'.phases, "quality") THEN 1 ELSE 0)
    BY <1>1, <1>4 DEF n
  <2>2. InOrder(Entity(cmd.phase, cmd.ids, cmd.item.detail), cmd.phase, cmd.item.order)'
    BY <1>2, <1>4 DEF InOrder
  <2>4. (IF cmd.ids = Requirements THEN MayRecordFullSet(cmd.phase, cmd.item.allowed)
                                   ELSE MayRecordBatch(cmd.phase, cmd.ids))'
    BY <1>4, <1>7
  <2>5. cmd'.item.fp = currentFingerprints(cmd.phase)'
    BY <1>4, <1>5
  <2> QED BY <1>1, <1>2, <1>4, <1>8, <2>1, <1>6, <2>2, <2>4, <2>5 DEF PendingPhase
<1> QED BY <1>3, <1>4, <1>9 DEF RecordInv

-----------------------------------------------------------------------------
(* Saving a phase of a batch: the batch with that phase, and the others.     *)
OldBatch == batchForKey(cmd.ids)
NewBatch == [ids |-> cmd.ids, ev |-> WithField(OldBatch.ev, cmd.phase, cmd.item)]

LEMMA BatchesAreNext ==
  IsLog(change.batches)' =>
    Batches' = {change'.batches[i] : i \in DOMAIN change'.batches}
               \union (IF DOMAIN FullBatch'.ev = {} THEN {} ELSE {FullBatch'})
<1>1. IsLog(change.batches) =>
        Batches = {change.batches[i] : i \in DOMAIN change.batches}
                  \union (IF DOMAIN FullBatch.ev = {} THEN {} ELSE {FullBatch})
  BY BatchesAre
<1>2. (IsLog(change.batches) =>
        Batches = {change.batches[i] : i \in DOMAIN change.batches}
                  \union (IF DOMAIN FullBatch.ev = {} THEN {} ELSE {FullBatch}))'
  BY <1>1, PTL
<1> QED BY <1>2

LEMMA MappedLog ==
  ASSUME NEW s, IsLog(s), NEW t, IsFunction(t), DOMAIN t = DOMAIN s
  PROVE  IsLog(t)
<1> DEFINE T == {t[j] : j \in DOMAIN t}
<1>1. Len(s) \in Nat /\ DOMAIN t = 1..Len(s)
  BY LogIndices
<1>2. t \in [1..Len(s) -> T]
  BY <1>1 DEF IsFunction
<1> HIDE DEF T
<1>3. t \in Seq(T)
  BY <1>1, <1>2, SeqDef
<1> QED BY <1>3 DEF IsLog, T

LEMMA FullBatchIsFound ==
  ASSUME FileType
  PROVE  /\ \A b \in Batches : b.ids = Requirements => b = FullBatch
         /\ DOMAIN FullBatch.ev # {} => FullBatch \in Batches
         /\ \A b \in Batches : b.ids # Requirements => \E i \in DOMAIN change.batches : b = change.batches[i]
         /\ \A i \in DOMAIN change.batches : change.batches[i] \in Batches
<1>1. Batches = {change.batches[i] : i \in DOMAIN change.batches}
                \union (IF DOMAIN FullBatch.ev = {} THEN {} ELSE {FullBatch})
  BY BatchesAre DEF FileType
<1> QED BY <1>1, FullBatchIs DEF FileType

LEMMA PendingBatch ==
  ASSUME RecordInv, cmd.op = "phase", cmd.phase \in Batched
  PROVE  /\ Has(change.phases, "design") /\ cmd.phase \notin DOMAIN OldBatch.ev
         /\ \/ /\ OldBatch = NoBatch /\ \A b \in Batches : b.ids # cmd.ids
               /\ cmd.phase = "red" /\ tree.tests # change.phases["design"].fp.tests
            \/ /\ OldBatch \in Batches /\ OldBatch.ids = cmd.ids /\ BatchInv(OldBatch)
               /\ \/ /\ cmd.phase = "implementation"
                     /\ \A r \in cmd.ids : requirementImplementation(tree, r)
                                             # requirementImplementation(OldBatch.ev["red"].fp, r)
                  \/ cmd.phase = "green" /\ Has(OldBatch.ev, "implementation")
<1>0. OldBatch = batchForKey(cmd.ids)
  BY DEF OldBatch
<1>1. /\ FileType /\ BatchesInv /\ SingularInv
      /\ IF cmd.ids = Requirements THEN MayRecordFullSet(cmd.phase, cmd.item.allowed)
                                   ELSE MayRecordBatch(cmd.phase, cmd.ids)
      /\ cmd.item.allowed => cmd.phase = "requirements"
  BY DEF RecordInv, FilesInv, PendingPhase
<1>2. cmd.phase \in {"red", "implementation", "green"}
  BY DEF Batched
<1>3. DOMAIN NoBatch.ev = {} /\ NoBatch \notin Batches
  <2>1. DOMAIN NoBatch.ev = {}
    BY EmptyRecord DEF NoBatch
  <2> QED BY <1>1, <2>1 DEF BatchesInv, BatchInv, Has
<1>4. \/ OldBatch = NoBatch /\ OldBatch \notin Batches /\ \A b \in Batches : b.ids # cmd.ids
      \/ OldBatch \in Batches /\ OldBatch.ids = cmd.ids /\ BatchInv(OldBatch)
  BY <1>0, <1>1, <1>3, BatchOfKey DEF FileType, BatchesInv
<1>5. CASE cmd.ids = Requirements
  <2>1. /\ ~Has(change.phases, cmd.phase) /\ Has(change.phases, Before(cmd.phase))
        /\ ~unchangedRejection(cmd.phase, Requirements, change.phases[Before(cmd.phase)])
    BY <1>1, <1>2, <1>5 DEF MayRecordFullSet
  <2>2. OldBatch \in Batches => OldBatch = FullBatch
    BY <1>1, <1>4, <1>5, <1>3, FullBatchIsFound
  <2>3. cmd.phase \notin DOMAIN FullBatch.ev
    BY <2>1, FullBatchIs DEF Has
  <2>4. cmd.phase \notin DOMAIN OldBatch.ev
    BY <1>4, <1>3, <2>2, <2>3
  <2>5. CASE cmd.phase = "red"
    <3>1. Has(change.phases, "design") /\ tree.tests # change.phases["design"].fp.tests
      BY <2>1, <2>5 DEF Before, unchangedRejection
    <3>2. OldBatch \notin Batches
      BY <1>4, <1>3, <2>4, <2>5 DEF BatchInv, Has
    <3> QED BY <1>4, <2>4, <2>5, <3>1, <3>2
  <2>6. CASE cmd.phase = "implementation"
    <3>1. "red" \in DOMAIN FullBatch.ev
      BY <2>1, <2>6, FullBatchIs DEF Before, Has, Batched
    <3>2. FullBatch \in Batches /\ FullBatch.ids = cmd.ids
      BY <1>1, <1>5, <3>1, FullBatchIsFound, FullBatchIs
    <3>3. OldBatch \in Batches /\ OldBatch = FullBatch
      BY <1>4, <2>2, <3>2
    <3>4. BatchInv(OldBatch) /\ OldBatch.ids = cmd.ids
      BY <1>1, <3>2, <3>3 DEF BatchesInv
    <3>5. \A r \in Requirements : requirementImplementation(tree, r)
                                    # requirementImplementation(change.phases["red"].fp, r)
      BY <2>1, <2>6 DEF Before, unchangedRejection
    <3>6. OldBatch.ev["red"] = change.phases["red"]
      BY <3>1, <3>3, FullBatchIs
    <3> QED BY <1>5, <2>4, <2>6, <3>3, <3>4, <3>5, <3>6 DEF BatchInv
  <2>7. CASE cmd.phase = "green"
    <3>1. "implementation" \in DOMAIN FullBatch.ev
      BY <2>1, <2>7, FullBatchIs DEF Before, Has, Batched
    <3>2. FullBatch \in Batches /\ FullBatch.ids = cmd.ids
      BY <1>1, <1>5, <3>1, FullBatchIsFound, FullBatchIs
    <3>3. OldBatch \in Batches /\ OldBatch = FullBatch
      BY <1>4, <2>2, <3>2
    <3>4. BatchInv(OldBatch) /\ OldBatch.ids = cmd.ids
      BY <1>1, <3>2, <3>3 DEF BatchesInv
    <3> QED BY <2>4, <2>7, <3>1, <3>3, <3>4 DEF BatchInv, Has
  <2> QED BY <1>2, <2>5, <2>6, <2>7
<1>6. CASE cmd.ids # Requirements
  <2>1. /\ cmd.phase \notin DOMAIN OldBatch.ev
        /\ cmd.phase = "red" => Has(change.phases, "design")
             /\ ~unchangedRejection(cmd.phase, cmd.ids, change.phases["design"])
        /\ cmd.phase # "red" => Has(OldBatch.ev, Before(cmd.phase))
             /\ ~unchangedRejection(cmd.phase, cmd.ids, OldBatch.ev[Before(cmd.phase)])
    BY <1>0, <1>1, <1>6 DEF MayRecordBatch, Has
  <2>2. CASE cmd.phase = "red"
    <3>1. Has(change.phases, "design") /\ tree.tests # change.phases["design"].fp.tests
      BY <2>1, <2>2 DEF unchangedRejection
    <3>2. OldBatch \notin Batches
      BY <1>4, <1>3, <2>1, <2>2 DEF BatchInv, Has
    <3> QED BY <1>4, <2>1, <2>2, <3>1, <3>2
  <2>3. CASE cmd.phase = "implementation"
    <3>1. Has(OldBatch.ev, "red") /\ ~unchangedRejection(cmd.phase, cmd.ids, OldBatch.ev["red"])
      BY <2>1, <2>3 DEF Before
    <3>2. OldBatch \in Batches /\ OldBatch.ids = cmd.ids /\ BatchInv(OldBatch)
      BY <1>4, <1>3, <3>1 DEF Has
    <3>3. \A r \in cmd.ids : requirementImplementation(tree, r)
                               # requirementImplementation(OldBatch.ev["red"].fp, r)
      BY <2>3, <3>1 DEF unchangedRejection
    <3> QED BY <2>1, <2>3, <3>2, <3>3 DEF BatchInv
  <2>4. CASE cmd.phase = "green"
    <3>1. Has(OldBatch.ev, "implementation")
      BY <2>1, <2>4 DEF Before
    <3>2. OldBatch \in Batches /\ OldBatch.ids = cmd.ids /\ BatchInv(OldBatch)
      BY <1>4, <1>3, <3>1 DEF Has
    <3> QED BY <2>1, <2>4, <3>1, <3>2 DEF BatchInv
  <2> QED BY <1>2, <2>2, <2>3, <2>4
<1> QED BY <1>5, <1>6

LEMMA SavedPhase ==
  ASSUME RecordInv, SavePhase, cmd.phase \in Batched
  PROVE  /\ UNCHANGED <<order, tree, cycles, waivers>> /\ cmd' = NoCommand
         /\ change'.history = change.history
         /\ change' = [phases |-> change'.phases, batches |-> change'.batches, history |-> change'.history]
         /\ cmd.ids = Requirements => /\ change'.phases = WithField(change.phases, cmd.phase, cmd.item)
                                      /\ change'.batches = change.batches
         /\ cmd.ids # Requirements => change'.phases = change.phases /\ change'.batches = SavedBatches
<1>1. cmd.phase # "quality"
  BY DEF Batched
<1>2. change = [phases |-> change.phases, batches |-> change.batches, history |-> change.history]
  BY DEF RecordInv, FilesInv, FileType
<1>3. CASE cmd.ids = Requirements
  <2>1. change' = [change EXCEPT !.phases = WithField(@, cmd.phase, cmd.item), !.history = change.history]
    BY <1>1, <1>3 DEF SavePhase
  <2> QED BY <1>2, <1>3, <2>1 DEF SavePhase
<1>4. CASE cmd.ids # Requirements
  <2>1. change' = [change EXCEPT !.batches = SavedBatches]
    BY <1>4 DEF SavePhase
  <2> QED BY <1>2, <1>4, <2>1 DEF SavePhase
<1> QED BY <1>3, <1>4

LEMMA SavedFullBatch ==
  ASSUME RecordInv, SavePhase, cmd.phase \in Batched, cmd.ids = Requirements
  PROVE  FullBatch' = NewBatch
<1>1. change'.phases = WithField(change.phases, cmd.phase, cmd.item)
  BY SavedPhase
<1>2. /\ DOMAIN change'.phases = DOMAIN change.phases \union {cmd.phase}
      /\ change'.phases[cmd.phase] = cmd.item
      /\ \A f \in DOMAIN change.phases : f # cmd.phase => change'.phases[f] = change.phases[f]
  BY <1>1 DEF WithField
<1>3. FullBatch' = [ids |-> Requirements, ev |-> [phase \in DOMAIN change'.phases \intersect Batched |-> change'.phases[phase]]]
  BY DEF FullBatch
<1>4. /\ DOMAIN OldBatch.ev = DOMAIN FullBatch.ev
      /\ \A phase \in DOMAIN OldBatch.ev : OldBatch.ev[phase] = FullBatch.ev[phase]
  <2>1. CASE OldBatch = NoBatch /\ \A b \in Batches : b.ids # cmd.ids
    <3>1. FullBatch \notin Batches
      BY <2>1, FullBatchIs
    <3>2. DOMAIN FullBatch.ev = {}
      BY <3>1, FullBatchIsFound DEF RecordInv, FilesInv
    <3> QED BY <2>1, <3>2, EmptyRecord DEF NoBatch
  <2>2. CASE OldBatch \in Batches /\ OldBatch.ids = cmd.ids
    BY <2>2, FullBatchIsFound DEF RecordInv, FilesInv
  <2> QED BY <2>1, <2>2, PendingBatch DEF SavePhase
<1>5. /\ DOMAIN NewBatch.ev = DOMAIN OldBatch.ev \union {cmd.phase} /\ IsFunction(NewBatch.ev)
      /\ NewBatch.ev[cmd.phase] = cmd.item
      /\ \A f \in DOMAIN OldBatch.ev : f # cmd.phase => NewBatch.ev[f] = OldBatch.ev[f]
  BY DEF NewBatch, WithField, IsFunction
<1>6. /\ DOMAIN FullBatch.ev = DOMAIN change.phases \intersect Batched
      /\ \A phase \in DOMAIN FullBatch.ev : FullBatch.ev[phase] = change.phases[phase]
  BY FullBatchIs
<1>7. DOMAIN NewBatch.ev = DOMAIN change'.phases \intersect Batched
  BY <1>2, <1>4, <1>5, <1>6
<1>8. \A f \in DOMAIN NewBatch.ev : NewBatch.ev[f] = change'.phases[f]
  BY <1>2, <1>4, <1>5, <1>6
<1>9. NewBatch.ev = [phase \in DOMAIN change'.phases \intersect Batched |-> change'.phases[phase]]
  BY <1>5, <1>7, <1>8 DEF IsFunction
<1>10. NewBatch = [ids |-> Requirements, ev |-> NewBatch.ev]
  BY DEF NewBatch
<1> QED BY <1>3, <1>9, <1>10

LEMMA SavedFileType ==
  ASSUME RecordInv, SavePhase, cmd.phase \in Batched
  PROVE  /\ FileType'
         /\ \A b \in Batches' : b = NewBatch \/ (b \in Batches /\ b.ids # cmd.ids)
         /\ \A b \in Batches : b.ids # cmd.ids => b \in Batches'
         /\ NewBatch \in Batches'
<1>1. FileType /\ cmd.op = "phase" /\ cmd.ids \in SUBSET Requirements /\ cmd.ids # {}
  BY DEF RecordInv, FilesInv, PendingPhase, SavePhase
<1>2. /\ order' = order /\ change'.history = change.history
      /\ change' = [phases |-> change'.phases, batches |-> change'.batches, history |-> change'.history]
  BY SavedPhase
<1>3. CASE cmd.ids = Requirements
  <2>1. change'.phases = WithField(change.phases, cmd.phase, cmd.item) /\ change'.batches = change.batches
    BY <1>3, SavedPhase
  <2>2. IsFunction(change'.phases) /\ DOMAIN change'.phases = DOMAIN change.phases \union {cmd.phase}
    BY <2>1 DEF WithField, IsFunction
  <2>3. FileType'
    BY <1>1, <1>2, <2>1, <2>2 DEF FileType, BatchType
  <2>4. FullBatch' = NewBatch /\ DOMAIN FullBatch'.ev # {}
    <3>1. DOMAIN NewBatch.ev = DOMAIN OldBatch.ev \union {cmd.phase}
      BY DEF NewBatch, WithField, IsFunction
    <3> QED BY <1>3, <3>1, SavedFullBatch
  <2>5. Batches' = {change.batches[i] : i \in DOMAIN change.batches} \union {NewBatch}
    BY <2>1, <2>3, <2>4, BatchesAreNext DEF FileType
  <2>6. /\ \A i \in DOMAIN change.batches : change.batches[i] \in Batches /\ change.batches[i].ids # Requirements
        /\ \A b \in Batches : b.ids # Requirements => \E i \in DOMAIN change.batches : b = change.batches[i]
    BY <1>1, FullBatchIsFound DEF FileType
  <2> QED BY <1>3, <2>3, <2>5, <2>6
<1>4. CASE cmd.ids # Requirements
  <2> DEFINE bs == change.batches
             at == {i \in DOMAIN bs : bs[i].ids = cmd.ids}
  <2>1. change'.phases = change.phases /\ change'.batches = SavedBatches
    BY <1>4, SavedPhase
  <2>2. FullBatch' = FullBatch
    BY <2>1 DEF FullBatch
  <2>3. /\ \A b \in Batches : b.ids = Requirements => b = FullBatch
        /\ DOMAIN FullBatch.ev # {} => FullBatch \in Batches
        /\ \A b \in Batches : b.ids # Requirements => \E i \in DOMAIN bs : b = bs[i]
        /\ \A i \in DOMAIN bs : bs[i] \in Batches
    BY <1>1, FullBatchIsFound
  <2>4. IsLog(bs) /\ \A i \in DOMAIN bs :
          /\ BatchType(bs[i]) /\ bs[i].ids # Requirements
          /\ bs[i] = [ids |-> bs[i].ids, ev |-> bs[i].ev]
          /\ \A j \in DOMAIN bs : bs[j].ids = bs[i].ids => i = j
    BY <1>1 DEF FileType
  <2>5. /\ NewBatch.ids = cmd.ids /\ IsFunction(NewBatch.ev) /\ NewBatch = [ids |-> NewBatch.ids, ev |-> NewBatch.ev]
        /\ DOMAIN NewBatch.ev = DOMAIN OldBatch.ev \union {cmd.phase}
    BY DEF NewBatch, WithField, IsFunction
  <2>6. BatchType(NewBatch)
    <3>1. DOMAIN OldBatch.ev \subseteq Batched
      <4>1. CASE OldBatch = NoBatch
        BY <4>1, EmptyRecord DEF NoBatch
      <4>2. CASE OldBatch \in Batches
        BY <4>2, <1>1, BatchesHaveType
      <4> QED BY <4>1, <4>2, <1>1, PendingBatch
    <3> QED BY <1>1, <2>5, <3>1 DEF BatchType
  <2>7. FullBatch \in Batches => FullBatch.ids # cmd.ids
    BY <1>4, FullBatchIs
  <2>8. CASE at = {}
    <3>1. OldBatch = NoBatch
      <4>1. \A b \in Batches : b.ids # cmd.ids
        BY <1>4, <2>3, <2>8
      <4> QED BY <4>1, <1>1, PendingBatch
    <3>2. change'.batches = Append(bs, NewBatch)
      BY <2>1, <2>8, <3>1 DEF SavedBatches, NewBatch, NoBatch
    <3> DEFINE ns == Append(bs, NewBatch)
    <3> HIDE DEF ns
    <3>3. /\ IsLog(ns) /\ DOMAIN bs = 1..Len(bs) /\ Len(bs) \in Nat
          /\ DOMAIN ns = 1..(Len(bs) + 1)
          /\ \A i \in DOMAIN bs : ns[i] = bs[i]
          /\ ns[Len(bs) + 1] = NewBatch
      BY <2>4, AppendToLog DEF ns
    <3>4. \A i \in DOMAIN ns : (i \in DOMAIN bs /\ ns[i] = bs[i]) \/ (i = Len(bs) + 1 /\ ns[i] = NewBatch)
      BY <3>3
    <3>5. \A i \in DOMAIN bs : bs[i].ids # cmd.ids
      BY <2>8
    <3>6. \A i \in DOMAIN ns :
            /\ BatchType(ns[i]) /\ ns[i].ids # Requirements
            /\ ns[i] = [ids |-> ns[i].ids, ev |-> ns[i].ev]
      BY <1>4, <2>4, <2>5, <2>6, <3>4
    <3>7. \A i, j \in DOMAIN ns : ns[j].ids = ns[i].ids => i = j
      BY <2>4, <2>5, <3>4, <3>5
    <3>8. FileType'
      BY <1>1, <1>2, <2>1, <3>2, <3>3, <3>6, <3>7 DEF FileType, BatchType, ns
    <3>9. Batches' = {ns[i] : i \in DOMAIN ns} \union (IF DOMAIN FullBatch.ev = {} THEN {} ELSE {FullBatch})
      BY <2>2, <3>2, <3>8, BatchesAreNext DEF FileType, ns
    <3>10. Len(bs) + 1 \in DOMAIN ns /\ \A i \in DOMAIN bs : i \in DOMAIN ns
      BY <3>3
    <3>11. \A b \in Batches' : b = NewBatch \/ (b \in Batches /\ b.ids # cmd.ids)
      BY <2>3, <2>7, <3>4, <3>5, <3>9
    <3>12. \A b \in Batches : b.ids # cmd.ids => b \in Batches'
      <4>1. ASSUME NEW b \in Batches, b.ids = Requirements PROVE b \in Batches'
        <5>1. b = FullBatch
          BY <2>3, <4>1
        <5>2. DOMAIN FullBatch.ev # {}
          BY <4>1, <5>1, <1>1, BatchesAre, <2>4
        <5> QED BY <3>9, <5>1, <5>2
      <4>2. ASSUME NEW b \in Batches, b.ids # Requirements PROVE b \in Batches'
        BY <2>3, <3>3, <3>9, <3>10, <4>2
      <4> QED BY <4>1, <4>2
    <3> QED BY <3>3, <3>8, <3>9, <3>10, <3>11, <3>12
  <2>9. CASE at # {}
    <3>1. PICK k \in DOMAIN bs : bs[k].ids = cmd.ids
      BY <2>9
    <3>2. at = {k}
      BY <2>4, <3>1
    <3>3. OldBatch = bs[k]
      <4>1. bs[k] \in Batches
        BY <2>3, <3>1
      <4>2. OldBatch \in Batches /\ OldBatch.ids = cmd.ids
        BY <1>1, <3>1, <4>1, PendingBatch
      <4> QED BY <1>1, <3>1, <4>1, <4>2, BatchesDiffer
    <3> DEFINE ns == change'.batches
    <3>4. ns = [i \in DOMAIN bs |-> IF i \in at THEN [bs[i] EXCEPT !.ev = WithField(@, cmd.phase, cmd.item)] ELSE bs[i]]
      BY <2>1, <2>9 DEF SavedBatches
    <3>5. [bs[k] EXCEPT !.ev = WithField(@, cmd.phase, cmd.item)] = NewBatch
      <4> DEFINE new(ev) == WithField(ev, cmd.phase, cmd.item)
      <4>1. bs[k] = [ids |-> cmd.ids, ev |-> OldBatch.ev]
        BY <2>4, <3>1, <3>3
      <4>2. NewBatch = [ids |-> cmd.ids, ev |-> new(OldBatch.ev)]
        BY DEF NewBatch
      <4> HIDE DEF new
      <4>3. [bs[k] EXCEPT !.ev = new(@)] = [ids |-> cmd.ids, ev |-> new(OldBatch.ev)]
        BY <4>1
      <4> QED BY <4>2, <4>3 DEF new
    <3>6. /\ IsFunction(ns) /\ DOMAIN ns = DOMAIN bs /\ ns[k] = NewBatch
          /\ \A i \in DOMAIN bs : i # k => ns[i] = bs[i]
      BY <3>2, <3>4, <3>5, <3>1 DEF IsFunction
    <3> HIDE DEF ns
    <3>7. IsLog(ns)
      BY <2>4, <3>6, MappedLog
    <3>8. \A i \in DOMAIN ns :
            /\ BatchType(ns[i]) /\ ns[i].ids # Requirements
            /\ ns[i] = [ids |-> ns[i].ids, ev |-> ns[i].ev]
            /\ ns[i].ids = bs[i].ids
      BY <1>4, <2>4, <2>5, <2>6, <3>1, <3>6
    <3>9. \A i, j \in DOMAIN ns : ns[j].ids = ns[i].ids => i = j
      BY <2>4, <3>6, <3>8
    <3>10. FileType'
      BY <1>1, <1>2, <2>1, <3>7, <3>8, <3>9 DEF FileType, BatchType, ns
    <3>11. Batches' = {ns[i] : i \in DOMAIN ns} \union (IF DOMAIN FullBatch.ev = {} THEN {} ELSE {FullBatch})
      BY <2>2, <3>10, BatchesAreNext DEF FileType, ns
    <3>12. \A i \in DOMAIN bs : i # k => bs[i].ids # cmd.ids
      BY <2>4, <3>1
    <3>13. \A b \in Batches' : b = NewBatch \/ (b \in Batches /\ b.ids # cmd.ids)
      BY <2>3, <2>7, <3>6, <3>11, <3>12
    <3>14. \A b \in Batches : b.ids # cmd.ids => b \in Batches'
      <4>1. ASSUME NEW b \in Batches, b.ids = Requirements PROVE b \in Batches'
        <5>1. b = FullBatch
          BY <2>3, <4>1
        <5>2. DOMAIN FullBatch.ev # {}
          BY <4>1, <5>1, <1>1, BatchesAre, <2>4
        <5> QED BY <3>11, <5>1, <5>2
      <4>2. ASSUME NEW b \in Batches, b.ids # Requirements, b.ids # cmd.ids PROVE b \in Batches'
        BY <2>3, <3>1, <3>6, <3>11, <4>2
      <4> QED BY <4>1, <4>2
    <3> QED BY <3>1, <3>6, <3>10, <3>11, <3>13, <3>14
  <2> QED BY <2>8, <2>9
<1> QED BY <1>3, <1>4

LEMMA Fingerprints ==
  /\ currentFingerprints("impact").req = tree.req
  /\ currentFingerprints("requirements").req = tree.req
  /\ currentFingerprints("requirements").design = tree.design
  /\ currentFingerprints("design").design = tree.design
  /\ currentFingerprints("design").tests = tree.tests
  /\ currentFingerprints("red").tests = tree.tests
  /\ currentFingerprints("red").code = tree.code
  /\ currentFingerprints("implementation").code = tree.code
BY DEF currentFingerprints

(* The phases of the whole change are not touched.                           *)
LEMMA SavedKeepsSingular ==
  ASSUME RecordInv, SavePhase, cmd.phase \in Batched
  PROVE  /\ \A s \in Singular : /\ Has(change'.phases, s) <=> Has(change.phases, s)
                                /\ Has(change.phases, s) => change'.phases[s] = change.phases[s]
                                /\ OrderOf(s)' = OrderOf(s)
         /\ \A f \in DOMAIN change'.phases :
              \/ f \in DOMAIN change.phases /\ change'.phases[f] = change.phases[f]
              \/ cmd.ids = Requirements /\ f = cmd.phase /\ change'.phases[f] = cmd.item
<1>1. Singular \intersect Batched = {}
  BY DEF Singular, Batched
<1>2. /\ \A s \in Singular : /\ Has(change'.phases, s) <=> Has(change.phases, s)
                             /\ Has(change.phases, s) => change'.phases[s] = change.phases[s]
      /\ \A f \in DOMAIN change'.phases :
           \/ f \in DOMAIN change.phases /\ change'.phases[f] = change.phases[f]
           \/ cmd.ids = Requirements /\ f = cmd.phase /\ change'.phases[f] = cmd.item
  <2>1. CASE cmd.ids = Requirements
    <3>1. change'.phases = WithField(change.phases, cmd.phase, cmd.item)
      BY <2>1, SavedPhase
    <3>2. /\ DOMAIN change'.phases = DOMAIN change.phases \union {cmd.phase}
          /\ change'.phases[cmd.phase] = cmd.item
          /\ \A f \in DOMAIN change.phases : f # cmd.phase => change'.phases[f] = change.phases[f]
      BY <3>1 DEF WithField
    <3> QED BY <1>1, <2>1, <3>2 DEF Has
  <2>2. CASE cmd.ids # Requirements
    BY <2>2, SavedPhase
  <2> QED BY <2>1, <2>2
<1> QED BY <1>2 DEF OrderOf

LEMMA NewBatchIs ==
  /\ NewBatch.ids = cmd.ids /\ DOMAIN NewBatch.ev = DOMAIN OldBatch.ev \union {cmd.phase}
  /\ NewBatch.ev[cmd.phase] = cmd.item
  /\ \A f \in DOMAIN OldBatch.ev : f # cmd.phase => NewBatch.ev[f] = OldBatch.ev[f]
BY DEF NewBatch, WithField

LEMMA PendingItem ==
  ASSUME RecordInv, SavePhase
  PROVE  /\ cmd.op = "phase" /\ cmd.item.order = Len(order) /\ Len(order) \in Nat
         /\ cmd.item.fp = currentFingerprints(cmd.phase)
         /\ \A phase \in DOMAIN change.phases : change.phases[phase].order < Len(order)
         /\ \A b \in Batches : \A phase \in DOMAIN b.ev : b.ev[phase].order < Len(order)
         /\ \A i \in DOMAIN change.history : change.history[i].order < Len(order)
         /\ InOrder(Entity(cmd.phase, cmd.ids, cmd.item.detail), cmd.phase, cmd.item.order)
<1>1. FilesInv /\ cmd.op = "phase" /\ PendingPhase
  BY DEF RecordInv, SavePhase
<1> QED BY <1>1, OrdersAreRecorded DEF PendingPhase, OrdersBelow

LEMMA NewBatchShowsWork ==
  ASSUME RecordInv, SavePhase, cmd.phase \in Batched
  PROVE  BatchInv(NewBatch)
<1>1. /\ Has(change.phases, "design") /\ cmd.phase \notin DOMAIN OldBatch.ev
      /\ \/ /\ OldBatch = NoBatch /\ cmd.phase = "red"
            /\ tree.tests # change.phases["design"].fp.tests
         \/ /\ OldBatch \in Batches /\ OldBatch.ids = cmd.ids /\ BatchInv(OldBatch)
            /\ \/ /\ cmd.phase = "implementation"
                  /\ \A r \in cmd.ids : requirementImplementation(tree, r)
                                          # requirementImplementation(OldBatch.ev["red"].fp, r)
               \/ cmd.phase = "green" /\ Has(OldBatch.ev, "implementation")
  BY PendingBatch DEF SavePhase
<1>2. /\ cmd.item.order = Len(order) /\ cmd.item.fp = currentFingerprints(cmd.phase)
      /\ Len(order) > OrderOf("design") /\ Len(order) \in Nat
  BY <1>1, PendingItem DEF OrderOf, Has
<1>3. tree.code \in [Units -> Nat] /\ Upto(tree.code, tree.code)
  BY UptoItself DEF RecordInv, TreeType
<1>4. CASE cmd.phase = "red"
  <2>1. DOMAIN NewBatch.ev = {"red"} /\ NewBatch.ev["red"] = cmd.item
    BY <1>1, <1>4, NewBatchIs, EmptyRecord DEF NoBatch
  <2>2. cmd.item.fp.tests = tree.tests /\ cmd.item.fp.code = tree.code
    BY <1>2, <1>4, Fingerprints
  <2> QED BY <1>1, <1>2, <1>3, <1>4, <2>1, <2>2 DEF BatchInv, Has
<1>5. CASE cmd.phase = "implementation"
  <2>1. /\ OldBatch \in Batches /\ OldBatch.ids = cmd.ids /\ BatchInv(OldBatch)
        /\ \A r \in cmd.ids : requirementImplementation(tree, r)
                                # requirementImplementation(OldBatch.ev["red"].fp, r)
    BY <1>1, <1>5
  <2>2. /\ "red" \in DOMAIN OldBatch.ev /\ "green" \notin DOMAIN OldBatch.ev
    BY <1>1, <1>5, <2>1 DEF BatchInv, Has
  <2>3. /\ NewBatch.ids = cmd.ids /\ DOMAIN NewBatch.ev = DOMAIN OldBatch.ev \union {"implementation"}
        /\ NewBatch.ev["implementation"] = cmd.item /\ NewBatch.ev["red"] = OldBatch.ev["red"]
    BY <1>5, <2>2, NewBatchIs
  <2>4. cmd.item.fp.code = tree.code
    BY <1>2, <1>5, Fingerprints
  <2>5. \A r \in NewBatch.ids : requirementImplementation(NewBatch.ev["red"].fp, r)
                                  # requirementImplementation(cmd.item.fp, r)
    BY <2>1, <2>3, <2>4 DEF requirementImplementation
  <2>6. cmd.item.order > NewBatch.ev["red"].order
    BY <1>2, <2>1, <2>2, <2>3, PendingItem
  <2>7. /\ "red" \in DOMAIN NewBatch.ev /\ "green" \notin DOMAIN NewBatch.ev
    BY <2>2, <2>3
  <2>8. Upto(NewBatch.ev["red"].fp.code, cmd.item.fp.code)
    BY <2>1, <2>3, <2>4 DEF BatchInv
  <2>9. /\ NewBatch.ev["red"].order > OrderOf("design")
        /\ NewBatch.ev["red"].fp.tests # change.phases["design"].fp.tests
        /\ NewBatch.ev["red"].fp.code \in [Units -> Nat] /\ Upto(NewBatch.ev["red"].fp.code, tree.code)
    BY <2>1, <2>3 DEF BatchInv
  <2> QED BY <1>1, <1>3, <2>3, <2>4, <2>5, <2>6, <2>7, <2>8, <2>9 DEF BatchInv, Has
<1>6. CASE cmd.phase = "green"
  <2>1. /\ OldBatch \in Batches /\ OldBatch.ids = cmd.ids /\ BatchInv(OldBatch)
        /\ "implementation" \in DOMAIN OldBatch.ev /\ "red" \in DOMAIN OldBatch.ev
    BY <1>1, <1>6 DEF BatchInv, Has
  <2>2. /\ NewBatch.ids = cmd.ids /\ DOMAIN NewBatch.ev = DOMAIN OldBatch.ev \union {"green"}
        /\ NewBatch.ev["green"] = cmd.item /\ NewBatch.ev["red"] = OldBatch.ev["red"]
        /\ NewBatch.ev["implementation"] = OldBatch.ev["implementation"]
    BY <1>6, <2>1, NewBatchIs
  <2>3. cmd.item.order > NewBatch.ev["implementation"].order
    BY <1>2, <2>1, <2>2, PendingItem
  <2> QED BY <1>1, <2>1, <2>2, <2>3 DEF BatchInv, Has
<1> QED BY <1>1, <1>4, <1>5, <1>6

LEMMA SavingBatchKeepsFiles ==
  ASSUME RecordInv, SavePhase, cmd.phase \in Batched
  PROVE  FilesInv'
<1>1. /\ FilesInv /\ FileType /\ SingularInv /\ BatchesInv /\ OrderMatches /\ QualityInv
      /\ order' = order /\ tree' = tree /\ change'.history = change.history
  BY SavedPhase DEF RecordInv, FilesInv
<1>2. /\ FileType'
      /\ \A b \in Batches' : b = NewBatch \/ (b \in Batches /\ b.ids # cmd.ids)
      /\ \A b \in Batches : b.ids # cmd.ids => b \in Batches'
      /\ NewBatch \in Batches'
  BY SavedFileType
<1>3. /\ \A s \in Singular : /\ Has(change'.phases, s) <=> Has(change.phases, s)
                             /\ Has(change.phases, s) => change'.phases[s] = change.phases[s]
                             /\ OrderOf(s)' = OrderOf(s)
      /\ \A f \in DOMAIN change'.phases :
           \/ f \in DOMAIN change.phases /\ change'.phases[f] = change.phases[f]
           \/ cmd.ids = Requirements /\ f = cmd.phase /\ change'.phases[f] = cmd.item
  BY SavedKeepsSingular
<1>4. {"impact", "requirements", "design", "quality"} \subseteq Singular /\ Has(change.phases, "design")
  BY PendingBatch DEF Singular, SavePhase
<1>5. SingularInv'
  <2>1. Recorded /\ Recorded'
    BY <1>1, <1>3, <1>4 DEF SingularInv, Has, Recorded
  <2>2. /\ OrderOf("impact")' = OrderOf("impact") /\ OrderOf("requirements")' = OrderOf("requirements")
        /\ OrderOf("design")' = OrderOf("design")
    BY <1>3, <1>4
  <2>3. /\ change'.phases["impact"] = change.phases["impact"]
        /\ Has(change'.phases, "requirements") <=> Has(change.phases, "requirements")
        /\ Has(change.phases, "requirements") => change'.phases["requirements"] = change.phases["requirements"]
        /\ Has(change'.phases, "design") <=> Has(change.phases, "design")
        /\ change'.phases["design"] = change.phases["design"]
    BY <1>3, <1>4, <2>1 DEF Recorded, Has
  <2> QED BY <1>1, <2>1, <2>2, <2>3 DEF SingularInv
<1>6. BatchesInv'
  <2>1. ASSUME NEW b, BatchInv(b) PROVE BatchInv(b)'
    <3>1. /\ Has(change'.phases, "design") /\ change'.phases["design"] = change.phases["design"]
          /\ OrderOf("design")' = OrderOf("design")
      BY <1>3, <1>4
    <3> QED BY <1>1, <2>1, <3>1 DEF BatchInv
  <2>2. \A b \in Batches' : BatchInv(b)
    BY <1>1, <1>2, NewBatchShowsWork DEF BatchesInv
  <2> QED BY <2>1, <2>2 DEF BatchesInv
<1>7. OrderMatches'
  <2>1. Entity(cmd.phase, cmd.ids, cmd.item.detail) = <<"phase", cmd.ids>> /\ cmd.phase # "quality"
    BY DEF Entity, Batched
  <2>2. InOrder(<<"phase", cmd.ids>>, cmd.phase, cmd.item.order)
    BY <2>1, PendingItem
  <2>3. Checkpoints' = Checkpoints
    <3>1. /\ Has(change'.phases, "quality") <=> Has(change.phases, "quality")
          /\ Has(change.phases, "quality") => change'.phases["quality"] = change.phases["quality"]
      BY <1>3, <1>4
    <3> QED BY <1>1, <3>1 DEF Checkpoints, Has
  <2>4. CheckpointsInOrder'
    BY <1>1, <2>3 DEF CheckpointsInOrder, OrderMatches, InOrder
  <2>5. \A f \in DOMAIN change'.phases \ {"quality"} : InOrder(<<"phase", Requirements>>, f, change'.phases[f].order)
    BY <1>1, <1>3, <2>2 DEF OrderMatches, OrderOf, Has
  <2>6. \A b \in Batches' : \A f \in DOMAIN b.ev : InOrder(<<"phase", b.ids>>, f, b.ev[f].order)
    <3> SUFFICES ASSUME NEW b \in Batches', NEW f \in DOMAIN b.ev
                 PROVE  InOrder(<<"phase", b.ids>>, f, b.ev[f].order)
      OBVIOUS
    <3>1. CASE b \in Batches
      BY <1>1, <3>1 DEF OrderMatches
    <3>2. CASE b = NewBatch /\ f = cmd.phase
      BY <2>2, <3>2, NewBatchIs
    <3>3. CASE b = NewBatch /\ f # cmd.phase
      <4>1. f \in DOMAIN OldBatch.ev /\ b.ev[f] = OldBatch.ev[f] /\ b.ids = cmd.ids
        BY <3>3, NewBatchIs
      <4>2. OldBatch \in Batches /\ OldBatch.ids = cmd.ids
        BY <4>1, PendingBatch, EmptyRecord DEF SavePhase, NoBatch
      <4> QED BY <1>1, <4>1, <4>2 DEF OrderMatches
    <3> QED BY <1>2, <3>1, <3>2, <3>3
  <2> QED BY <1>1, <2>4, <2>5, <2>6 DEF OrderMatches, InOrder, OrderOf, Has
<1>8. QualityInv'
  <2>1. /\ Has(change'.phases, "quality") <=> Has(change.phases, "quality")
        /\ Has(change.phases, "quality") => change'.phases["quality"] = change.phases["quality"]
    BY <1>3, <1>4
  <2>2. ~qualityHistoryIssue'
    BY <1>1, <2>1 DEF QualityInv, qualityHistoryIssue
  <2>3. CoveredBy("green") \subseteq CoveredBy("green")'
    <3> SUFFICES ASSUME NEW b \in Batches, Has(b.ev, "green")
                 PROVE  \E c \in Batches' : Has(c.ev, "green") /\ c.ids = b.ids
      BY DEF CoveredBy
    <3>1. CASE b.ids # cmd.ids
      BY <1>2, <3>1
    <3>2. CASE b.ids = cmd.ids
      <4>1. OldBatch \in Batches /\ OldBatch.ids = cmd.ids
        BY <3>2, PendingBatch DEF SavePhase
      <4>2. OldBatch = b
        BY <1>1, <3>2, <4>1, BatchesDiffer
      <4> QED BY <1>2, <3>2, <4>2, NewBatchIs DEF Has
    <3> QED BY <3>1, <3>2
  <2> QED BY <1>1, <2>1, <2>2, <2>3 DEF QualityInv
<1> QED BY <1>2, <1>5, <1>6, <1>7, <1>8 DEF FilesInv

-----------------------------------------------------------------------------
(* Saving a phase of the whole change.                                       *)
LEMMA SavedSingular ==
  ASSUME RecordInv, SavePhase, cmd.phase \in Singular
  PROVE  /\ UNCHANGED <<order, tree, cycles, waivers>> /\ cmd' = NoCommand
         /\ MayRecordFullSet(cmd.phase, cmd.item.allowed)
         /\ change' = [phases |-> change'.phases, batches |-> change'.batches, history |-> change'.history]
         /\ IsFunction(change'.phases) /\ DOMAIN change'.phases = DOMAIN change.phases \union {cmd.phase}
         /\ change'.phases[cmd.phase] = cmd.item
         /\ \A f \in DOMAIN change.phases : f # cmd.phase => change'.phases[f] = change.phases[f]
         /\ change'.batches = change.batches /\ FullBatch' = FullBatch /\ Batches' = Batches
         /\ change'.history = IF cmd.phase = "quality" /\ Has(change.phases, "quality")
                              THEN Append(change.history, change.phases["quality"]) ELSE change.history
<1> DEFINE kept == IF cmd.phase = "quality" /\ Has(change.phases, "quality")
                   THEN Append(change.history, change.phases["quality"]) ELSE change.history
<1>1. /\ cmd.ids = Requirements /\ MayRecordFullSet(cmd.phase, cmd.item.allowed)
      /\ change = [phases |-> change.phases, batches |-> change.batches, history |-> change.history]
      /\ IsLog(change.batches)
  BY DEF RecordInv, FilesInv, FileType, PendingPhase, SavePhase
<1>2. change' = [change EXCEPT !.phases = WithField(@, cmd.phase, cmd.item), !.history = kept]
  BY <1>1 DEF SavePhase
<1>3. /\ change'.phases = WithField(change.phases, cmd.phase, cmd.item)
      /\ change'.batches = change.batches /\ change'.history = kept
      /\ change' = [phases |-> change'.phases, batches |-> change'.batches, history |-> change'.history]
  <2> HIDE DEF kept
  <2> QED BY <1>1, <1>2
<1>4. /\ IsFunction(change'.phases) /\ DOMAIN change'.phases = DOMAIN change.phases \union {cmd.phase}
      /\ change'.phases[cmd.phase] = cmd.item
      /\ \A f \in DOMAIN change.phases : f # cmd.phase => change'.phases[f] = change.phases[f]
  BY <1>3 DEF WithField, IsFunction
<1>5. cmd.phase \notin Batched
  BY DEF Singular, Batched
<1>6. FullBatch' = FullBatch
  BY <1>4, <1>5 DEF FullBatch
<1>7. Batches' = Batches
  BY <1>1, <1>3, <1>6, BatchesAre, BatchesAreNext
<1> QED BY <1>1, <1>3, <1>4, <1>6, <1>7 DEF SavePhase

LEMMA NoDesignNoBatch ==
  ASSUME FilesInv, ~Has(change.phases, "design")
  PROVE  Batches = {}
BY DEF FilesInv, BatchesInv, BatchInv

LEMMA SingularOrder ==
  ASSUME RecordInv, SavePhase, cmd.phase \in Singular
  PROVE  OrderMatches'
<1>1. /\ FilesInv /\ OrderMatches /\ cmd.ids = Requirements
  BY DEF RecordInv, FilesInv, PendingPhase, SavePhase
<1>2. /\ order' = order /\ DOMAIN change'.phases = DOMAIN change.phases \union {cmd.phase}
      /\ change'.phases[cmd.phase] = cmd.item
      /\ \A f \in DOMAIN change.phases : f # cmd.phase => change'.phases[f] = change.phases[f]
      /\ Batches' = Batches
      /\ change'.history = IF cmd.phase = "quality" /\ Has(change.phases, "quality")
                           THEN Append(change.history, change.phases["quality"]) ELSE change.history
  BY SavedSingular
<1>3. InOrder(Entity(cmd.phase, cmd.ids, cmd.item.detail), cmd.phase, cmd.item.order)
  BY PendingItem
<1>4. \A c \in Checkpoints : InOrder(<<"quality", c.detail>>, "quality", c.order)
  BY <1>1 DEF OrderMatches, CheckpointsInOrder
<1>5. \A c \in Checkpoints' : c \in Checkpoints \/ (c = cmd.item /\ cmd.phase = "quality")
  <2>1. \A i \in DOMAIN change'.history : change'.history[i] \in Checkpoints
    <3>1. CASE cmd.phase = "quality" /\ Has(change.phases, "quality")
      <4>1. change'.history = Append(change.history, change.phases["quality"])
        BY <1>2, <3>1
      <4>2. change.phases["quality"] \in Checkpoints
        BY <3>1 DEF Checkpoints, Has
      <4>3. IsLog(change.history)
        BY <1>1 DEF FilesInv, FileType
      <4> DEFINE q == change.phases["quality"]
                 h == change.history
                 t == Append(h, q)
      <4> HIDE DEF q
      <4>4. /\ DOMAIN h = 1..Len(h) /\ Len(h) \in Nat
            /\ DOMAIN t = 1..(Len(h) + 1)
            /\ \A i \in DOMAIN h : t[i] = h[i]
            /\ t[Len(h) + 1] = q
        BY <4>3, AppendToLog
      <4> HIDE DEF t
      <4>5. \A i \in DOMAIN t : (i \in DOMAIN h /\ t[i] = h[i]) \/ t[i] = q
        BY <4>4
      <4>6. \A i \in DOMAIN h : h[i] \in Checkpoints
        BY DEF Checkpoints
      <4>7. \A i \in DOMAIN t : t[i] \in Checkpoints
        BY <4>2, <4>5, <4>6 DEF q
      <4> QED BY <4>1, <4>7 DEF t, q
    <3>2. CASE ~(cmd.phase = "quality" /\ Has(change.phases, "quality"))
      BY <1>2, <3>2 DEF Checkpoints
    <3> QED BY <3>1, <3>2
  <2>2. "quality" \in DOMAIN change'.phases =>
          change'.phases["quality"] \in Checkpoints \/ (change'.phases["quality"] = cmd.item /\ cmd.phase = "quality")
    BY <1>2 DEF Checkpoints
  <2> QED BY <2>1, <2>2 DEF Checkpoints
<1>6. CheckpointsInOrder'
  <2>1. cmd.phase = "quality" => InOrder(<<"quality", cmd.item.detail>>, "quality", cmd.item.order)
    BY <1>3 DEF Entity
  <2>2. \A c \in Checkpoints' : InOrder(<<"quality", c.detail>>, "quality", c.order)
    BY <1>4, <1>5, <2>1
  <2> QED BY <1>2, <2>2 DEF CheckpointsInOrder, InOrder
<1>7. \A f \in DOMAIN change'.phases \ {"quality"} : InOrder(<<"phase", Requirements>>, f, change'.phases[f].order)
  <2> SUFFICES ASSUME NEW f \in DOMAIN change'.phases \ {"quality"}
               PROVE  InOrder(<<"phase", Requirements>>, f, change'.phases[f].order)
    OBVIOUS
  <2>1. CASE f = cmd.phase
    BY <1>1, <1>2, <1>3, <2>1 DEF Entity
  <2>2. CASE f # cmd.phase
    <3>1. f \in DOMAIN change.phases /\ change'.phases[f] = change.phases[f]
      BY <1>2, <2>2
    <3> QED BY <1>1, <3>1 DEF OrderMatches, OrderOf, Has
  <2> QED BY <2>1, <2>2
<1> QED BY <1>1, <1>2, <1>6, <1>7 DEF OrderMatches, InOrder, OrderOf, Has

LEMMA SavingSingularKeepsFiles ==
  ASSUME RecordInv, SavePhase, cmd.phase \in Singular
  PROVE  FilesInv'
<1> DEFINE q == change.phases["quality"]
           h == change.history
<1>1. /\ FilesInv /\ FileType /\ SingularInv /\ BatchesInv /\ QualityInv /\ IsLog(h)
      /\ cmd.item.allowed => cmd.phase = "requirements"
      /\ cmd.item.detail = Len(h) + (IF cmd.phase = "quality" /\ Has(change.phases, "quality") THEN 1 ELSE 0)
  BY DEF RecordInv, FilesInv, FileType, PendingPhase, SavePhase
<1>2. /\ UNCHANGED <<order, tree, cycles, waivers>> /\ cmd' = NoCommand
      /\ MayRecordFullSet(cmd.phase, cmd.item.allowed)
      /\ change' = [phases |-> change'.phases, batches |-> change'.batches, history |-> change'.history]
      /\ IsFunction(change'.phases) /\ DOMAIN change'.phases = DOMAIN change.phases \union {cmd.phase}
      /\ change'.phases[cmd.phase] = cmd.item
      /\ \A f \in DOMAIN change.phases : f # cmd.phase => change'.phases[f] = change.phases[f]
      /\ change'.batches = change.batches /\ FullBatch' = FullBatch /\ Batches' = Batches
      /\ change'.history = IF cmd.phase = "quality" /\ Has(change.phases, "quality")
                           THEN Append(h, q) ELSE h
  BY SavedSingular
<1>3. /\ cmd.item.order = Len(order) /\ Len(order) \in Nat /\ cmd.item.fp = currentFingerprints(cmd.phase)
      /\ \A phase \in DOMAIN change.phases : change.phases[phase].order < Len(order)
      /\ \A i \in DOMAIN h : h[i].order < Len(order)
  BY PendingItem
<1>4. \A phase : Has(change.phases, phase) => OrderOf(phase) < Len(order)
  BY <1>3 DEF OrderOf, Has
<1>5. /\ OrderMatches'
      /\ CoveredBy("green")' = CoveredBy("green")
  BY <1>2, SingularOrder DEF CoveredBy
<1>6. cmd.phase \in Singular /\ cmd.phase \in Singular \union Batched
  OBVIOUS
<1>7. CASE cmd.phase = "quality"
  <2>1. Recorded /\ MayRecordQuality
    BY <1>2, <1>7 DEF MayRecordFullSet
  <2>2. /\ ~qualityHistoryIssue /\ Requirements \subseteq CoveredBy("green")
    BY <2>1 DEF MayRecordQuality
  <2>3. FileType'
    <3>1. IsLog(change'.history)
      <4>1. CASE Has(change.phases, "quality")
        BY <1>1, <1>2, <1>7, <4>1, AppendToLog
      <4>2. CASE ~Has(change.phases, "quality")
        BY <1>1, <1>2, <4>2
      <4> QED BY <4>1, <4>2
    <3> QED BY <1>1, <1>2, <1>6, <3>1 DEF FileType, BatchType
  <2>4. \A f : f # "quality" => (Has(change'.phases, f) <=> Has(change.phases, f))
                 /\ (Has(change.phases, f) => change'.phases[f] = change.phases[f])
                 /\ OrderOf(f)' = OrderOf(f)
    BY <1>2, <1>7 DEF Has, OrderOf
  <2>5. SingularInv'
    <3>1. Recorded'
      BY <1>2, <2>1 DEF Recorded
    <3>2. /\ Has(change'.phases, "requirements") <=> Has(change.phases, "requirements")
          /\ Has(change.phases, "requirements") => change'.phases["requirements"] = change.phases["requirements"]
          /\ Has(change'.phases, "design") <=> Has(change.phases, "design")
          /\ Has(change.phases, "design") => change'.phases["design"] = change.phases["design"]
          /\ change'.phases["impact"] = change.phases["impact"]
          /\ OrderOf("impact")' = OrderOf("impact") /\ OrderOf("requirements")' = OrderOf("requirements")
          /\ OrderOf("design")' = OrderOf("design")
      BY <2>1, <2>4 DEF Recorded, Has
    <3> QED BY <1>1, <3>1, <3>2 DEF SingularInv
  <2>6. BatchesInv'
    <3>1. /\ Has(change'.phases, "design") <=> Has(change.phases, "design")
          /\ Has(change.phases, "design") => change'.phases["design"] = change.phases["design"]
          /\ OrderOf("design")' = OrderOf("design")
      BY <2>4
    <3>2. ASSUME NEW b, BatchInv(b) PROVE BatchInv(b)'
      BY <1>2, <3>1, <3>2 DEF BatchInv
    <3> QED BY <1>1, <1>2, <3>2 DEF BatchesInv
  <2>7. ~qualityHistoryIssue'
    <3>1. CASE Has(change.phases, "quality")
      <4>1. /\ IsLog(Append(h, q)) /\ DOMAIN h = 1..Len(h) /\ Len(h) \in Nat
            /\ DOMAIN Append(h, q) = 1..(Len(h) + 1) /\ Len(Append(h, q)) = Len(h) + 1
            /\ \A i \in DOMAIN h : Append(h, q)[i] = h[i]
            /\ Append(h, q)[Len(h) + 1] = q
        <5> HIDE DEF q, h
        <5> QED BY <1>1, AppendToLog
      <4> DEFINE t == Append(h, q)
      <4>2. change'.history = t /\ "quality" \in DOMAIN change'.phases /\ change'.phases["quality"] = cmd.item
        BY <1>2, <1>7, <3>1
      <4>3. /\ q.detail = Len(h) /\ q.order < Len(order)
            /\ \A i \in DOMAIN h : /\ h[i].detail = i - 1 /\ ~(h[i].order >= q.order)
                                   /\ ~(i > 1 /\ h[i].order <= h[i - 1].order)
        BY <1>3, <2>2, <3>1 DEF qualityHistoryIssue, Has
      <4>4. cmd.item.detail = Len(h) + 1
        BY <1>1, <1>7, <3>1
      <4>5. /\ q.order \in Nat /\ \A i \in DOMAIN h : h[i].order \in Nat
        BY <1>1, <3>1, OrdersAreRecorded DEF Has
      <4> HIDE DEF t, q, h
      <4>6. \A i \in DOMAIN t : (i \in DOMAIN h /\ t[i] = h[i]) \/ (i = Len(h) + 1 /\ t[i] = q)
        BY <4>1 DEF t
      <4>7. \A i \in DOMAIN t : t[i].detail = i - 1
        BY <4>1, <4>3, <4>6
      <4>8. \A i \in DOMAIN t : t[i].order \in Nat /\ t[i].order < cmd.item.order
        BY <1>3, <4>3, <4>5, <4>6 DEF h
      <4>9. \A i \in DOMAIN t : i > 1 => t[i].order > t[i - 1].order
        <5> SUFFICES ASSUME NEW i \in DOMAIN t, i > 1 PROVE t[i].order > t[i - 1].order
          OBVIOUS
        <5>1. i - 1 \in DOMAIN h /\ t[i - 1] = h[i - 1] /\ i \in Nat
          BY <4>1 DEF t
        <5>2. CASE i \in DOMAIN h /\ t[i] = h[i]
          BY <4>3, <4>5, <5>1, <5>2
        <5>3. CASE t[i] = q
          BY <4>3, <4>5, <5>1, <5>3
        <5> QED BY <4>6, <5>2, <5>3
      <4>10. Len(t) = Len(h) + 1
        BY <4>1 DEF t
      <4> QED BY <1>3, <4>1, <4>2, <4>4, <4>7, <4>8, <4>9, <4>10 DEF qualityHistoryIssue, Has
    <3>2. CASE ~Has(change.phases, "quality")
      <4>1. h = <<>>
        BY <2>2, <3>2 DEF qualityHistoryIssue
      <4>2. change'.history = <<>> /\ "quality" \in DOMAIN change'.phases /\ change'.phases["quality"] = cmd.item
        BY <1>2, <1>7, <3>2, <4>1
      <4>3. cmd.item.detail = 0
        BY <1>1, <3>2, <4>1
      <4> QED BY <4>2, <4>3 DEF qualityHistoryIssue, Has
    <3> QED BY <3>1, <3>2
  <2>8. QualityInv'
    BY <1>5, <2>2, <2>7 DEF QualityInv
  <2> QED BY <1>5, <2>3, <2>5, <2>6, <2>8 DEF FilesInv
<1>8. CASE cmd.phase # "quality"
  <2>1. change'.history = h
    BY <1>2, <1>8
  <2>2. FileType'
    BY <1>1, <1>2, <1>6, <2>1 DEF FileType, BatchType
  <2>3. cmd.phase \in {"impact", "requirements", "design"}
    BY <1>8 DEF Singular
  <2>4. ~Has(change.phases, cmd.phase)
    BY <1>2, <1>8, <2>3 DEF MayRecordFullSet, Recorded, Has
  <2>5. ~Has(change.phases, "design")
    BY <1>1, <1>2, <2>3, <2>4 DEF SingularInv, Recorded, Has
  <2>6. BatchesInv'
    BY <1>1, <1>2, <2>5, NoDesignNoBatch DEF BatchesInv
  <2>7. QualityInv'
    <3>1. /\ Has(change'.phases, "quality") <=> Has(change.phases, "quality")
          /\ Has(change.phases, "quality") => change'.phases["quality"] = q
      BY <1>2, <1>8 DEF Has
    <3>2. ~qualityHistoryIssue'
      BY <1>1, <2>1, <3>1 DEF QualityInv, qualityHistoryIssue
    <3> QED BY <1>1, <1>5, <3>1, <3>2 DEF QualityInv
  <2>8. SingularInv'
    <3>1. CASE cmd.phase = "impact"
      <4>1. DOMAIN change'.phases = {"impact"}
        BY <1>1, <1>2, <2>4, <3>1 DEF SingularInv, Recorded, Has
      <4> QED BY <4>1 DEF SingularInv, Recorded, Has
    <3>2. CASE cmd.phase = "requirements"
      <4>1. /\ Has(change.phases, "impact")
            /\ cmd.item.allowed \/ tree.req # change.phases["impact"].fp.req
        BY <1>2, <3>2 DEF MayRecordFullSet, Before, unchangedRejection
      <4>2. change'.phases["requirements"] = cmd.item /\ change'.phases["impact"] = change.phases["impact"]
        BY <1>2, <3>2, <4>1 DEF Has
      <4>3. Recorded' /\ Has(change'.phases, "requirements") /\ ~Has(change'.phases, "design")
        BY <1>2, <2>5, <3>2, <4>1 DEF Recorded, Has
      <4>4. cmd.item.fp.req = tree.req
        BY <1>3, <3>2, Fingerprints
      <4>5. OrderOf("requirements")' > OrderOf("impact")'
        BY <1>3, <4>1, <4>2, <4>3 DEF OrderOf, Recorded, Has
      <4> QED BY <4>1, <4>2, <4>3, <4>4, <4>5 DEF SingularInv
    <3>3. CASE cmd.phase = "design"
      <4>1. /\ Has(change.phases, "requirements") /\ tree.design # change.phases["requirements"].fp.design
        BY <1>1, <1>2, <3>3 DEF MayRecordFullSet, Before, unchangedRejection
      <4>2. Recorded
        BY <1>1, <4>1 DEF SingularInv, Has
      <4>3. /\ change'.phases["design"] = cmd.item /\ change'.phases["impact"] = change.phases["impact"]
            /\ change'.phases["requirements"] = change.phases["requirements"]
        BY <1>2, <3>3, <4>1, <4>2 DEF Has, Recorded
      <4>4. Recorded' /\ Has(change'.phases, "requirements") /\ Has(change'.phases, "design")
        BY <1>2, <3>3, <4>1, <4>2 DEF Recorded, Has
      <4>5. cmd.item.fp.design = tree.design
        BY <1>3, <3>3, Fingerprints
      <4>6. OrderOf("design")' > OrderOf("requirements")'
        BY <1>3, <4>1, <4>3, <4>4 DEF OrderOf, Has
      <4>7. OrderOf("requirements")' = OrderOf("requirements") /\ OrderOf("impact")' = OrderOf("impact")
        BY <4>1, <4>2, <4>3, <4>4 DEF OrderOf, Recorded, Has
      <4> QED BY <1>1, <4>1, <4>2, <4>3, <4>4, <4>5, <4>6, <4>7 DEF SingularInv
    <3> QED BY <2>3, <3>1, <3>2, <3>3
  <2> QED BY <1>5, <2>2, <2>6, <2>7, <2>8 DEF FilesInv
<1> QED BY <1>7, <1>8

-----------------------------------------------------------------------------
(* The reason of a waiver: what is reported can be read off the evidence that*)
(* the waiver is bound to, and back.                                         *)
LEMMA ProvenIsValid ==
  ASSUME FilesInv, NEW r
  PROVE  hasValidTddCycle(r) <=> Proven(OrderOf("requirements"), batchFor(r).ev, RunsOf(r))
<1>1. Has(change.phases, "requirements") <=> OrderOf("requirements") # 0
  BY OrdersAreRecorded DEF OrderOf, Has
<1>2. Has(change.phases, "requirements") => OrderOf("requirements") = change.phases["requirements"].order
  BY DEF OrderOf
<1> DEFINE ev == batchFor(r).ev
           reds == (OrderOf("requirements") + 1)..ev["red"].order
           greens == (ev["implementation"].order + 1)..ev["green"].order
<1>3. (\E i \in DOMAIN cycles : cycles[i].requirement = r /\ cycles[i].red \in reds /\ cycles[i].green \in greens)
        <=> \E run \in RunsOf(r) : run.red \in reds /\ run.green \in greens
  <2> HIDE DEF reds, greens
  <2>1. ASSUME NEW i \in DOMAIN cycles, cycles[i].requirement = r, cycles[i].red \in reds, cycles[i].green \in greens
        PROVE  \E run \in RunsOf(r) : run.red \in reds /\ run.green \in greens
    <3>1. [red |-> cycles[i].red, green |-> cycles[i].green] \in RunsOf(r)
      BY <2>1 DEF RunsOf
    <3> QED BY <2>1, <3>1
  <2>2. ASSUME NEW run \in RunsOf(r), run.red \in reds, run.green \in greens
        PROVE  \E i \in DOMAIN cycles : cycles[i].requirement = r /\ cycles[i].red \in reds /\ cycles[i].green \in greens
    <3>1. PICK i \in DOMAIN cycles : /\ cycles[i].requirement = r
                                     /\ run = [red |-> cycles[i].red, green |-> cycles[i].green]
      BY <2>2 DEF RunsOf
    <3> QED BY <2>2, <3>1
  <2> QED BY <2>1, <2>2
<1>4. hasValidTddCycle(r) <=>
        /\ Has(change.phases, "requirements") /\ Batched \subseteq DOMAIN ev
        /\ \E i \in DOMAIN cycles : cycles[i].requirement = r /\ cycles[i].red \in reds /\ cycles[i].green \in greens
  BY <1>2 DEF hasValidTddCycle
<1>5. Proven(OrderOf("requirements"), ev, RunsOf(r)) <=>
        /\ OrderOf("requirements") # 0 /\ Batched \subseteq DOMAIN ev
        /\ \E run \in RunsOf(r) : run.red \in reds /\ run.green \in greens
  BY DEF Proven
<1> QED BY <1>1, <1>3, <1>4, <1>5

LEMMA Snapshots ==
  ASSUME NEW scope
  PROVE  /\ scope[1] \in Proofs =>
              /\ snapshotPayload(scope)[1] = OrderOf("requirements")
              /\ snapshotPayload(scope)[2] = batchFor(scope[2]).ev
              /\ snapshotPayload(scope)[3] = RunsOf(scope[2])
         /\ scope[1] = "CHANGE_ORDER_MIGRATION_REQUIRED" => snapshotPayload(scope)[1] = RunsOf(scope[2])
         /\ scope[1] = "CHANGE_PHASE_MISSING" /\ scope[2] \in Batched =>
              snapshotPayload(scope)[1] = Requirements \ CoveredBy(scope[2])
         /\ scope[1] = "CHANGE_PHASE_MISSING" /\ scope[2] \in Singular =>
              snapshotPayload(scope)[1] = OrderOf(scope[2])
         /\ scope[1] = "CHANGE_TEST_CHANGED_AFTER_RED" =>
              /\ snapshotPayload(scope)[1] = TestsOf(batchForKey(scope[2]), "red")
              /\ snapshotPayload(scope)[2] = TestsOf(batchForKey(scope[2]), "green")
<1>1. scope[1] \in Proofs =>
        snapshotPayload(scope) = <<OrderOf("requirements"), batchFor(scope[2]).ev, RunsOf(scope[2])>>
  BY DEF snapshotPayload, Proofs
<1>2. scope[1] = "CHANGE_ORDER_MIGRATION_REQUIRED" => snapshotPayload(scope) = <<RunsOf(scope[2])>>
  BY DEF snapshotPayload, Proofs
<1>3. scope[1] = "CHANGE_PHASE_MISSING" /\ scope[2] \in Batched =>
        snapshotPayload(scope) = <<Requirements \ CoveredBy(scope[2])>>
  BY DEF snapshotPayload, Proofs, Singular, Batched
<1>4. scope[1] = "CHANGE_PHASE_MISSING" /\ scope[2] \in Singular =>
        snapshotPayload(scope) = <<OrderOf(scope[2])>>
  BY DEF snapshotPayload, Proofs, Singular, Batched
<1>5. scope[1] = "CHANGE_TEST_CHANGED_AFTER_RED" =>
        snapshotPayload(scope) = <<TestsOf(batchForKey(scope[2]), "red"), TestsOf(batchForKey(scope[2]), "green")>>
  BY DEF snapshotPayload, Proofs
<1> QED BY <1>1, <1>2, <1>3, <1>4, <1>5

LEMMA CoveredByRed ==
  ASSUME FilesInv, NEW r
  PROVE  Has(batchFor(r).ev, "red") <=> r \in CoveredBy("red")
<1>1. IsLog(change.batches) /\ \A b \in Batches : Has(b.ev, "red")
  BY DEF FilesInv, FileType, BatchesInv, BatchInv
<1>2. DOMAIN NoBatch.ev = {}
  BY EmptyRecord DEF NoBatch
<1> QED BY <1>1, <1>2, BatchOf DEF CoveredBy, Has

LEMMA ReportedIsWarranted ==
  ASSUME FilesInv, NEW scope \in Reported
  PROVE  Warranted(scope, snapshotPayload(scope))
<1>1. CASE ~Recorded
  BY <1>1 DEF Reported, Warranted
<1>2. CASE Recorded
  <2> DEFINE snap == snapshotPayload(scope)
  <2>1. CASE scope \in {<<"CHANGE_PHASE_MISSING", phase>> : phase \in {ph \in Singular \union Batched : phaseMissing(ph)}}
    <3>1. PICK phase \in Singular \union Batched : scope = <<"CHANGE_PHASE_MISSING", phase>> /\ phaseMissing(phase)
      BY <2>1
    <3>2. CASE phase \in Batched
      <4>1. snap[1] = Requirements \ CoveredBy(phase)
        BY <3>1, <3>2, Snapshots
      <4> QED BY <3>1, <3>2, <4>1 DEF Warranted, phaseMissing
    <3>3. CASE phase \notin Batched
      <4>1. snap[1] = OrderOf(phase)
        BY <3>1, <3>3, Snapshots
      <4> QED BY <3>1, <3>3, <4>1 DEF Warranted, phaseMissing, OrderOf
    <3> QED BY <3>2, <3>3
  <2>2. ASSUME NEW r \in Requirements, NEW code \in Proofs, scope = <<code, r>>, ~hasValidTddCycle(r),
               code = "CHANGE_RED_UNPROVEN" => Has(batchFor(r).ev, "red"),
               code = "CHANGE_GREEN_UNPROVEN" => Has(batchFor(r).ev, "green")
        PROVE  Warranted(scope, snap)
    <3>1. /\ snap[1] = OrderOf("requirements") /\ snap[2] = batchFor(r).ev /\ snap[3] = RunsOf(r)
          /\ scope[1] = code /\ scope[2] = r
      BY <2>2, Snapshots
    <3>2. ~Proven(snap[1], snap[2], snap[3])
      BY <2>2, <3>1, ProvenIsValid
    <3> QED BY <2>2, <3>1, <3>2 DEF Warranted
  <2>3. CASE scope \in {<<"CHANGE_RED_UNPROVEN", r>> :
                          r \in {q \in Requirements : Has(batchFor(q).ev, "red") /\ ~hasValidTddCycle(q)}}
    <3>1. PICK r \in Requirements : /\ scope = <<"CHANGE_RED_UNPROVEN", r>>
                                    /\ Has(batchFor(r).ev, "red") /\ ~hasValidTddCycle(r)
      BY <2>3
    <3> QED BY <2>2, <3>1 DEF Proofs
  <2>4. CASE scope \in {<<"CHANGE_GREEN_UNPROVEN", r>> :
                          r \in {q \in Requirements : Has(batchFor(q).ev, "green") /\ ~hasValidTddCycle(q)}}
    <3>1. PICK r \in Requirements : /\ scope = <<"CHANGE_GREEN_UNPROVEN", r>>
                                    /\ Has(batchFor(r).ev, "green") /\ ~hasValidTddCycle(r)
      BY <2>4
    <3> QED BY <2>2, <3>1 DEF Proofs
  <2>5. CASE scope \in {<<"CHANGE_COMPLETENESS_TDD", r>> : r \in {q \in Requirements : ~hasValidTddCycle(q)}}
    <3>1. PICK r \in Requirements : scope = <<"CHANGE_COMPLETENESS_TDD", r>> /\ ~hasValidTddCycle(r)
      BY <2>5
    <3> QED BY <2>2, <3>1 DEF Proofs
  <2>6. CASE scope \in {<<"CHANGE_ORDER_MIGRATION_REQUIRED", r>> :
                          r \in {q \in Requirements : Has(batchFor(q).ev, "red") /\ <<q, 0>> \in Greens}}
    <3>1. PICK r \in Requirements : /\ scope = <<"CHANGE_ORDER_MIGRATION_REQUIRED", r>>
                                    /\ Has(batchFor(r).ev, "red") /\ <<r, 0>> \in Greens
      BY <2>6
    <3>2. PICK i \in DOMAIN cycles : cycles[i].requirement = r /\ cycles[i].green = 0
      BY <3>1 DEF Greens
    <3>3. [red |-> cycles[i].red, green |-> cycles[i].green] \in RunsOf(r)
      BY <3>2 DEF RunsOf
    <3>4. \E run \in RunsOf(r) : run.green = 0
      BY <3>2, <3>3
    <3>5. snap[1] = RunsOf(r) /\ scope[1] = "CHANGE_ORDER_MIGRATION_REQUIRED" /\ scope[2] = r
      BY <3>1, Snapshots
    <3>6. r \in CoveredBy("red")
      BY <3>1, CoveredByRed
    <3> QED BY <3>1, <3>4, <3>5, <3>6 DEF Warranted
  <2>7. CASE scope \in {<<"CHANGE_TEST_CHANGED_AFTER_RED", b.ids>> : b \in {c \in Batches : testChangedAfterRed(c)}}
    <3>1. PICK b \in Batches : scope = <<"CHANGE_TEST_CHANGED_AFTER_RED", b.ids>> /\ testChangedAfterRed(b)
      BY <2>7
    <3>2. batchForKey(b.ids) = b
      BY BatchOfKey, BatchesDiffer DEF FilesInv, FileType
    <3>3. /\ snap[1] = TestsOf(b, "red") /\ snap[2] = TestsOf(b, "green")
          /\ scope[1] = "CHANGE_TEST_CHANGED_AFTER_RED"
      BY <3>1, <3>2, Snapshots
    <3>4. snap[1] = <<b.ev["red"].fp.tests>> /\ snap[2] = <<b.ev["green"].fp.tests>>
      BY <3>1, <3>3 DEF TestsOf, testChangedAfterRed, Has
    <3>5. b.ev["red"].fp.tests # b.ev["green"].fp.tests
      BY <3>1 DEF testChangedAfterRed
    <3> QED BY <3>1, <3>3, <3>4, <3>5 DEF Warranted
  <2> QED BY <1>2, <2>1, <2>3, <2>4, <2>5, <2>6, <2>7 DEF Reported
<1> QED BY <1>1, <1>2

LEMMA WarrantedIsReported ==
  ASSUME FilesInv, NEW scope, Warranted(scope, snapshotPayload(scope)),
         scope[1] = "CHANGE_RECORD_MISSING" <=> ~Recorded
  PROVE  scope \in Reported
<1> DEFINE snap == snapshotPayload(scope)
<1>1. CASE scope[1] = "CHANGE_RECORD_MISSING" /\ scope[2] = {}
  <2>1. scope = <<"CHANGE_RECORD_MISSING", {}>> /\ ~Recorded
    BY <1>1 DEF Warranted
  <2> QED BY <2>1 DEF Reported
<1>2. CASE scope[1] = "CHANGE_PHASE_MISSING" /\ scope[2] \in Batched /\ snap[1] # {}
  <2>1. scope = <<"CHANGE_PHASE_MISSING", scope[2]>> /\ Recorded
    BY <1>2 DEF Warranted
  <2>2. phaseMissing(scope[2])
    BY <1>2, Snapshots DEF phaseMissing
  <2> QED BY <1>2, <2>1, <2>2 DEF Reported
<1>3. CASE scope[1] = "CHANGE_PHASE_MISSING" /\ scope[2] \in Singular /\ snap[1] = 0
  <2>1. scope = <<"CHANGE_PHASE_MISSING", scope[2]>> /\ Recorded
    BY <1>3 DEF Warranted
  <2>2. OrderOf(scope[2]) = 0
    BY <1>3, Snapshots
  <2>3. ~Has(change.phases, scope[2])
    BY <2>2, OrdersAreRecorded DEF OrderOf, Has
  <2>4. phaseMissing(scope[2])
    BY <1>3, <2>3 DEF phaseMissing, Singular, Batched
  <2> QED BY <1>3, <2>1, <2>4 DEF Reported
<1>4. CASE /\ scope[1] \in Proofs /\ scope[2] \in Requirements
           /\ ~Proven(snap[1], snap[2], snap[3])
           /\ scope[1] = "CHANGE_RED_UNPROVEN" => Has(snap[2], "red")
           /\ scope[1] = "CHANGE_GREEN_UNPROVEN" => Has(snap[2], "green")
  <2>1. scope = <<scope[1], scope[2]>> /\ Recorded
    BY <1>4 DEF Warranted, Proofs
  <2>2. /\ snap[1] = OrderOf("requirements") /\ snap[2] = batchFor(scope[2]).ev /\ snap[3] = RunsOf(scope[2])
    BY <1>4, Snapshots
  <2>3. ~hasValidTddCycle(scope[2])
    BY <1>4, <2>2, ProvenIsValid
  <2> HIDE DEF snap
  <2>4. CASE scope[1] = "CHANGE_RED_UNPROVEN"
    <3>1. scope = <<"CHANGE_RED_UNPROVEN", scope[2]>> /\ Has(batchFor(scope[2]).ev, "red")
      BY <1>4, <2>1, <2>2, <2>4
    <3> QED BY <1>4, <2>1, <2>3, <3>1 DEF Reported
  <2>5. CASE scope[1] = "CHANGE_GREEN_UNPROVEN"
    <3>1. scope = <<"CHANGE_GREEN_UNPROVEN", scope[2]>> /\ Has(batchFor(scope[2]).ev, "green")
      BY <1>4, <2>1, <2>2, <2>5
    <3> QED BY <1>4, <2>1, <2>3, <3>1 DEF Reported
  <2>6. CASE scope[1] = "CHANGE_COMPLETENESS_TDD"
    <3>1. scope = <<"CHANGE_COMPLETENESS_TDD", scope[2]>>
      BY <2>1, <2>6
    <3> QED BY <1>4, <2>1, <2>3, <3>1 DEF Reported
  <2> QED BY <1>4, <2>4, <2>5, <2>6 DEF Proofs
<1>5. CASE /\ scope[1] = "CHANGE_ORDER_MIGRATION_REQUIRED" /\ scope[2] \in Requirements
           /\ scope[2] \in CoveredBy("red") /\ \E run \in snap[1] : run.green = 0
  <2>1. scope = <<"CHANGE_ORDER_MIGRATION_REQUIRED", scope[2]>> /\ Recorded
    BY <1>5 DEF Warranted
  <2>2. \E run \in RunsOf(scope[2]) : run.green = 0
    BY <1>5, Snapshots
  <2>3. <<scope[2], 0>> \in Greens
    <3>1. PICK i \in DOMAIN cycles : cycles[i].requirement = scope[2] /\ cycles[i].green = 0
      BY <2>2 DEF RunsOf
    <3> QED BY <3>1 DEF Greens
  <2>4. Has(batchFor(scope[2]).ev, "red")
    BY <1>5, CoveredByRed
  <2> QED BY <1>5, <2>1, <2>3, <2>4 DEF Reported
<1>6. CASE /\ scope[1] = "CHANGE_TEST_CHANGED_AFTER_RED"
           /\ snap[1] # <<>> /\ snap[2] # <<>> /\ snap[1] # snap[2]
  <2> DEFINE b == batchForKey(scope[2])
  <2>1. scope = <<"CHANGE_TEST_CHANGED_AFTER_RED", scope[2]>> /\ Recorded
    BY <1>6 DEF Warranted
  <2>2. snap[1] = TestsOf(b, "red") /\ snap[2] = TestsOf(b, "green")
    BY <1>6, Snapshots
  <2>3. /\ {"red", "green"} \subseteq DOMAIN b.ev
        /\ b.ev["red"].fp.tests # b.ev["green"].fp.tests
    <3> HIDE DEF b, snap
    <3> QED BY <1>6, <2>2 DEF TestsOf, Has
  <2>4. b \in Batches /\ b.ids = scope[2]
    <3>1. b # NoBatch
      BY <2>3, EmptyRecord DEF NoBatch
    <3> QED BY <3>1, BatchOfKey DEF FilesInv, FileType
  <2>5. testChangedAfterRed(b)
    BY <2>3 DEF testChangedAfterRed
  <2>6. scope = <<"CHANGE_TEST_CHANGED_AFTER_RED", b.ids>>
    BY <2>1, <2>4
  <2> HIDE DEF b
  <2> QED BY <2>1, <2>4, <2>5, <2>6 DEF Reported
<1> QED BY <1>1, <1>2, <1>3, <1>4, <1>5, <1>6 DEF Warranted

-----------------------------------------------------------------------------
(* The invariants hold initially and every step keeps them.                  *)
ChangeInv == RecordInv /\ CyclesInv /\ WaiversInv

LEMMA InitIsIntact == Init => ChangeInv
<1> SUFFICES ASSUME Init PROVE ChangeInv
  OBVIOUS
<1>1. /\ order = <<>> /\ change = [phases |-> <<>>, batches |-> <<>>, history |-> <<>>]
      /\ cycles = <<>> /\ waivers = <<>> /\ cmd.op = "none"
      /\ tree = [doc |-> 0, req |-> 0, design |-> 0,
                 tests |-> [r \in Requirements |-> 0], code |-> [u \in Units |-> 0]]
  BY DEF Init, NoChange, NoCommand
<1>2. DOMAIN FullBatch.ev = {}
  BY <1>1, EmptyRecord, FullBatchIs
<1>3. Batches = {}
  BY <1>1, <1>2, EmptyLog, EmptyRecord, BatchesAre
<1>4. FileType
  BY <1>1, EmptyLog, EmptyRecord DEF FileType
<1>5. TreeType
  BY <1>1 DEF TreeType
<1>6. Checkpoints = {} /\ \A phase : ~Has(change.phases, phase)
  BY <1>1, EmptyRecord DEF Checkpoints, Has
<1>7. OrderMatches
  BY <1>1, <1>3, <1>6, EmptyRecord DEF OrderMatches, CheckpointsInOrder
<1>8. SingularInv /\ BatchesInv
  BY <1>1, <1>3, <1>6, EmptyRecord DEF SingularInv, BatchesInv
<1>9. QualityInv
  BY <1>1, <1>6, EmptyRecord DEF QualityInv, qualityHistoryIssue
<1>10. RecordInv
  BY <1>1, <1>4, <1>5, <1>7, <1>8, <1>9 DEF RecordInv, FilesInv, PendingPhase
<1>11. CyclesInv /\ WaiversInv
  BY <1>1, EmptyLog, EmptyRecord DEF CyclesInv, WaiversInv
<1> QED BY <1>10, <1>11 DEF ChangeInv

(* A step that changes neither the change nor what is pending of it.         *)
LEMMA OtherStepKeepsRecord ==
  ASSUME RecordInv, TreeType', change' = change, LogKept, Upto(tree.code, tree'.code),
         cmd'.op \in {"none", "waiver"}
  PROVE  RecordInv'
<1>1. FilesInv'
  BY SameFiles DEF RecordInv
<1> QED BY <1>1 DEF RecordInv, PendingPhase

LEMMA SameCycles ==
  ASSUME ChangeInv, TreeType', change' = change, LogKept, Upto(tree.code, tree'.code), cycles' = cycles
  PROVE  CyclesInv'
BY SameCycle DEF ChangeInv, RecordInv, CyclesInv

LEMMA SameWaivers ==
  ASSUME ChangeInv, change' = change, LogKept, waivers' = waivers, cmd'.op # "waiver" \/ cmd' = cmd
  PROVE  WaiversInv'
<1>1. IsLog(order) /\ WaiversInv
  BY DEF ChangeInv, RecordInv, FilesInv, FileType
<1>2. \A i \in DOMAIN waivers : WaiverInv(waivers[i])'
  BY <1>1, SameWaiver DEF WaiversInv
<1>3. cmd' = cmd /\ cmd.op = "waiver" => WaiverInv(cmd.waiver)'
  <2>1. ASSUME NEW w, WaiverInv(w) PROVE WaiverInv(w)'
    BY <1>1, <2>1, SameWaiver
  <2>2. ASSUME cmd' = cmd, cmd.op = "waiver" PROVE WaiverInv(cmd.waiver)'
    <3>1. WaiverInv(cmd.waiver)
      BY <1>1, <2>2 DEF WaiversInv
    <3>2. InOrder(<<"waiver", cmd.waiver.scope>>, "waiver", cmd.waiver.order)'
      BY <1>1, <2>2, <3>1, LogGrows DEF WaiverInv, InOrder
    <3>3. Warranted(cmd.waiver.scope, cmd.waiver.snapshot)'
      BY <2>2, <3>1, SameOrders DEF WaiverInv, Warranted
    <3> QED BY <3>2, <3>3 DEF WaiverInv
  <2> QED BY <2>2
<1> QED BY <1>1, <1>2, <1>3 DEF WaiversInv

LEMMA RecordingIsIntact ==
  ASSUME ChangeInv, NEW phase, NEW ids, NEW allowed, MayBegin(phase, ids, allowed),
         recordChangePhase(phase, ids, allowed)
  PROVE  ChangeInv'
<1>1. RecordInv'
  BY RecordingIsPending DEF ChangeInv
<1>2. /\ change' = change /\ tree' = tree /\ cycles' = cycles /\ waivers' = waivers
      /\ LogKept /\ cmd'.op = "phase"
  BY AppendedRecord DEF recordChangePhase, ChangeInv, RecordInv, FilesInv, FileType
<1>3. TreeType' /\ Upto(tree.code, tree'.code)
  BY <1>2, SameTree DEF ChangeInv, RecordInv
<1> QED BY <1>1, <1>2, <1>3, SameCycles, SameWaivers DEF ChangeInv

LEMMA WaivingIsIntact ==
  ASSUME ChangeInv, NEW scope, recordChangeWaiver(scope)
  PROVE  ChangeInv'
<1> DEFINE snap == snapshotPayload(scope)
<1>1. /\ change' = change /\ tree' = tree /\ cycles' = cycles /\ waivers' = waivers
      /\ scope \in Reported /\ FilesInv /\ IsLog(order) /\ WaiversInv
      /\ appendEvidenceOrder("change", <<"waiver", scope>>, "waiver")
      /\ cmd' = [op |-> "waiver", waiver |-> [scope |-> scope, snapshot |-> snap, order |-> Len(order) + 1]]
  BY DEF recordChangeWaiver, ChangeInv, RecordInv, FilesInv, FileType
<1>2. /\ LogKept /\ Len(order') = Len(order) + 1
      /\ Len(order') \in DOMAIN order'
      /\ order'[Len(order')] = Record("change", <<"waiver", scope>>, "waiver", Len(order'))
  BY <1>1, AppendedRecord
<1>3. TreeType' /\ Upto(tree.code, tree'.code)
  BY <1>1, SameTree DEF ChangeInv, RecordInv
<1>4. Warranted(scope, snap)
  BY <1>1, ReportedIsWarranted
<1> HIDE DEF snap
<1>5. /\ cmd'.op = "waiver" /\ cmd'.waiver.scope = scope /\ cmd'.waiver.snapshot = snap
      /\ cmd'.waiver.order = Len(order')
  BY <1>1, <1>2
<1>6. WaiverInv(cmd.waiver)'
  <2>1. Warranted(cmd.waiver.scope, cmd.waiver.snapshot)'
    BY <1>1, <1>4, <1>5, SameOrders DEF Warranted
  <2>2. InOrder(<<"waiver", cmd.waiver.scope>>, "waiver", cmd.waiver.order)'
    BY <1>2, <1>5 DEF InOrder
  <2> QED BY <2>1, <2>2 DEF WaiverInv
<1>7. \A i \in DOMAIN waivers : WaiverInv(waivers[i])'
  BY <1>1, <1>2, SameWaiver DEF WaiversInv
<1>8. WaiversInv'
  BY <1>1, <1>6, <1>7 DEF WaiversInv
<1> QED BY <1>1, <1>2, <1>3, <1>5, <1>8, OtherStepKeepsRecord, SameCycles DEF ChangeInv

LEMMA SaveWaiverIsIntact ==
  ASSUME ChangeInv, SaveWaiver PROVE ChangeInv'
<1>1. /\ UNCHANGED <<order, tree, change, cycles>> /\ cmd' = NoCommand
      /\ waivers' = Append(waivers, cmd.waiver)
      /\ IsLog(order) /\ WaiversInv /\ WaiverInv(cmd.waiver) /\ LogKept
  BY DEF SaveWaiver, ChangeInv, RecordInv, FilesInv, FileType, WaiversInv, LogKept
<1>2. TreeType' /\ Upto(tree.code, tree'.code)
  BY <1>1, SameTree DEF ChangeInv, RecordInv
<1>3. cmd'.op = "none"
  BY <1>1 DEF NoCommand
<1> DEFINE w == cmd.waiver
           t == Append(waivers, w)
<1> HIDE DEF w
<1>4. /\ IsLog(t) /\ DOMAIN waivers = 1..Len(waivers) /\ Len(waivers) \in Nat
      /\ DOMAIN t = 1..(Len(waivers) + 1)
      /\ \A i \in DOMAIN waivers : t[i] = waivers[i]
      /\ t[Len(waivers) + 1] = w
  BY <1>1, AppendToLog DEF WaiversInv
<1> HIDE DEF t
<1>5. \A i \in DOMAIN t : (i \in DOMAIN waivers /\ t[i] = waivers[i]) \/ t[i] = w
  BY <1>4
<1>6. \A i \in DOMAIN t : WaiverInv(t[i])
  BY <1>1, <1>5 DEF WaiversInv, w
<1>7. waivers' = t
  BY <1>1 DEF t, w
<1>8. ASSUME NEW v, WaiverInv(v) PROVE WaiverInv(v)'
  BY <1>1, <1>8, SameWaiver
<1>9. \A i \in DOMAIN waivers' : WaiverInv(waivers[i])'
  <2> SUFFICES ASSUME NEW i \in DOMAIN waivers' PROVE WaiverInv(waivers[i])'
    OBVIOUS
  <2>1. WaiverInv(waivers'[i])
    BY <1>6, <1>7
  <2>2. InOrder(<<"waiver", waivers[i].scope>>, "waiver", waivers[i].order)'
    BY <1>1, <2>1 DEF WaiverInv, InOrder
  <2>3. Warranted(waivers[i].scope, waivers[i].snapshot)'
    BY <1>1, <2>1, SameOrders DEF WaiverInv, Warranted
  <2> QED BY <2>2, <2>3 DEF WaiverInv
<1>10. WaiversInv'
  BY <1>3, <1>4, <1>7, <1>9 DEF WaiversInv
<1> QED BY <1>1, <1>2, <1>3, <1>10, OtherStepKeepsRecord, SameCycles DEF ChangeInv

LEMMA CoverageGrows ==
  ASSUME RecordInv, SavePhase, NEW phase
  PROVE  CoveredBy(phase) \subseteq CoveredBy(phase)'
<1>1. CASE cmd.phase \in Singular
  BY <1>1, SavedSingular DEF CoveredBy
<1>2. CASE cmd.phase \in Batched
  <2> SUFFICES ASSUME NEW b \in Batches, Has(b.ev, phase)
               PROVE  \E c \in Batches' : Has(c.ev, phase) /\ c.ids = b.ids
    BY DEF CoveredBy
  <2>1. /\ \A c \in Batches : c.ids # cmd.ids => c \in Batches'
        /\ NewBatch \in Batches'
    BY <1>2, SavedFileType
  <2>2. CASE b.ids # cmd.ids
    BY <2>1, <2>2
  <2>3. CASE b.ids = cmd.ids
    <3>1. OldBatch \in Batches /\ OldBatch.ids = cmd.ids
      BY <1>2, <2>3, PendingBatch DEF SavePhase
    <3>2. OldBatch = b
      BY <2>3, <3>1, BatchesDiffer DEF RecordInv, FilesInv
    <3> QED BY <2>1, <2>3, <3>2, NewBatchIs DEF Has
  <2> QED BY <2>2, <2>3
<1> QED BY <1>1, <1>2 DEF RecordInv, PendingPhase, SavePhase

LEMMA SavePhaseKeepsCycles ==
  ASSUME ChangeInv, SavePhase PROVE CyclesInv'
<1>1. /\ RecordInv /\ CyclesInv /\ UNCHANGED <<order, tree, cycles>>
      /\ cmd.phase \in Singular \/ cmd.phase \in Batched
  BY DEF ChangeInv, SavePhase, RecordInv, PendingPhase
<1>2. \A b \in Batches' : b \in Batches \/ (b = NewBatch /\ cmd.phase \in Batched)
  BY <1>1, SavedSingular, SavedFileType
<1>3. ASSUME NEW c, CycleInv(c), cmd.phase \in Batched
      PROVE  /\ c.red <= NewBatch.ev["red"].order => Upto(c.redTree.code, NewBatch.ev["red"].fp.code)
             /\ Has(NewBatch.ev, "implementation") /\ c.green > NewBatch.ev["implementation"].order =>
                  Upto(NewBatch.ev["implementation"].fp.code, c.greenTree.code)
  <2>1. /\ cmd.item.order = Len(order) /\ Len(order) \in Nat /\ cmd.item.fp = currentFingerprints(cmd.phase)
        /\ c.green \in 0..Len(order) /\ Upto(c.redTree.code, tree.code)
    BY <1>1, <1>3, PendingItem DEF CycleInv, CycleType
  <2>2. /\ DOMAIN NewBatch.ev = DOMAIN OldBatch.ev \union {cmd.phase}
        /\ NewBatch.ev[cmd.phase] = cmd.item
        /\ \A f \in DOMAIN OldBatch.ev : f # cmd.phase => NewBatch.ev[f] = OldBatch.ev[f]
    BY NewBatchIs
  <2>3. \/ OldBatch = NoBatch /\ cmd.phase = "red"
        \/ /\ OldBatch \in Batches /\ "red" \in DOMAIN OldBatch.ev
           /\ cmd.phase = "implementation" \/ (cmd.phase = "green" /\ Has(OldBatch.ev, "implementation"))
    BY <1>1, <1>3, PendingBatch DEF SavePhase, BatchInv, Has
  <2>4. CASE OldBatch = NoBatch /\ cmd.phase = "red"
    <3>1. cmd.item.fp.code = tree.code
      BY <2>1, <2>4, Fingerprints
    <3>2. "implementation" \notin DOMAIN NewBatch.ev
      BY <2>2, <2>4, EmptyRecord DEF NoBatch
    <3> QED BY <2>1, <2>2, <2>4, <3>1, <3>2 DEF Has
  <2>5. CASE OldBatch \in Batches /\ "red" \in DOMAIN OldBatch.ev /\ cmd.phase = "implementation"
    <3>1. NewBatch.ev["red"] = OldBatch.ev["red"]
      BY <2>2, <2>5
    <3>2. ~(c.green > NewBatch.ev["implementation"].order)
      BY <2>1, <2>2, <2>5
    <3>3. c.red <= OldBatch.ev["red"].order => Upto(c.redTree.code, OldBatch.ev["red"].fp.code)
      BY <1>3, <2>5 DEF CycleInv
    <3> QED BY <3>1, <3>2, <3>3
  <2>6. CASE OldBatch \in Batches /\ "red" \in DOMAIN OldBatch.ev /\ cmd.phase = "green"
             /\ Has(OldBatch.ev, "implementation")
    <3>1. NewBatch.ev["red"] = OldBatch.ev["red"] /\ NewBatch.ev["implementation"] = OldBatch.ev["implementation"]
      BY <2>2, <2>6 DEF Has
    <3>2. /\ c.red <= OldBatch.ev["red"].order => Upto(c.redTree.code, OldBatch.ev["red"].fp.code)
          /\ c.green > OldBatch.ev["implementation"].order =>
               Upto(OldBatch.ev["implementation"].fp.code, c.greenTree.code)
      BY <1>3, <2>6 DEF CycleInv
    <3> QED BY <3>1, <3>2
  <2> QED BY <2>3, <2>4, <2>5, <2>6
<1>4. ASSUME NEW c, CycleInv(c) PROVE CycleInv(c)'
  <2>1. CycleType(c)'
    BY <1>1, <1>4 DEF CycleInv, CycleType
  <2>2. \A b \in Batches' :
          /\ c.red <= b.ev["red"].order => Upto(c.redTree.code, b.ev["red"].fp.code)
          /\ Has(b.ev, "implementation") /\ c.green > b.ev["implementation"].order =>
               Upto(b.ev["implementation"].fp.code, c.greenTree.code)
    BY <1>2, <1>3, <1>4 DEF CycleInv
  <2> QED BY <1>1, <1>4, <2>1, <2>2 DEF CycleInv
<1> QED BY <1>1, <1>4 DEF CyclesInv

LEMMA SavePhaseIsIntact ==
  ASSUME ChangeInv, SavePhase PROVE ChangeInv'
<1>1. /\ RecordInv /\ WaiversInv /\ UNCHANGED <<order, tree, waivers>> /\ cmd' = NoCommand
      /\ cmd.phase \in Singular \/ cmd.phase \in Batched
  BY DEF ChangeInv, SavePhase, RecordInv, PendingPhase
<1>2. FilesInv'
  BY <1>1, SavingBatchKeepsFiles, SavingSingularKeepsFiles
<1>3. cmd'.op = "none"
  BY <1>1 DEF NoCommand
<1>4. RecordInv'
  BY <1>1, <1>2, <1>3 DEF RecordInv, TreeType, PendingPhase
<1>5. ASSUME NEW w, WaiverInv(w) PROVE WaiverInv(w)'
  <2>1. CoveredBy("red") \subseteq CoveredBy("red")'
    BY <1>1, CoverageGrows
  <2> QED BY <1>1, <1>5, <2>1 DEF WaiverInv, Warranted, InOrder
<1>6. WaiversInv'
  BY <1>1, <1>3, <1>5 DEF WaiversInv
<1> QED BY <1>4, <1>6, SavePhaseKeepsCycles DEF ChangeInv

LEMMA CrashIsIntact ==
  ASSUME ChangeInv, Crash PROVE ChangeInv'
<1>1. /\ UNCHANGED <<order, tree, change, cycles, waivers>> /\ cmd'.op = "none" /\ LogKept
  BY DEF Crash, NoCommand, LogKept
<1>2. TreeType' /\ Upto(tree.code, tree'.code)
  BY <1>1, SameTree DEF ChangeInv, RecordInv
<1> QED BY <1>1, <1>2, OtherStepKeepsRecord, SameCycles, SameWaivers DEF ChangeInv

(* Tests that run now are not of the past of any phase.                      *)
LEMMA TddRedIsIntact ==
  ASSUME ChangeInv, NEW r \in Requirements, TddRed(r) PROVE ChangeInv'
<1> DEFINE new == [requirement |-> r, red |-> Len(order) + 1, green |-> 0,
                   redTree |-> tested, greenTree |-> tested]
           rec == Record("tdd", Len(cycles) + 1, "red", Len(order) + 1)
           t == Append(cycles, new)
<1>1. /\ UNCHANGED <<tree, change, waivers, cmd>> /\ cmd.op = "none"
      /\ order' = Append(order, rec) /\ cycles' = t
      /\ RecordInv /\ FilesInv /\ TreeType /\ IsLog(order) /\ IsLog(cycles)
      /\ \A i \in DOMAIN cycles : CycleInv(cycles[i])
  BY DEF TddRed, ChangeInv, RecordInv, FilesInv, FileType, CyclesInv
<1> HIDE DEF rec
<1>2. LogKept /\ Len(order') = Len(order) + 1 /\ Len(order) \in Nat
  BY <1>1, AppendToLog DEF LogKept
<1>3. TreeType' /\ Upto(tree.code, tree'.code) /\ cmd'.op = "none"
  BY <1>1, SameTree
<1>4. ASSUME NEW c, c = [requirement |-> r, red |-> Len(order'), green |-> 0,
                         redTree |-> tested, greenTree |-> tested]
      PROVE  CycleInv(c)'
  <2>1. /\ c.requirement = r /\ c.red = Len(order') /\ c.green = 0
        /\ c.redTree.code = tree'.code /\ c.greenTree.code = tree'.code
    BY <1>1, <1>4 DEF tested
  <2>2. CycleType(c)'
    <3>1. c = [requirement |-> c.requirement, red |-> c.red, green |-> c.green,
               redTree |-> c.redTree, greenTree |-> c.greenTree]
      BY <1>4
    <3> QED BY <1>2, <1>3, <2>1, <3>1 DEF CycleType, TreeType
  <2>3. Upto(c.redTree.code, tree.code)'
    BY <1>3, <2>1 DEF Upto, TreeType
  <2>4. Batches' = Batches
    BY <1>1, SameBatches
  <2>5. \A b \in Batches : /\ b.ev["red"].order \in 1..Len(order)
                           /\ Has(b.ev, "implementation") => b.ev["implementation"].order \in 1..Len(order)
    BY <1>1, OrdersAreRecorded DEF FilesInv, BatchesInv, BatchInv, Has
  <2>6. \A b \in Batches : /\ ~(c.red <= b.ev["red"].order)
                           /\ Has(b.ev, "implementation") => ~(c.green > b.ev["implementation"].order)
    BY <1>2, <2>1, <2>5
  <2> QED BY <2>1, <2>2, <2>3, <2>4, <2>6 DEF CycleInv
<1>5. ASSUME NEW c, CycleInv(c) PROVE CycleInv(c)'
  BY <1>1, <1>2, <1>3, <1>5, SameCycle
<1>6. /\ IsLog(t) /\ DOMAIN t = 1..(Len(cycles) + 1) /\ DOMAIN cycles = 1..Len(cycles) /\ Len(cycles) \in Nat
      /\ \A i \in DOMAIN cycles : t[i] = cycles[i]
      /\ t[Len(cycles) + 1] = new
  BY <1>1, AppendToLog
<1>7. new = [requirement |-> r, red |-> Len(order'), green |-> 0, redTree |-> tested, greenTree |-> tested]
  BY <1>2
<1> HIDE DEF new, t
<1>8. \A i \in DOMAIN cycles' : cycles'[i] = new \/ \E j \in DOMAIN cycles : cycles'[i] = cycles[j]
  BY <1>1, <1>6
<1>9. \A i \in DOMAIN cycles' : CycleInv(cycles[i])'
  BY <1>1, <1>4, <1>5, <1>7, <1>8
<1>10. CyclesInv'
  BY <1>1, <1>6, <1>9 DEF CyclesInv
<1> QED BY <1>1, <1>2, <1>3, <1>10, OtherStepKeepsRecord, SameWaivers DEF ChangeInv

LEMMA GreenRecorded ==
  ASSUME NEW c, NEW n, NEW seenTree,
         c = [requirement |-> c.requirement, red |-> c.red, green |-> c.green,
              redTree |-> c.redTree, greenTree |-> c.greenTree]
  PROVE  [[c EXCEPT !.green = n] EXCEPT !.greenTree = seenTree]
           = [requirement |-> c.requirement, red |-> c.red, green |-> n,
              redTree |-> c.redTree, greenTree |-> seenTree]
<1> DEFINE g == [c EXCEPT !.green = n]
<1>1. g = [requirement |-> c.requirement, red |-> c.red, green |-> n,
           redTree |-> c.redTree, greenTree |-> c.greenTree]
  OBVIOUS
<1> HIDE DEF g
<1>2. [g EXCEPT !.greenTree = seenTree]
        = [requirement |-> c.requirement, red |-> c.red, green |-> n,
           redTree |-> c.redTree, greenTree |-> seenTree]
  BY <1>1
<1> QED BY <1>2 DEF g

LEMMA TddGreenIsIntact ==
  ASSUME ChangeInv, NEW k, TddGreen(k) PROVE ChangeInv'
<1> DEFINE old == cycles[k]
           new == [requirement |-> old.requirement, red |-> old.red, green |-> Len(order) + 1,
                   redTree |-> old.redTree, greenTree |-> tested]
           rec == Record("tdd", k, "green", Len(order) + 1)
<1>1. /\ UNCHANGED <<tree, change, waivers, cmd>> /\ cmd.op = "none"
      /\ order' = Append(order, rec)
      /\ k \in DOMAIN cycles /\ old.green = 0
      /\ tree.tests[old.requirement] = old.redTree.tests[old.requirement]
      /\ RecordInv /\ FilesInv /\ BatchesInv /\ TreeType /\ IsLog(order) /\ IsLog(cycles)
      /\ \A i \in DOMAIN cycles : CycleInv(cycles[i])
  BY DEF TddGreen, ChangeInv, RecordInv, FilesInv, FileType, CyclesInv
<1> HIDE DEF rec
<1>2. LogKept /\ Len(order') = Len(order) + 1 /\ Len(order) \in Nat
  BY <1>1, AppendToLog DEF LogKept
<1>3. TreeType' /\ Upto(tree.code, tree'.code) /\ cmd'.op = "none"
  BY <1>1, SameTree
<1>4. CycleInv(old) /\ CycleType(old)
  BY <1>1 DEF CycleInv
<1>5. /\ DOMAIN cycles' = DOMAIN cycles /\ IsFunction(cycles')
      /\ \A i \in DOMAIN cycles : cycles'[i] = IF i = k THEN new ELSE cycles[i]
  <2>1. cycles' = [cycles EXCEPT ![k].green = Len(order) + 1, ![k].greenTree = tested]
    BY DEF TddGreen
  <2>2. [[old EXCEPT !.green = Len(order) + 1] EXCEPT !.greenTree = tested] = new
    <3>1. old = [requirement |-> old.requirement, red |-> old.red, green |-> old.green,
                 redTree |-> old.redTree, greenTree |-> old.greenTree]
      BY <1>4 DEF CycleType
    <3> HIDE DEF old
    <3> QED BY <3>1, GreenRecorded, Zenon
  <2> HIDE DEF new
  <2> QED BY <1>1, <2>1, <2>2 DEF IsFunction
<1>6. IsLog(cycles')
  BY <1>1, <1>5, MappedLog
<1>7. ASSUME NEW c, c = [requirement |-> old.requirement, red |-> old.red, green |-> Len(order'),
                         redTree |-> old.redTree, greenTree |-> tested]
      PROVE  CycleInv(c)'
  <2>1. /\ c.requirement = old.requirement /\ c.red = old.red /\ c.green = Len(order')
        /\ c.redTree = old.redTree /\ c.greenTree.code = tree.code /\ c.greenTree.tests = tree.tests
    BY <1>7 DEF tested
  <2>2. CycleType(c)'
    <3>1. c = [requirement |-> c.requirement, red |-> c.red, green |-> c.green,
               redTree |-> c.redTree, greenTree |-> c.greenTree]
      BY <1>7
    <3>2. c.red \in 1..Len(order') /\ c.green \in 0..Len(order')
      BY <1>2, <1>4, <2>1 DEF CycleType
    <3> QED BY <1>1, <1>4, <2>1, <3>1, <3>2 DEF CycleType, TreeType
  <2>3. Upto(c.redTree.code, tree.code)'
    BY <1>1, <1>4, <2>1 DEF CycleInv
  <2>4. c.green > c.red /\ c.redTree.tests[c.requirement] = c.greenTree.tests[c.requirement]
    BY <1>1, <1>2, <1>4, <2>1 DEF CycleType
  <2>5. Batches' = Batches
    BY <1>1, SameBatches
  <2>6. \A b \in Batches :
          /\ c.red <= b.ev["red"].order => Upto(c.redTree.code, b.ev["red"].fp.code)
          /\ Has(b.ev, "implementation") => Upto(b.ev["implementation"].fp.code, c.greenTree.code)
    BY <1>1, <1>4, <2>1 DEF CycleInv, BatchesInv, BatchInv
  <2> QED BY <2>2, <2>3, <2>4, <2>5, <2>6 DEF CycleInv
<1>8. ASSUME NEW c, CycleInv(c) PROVE CycleInv(c)'
  BY <1>1, <1>2, <1>3, <1>8, SameCycle
<1>9. new = [requirement |-> old.requirement, red |-> old.red, green |-> Len(order'),
             redTree |-> old.redTree, greenTree |-> tested]
  BY <1>2
<1> HIDE DEF old, new
<1>10. \A i \in DOMAIN cycles' : cycles'[i] = new \/ (cycles'[i] = cycles[i] /\ i \in DOMAIN cycles)
  BY <1>5
<1>11. \A i \in DOMAIN cycles' : CycleInv(cycles[i])'
  BY <1>1, <1>7, <1>8, <1>9, <1>10
<1>12. CyclesInv'
  BY <1>6, <1>11 DEF CyclesInv
<1> QED BY <1>1, <1>2, <1>3, <1>12, OtherStepKeepsRecord, SameWaivers DEF ChangeInv

(* The editor only ever makes later versions.                                *)
LEMMA EditIsIntact ==
  ASSUME ChangeInv, UNCHANGED <<order, change, cycles, waivers, cmd>>, cmd.op = "none",
         TreeType', Upto(tree.code, tree'.code)
  PROVE  ChangeInv'
<1>1. LogKept /\ cmd'.op = "none"
  BY DEF LogKept
<1> QED BY <1>1, OtherStepKeepsRecord, SameCycles, SameWaivers DEF ChangeInv

LEMMA EditDocumentIsIntact ==
  ASSUME ChangeInv, NEW d \in {"doc", "req", "design"}, EditDocument(d) PROVE ChangeInv'
<1>1. TreeType /\ TreeType' /\ tree'.code = tree.code
  BY DEF EditDocument, ChangeInv, RecordInv, TreeType
<1> QED BY <1>1, EditIsIntact, UptoItself DEF EditDocument

LEMMA EditTestIsIntact ==
  ASSUME ChangeInv, NEW r, EditTest(r) PROVE ChangeInv'
<1>1. TreeType /\ TreeType' /\ tree'.code = tree.code
  BY DEF EditTest, ChangeInv, RecordInv, TreeType
<1> QED BY <1>1, EditIsIntact, UptoItself DEF EditTest

LEMMA EditCodeIsIntact ==
  ASSUME ChangeInv, NEW u \in Units, EditCode(u) PROVE ChangeInv'
<1>1. TreeType
  BY DEF ChangeInv, RecordInv
<1>2. tree' = [tree EXCEPT !.code[u] = tree.code[u] + 1]
  BY DEF EditCode
<1>3. /\ tree'.code = [tree.code EXCEPT ![u] = tree.code[u] + 1]
      /\ tree' = [doc |-> tree'.doc, req |-> tree'.req, design |-> tree'.design,
                  tests |-> tree'.tests, code |-> tree'.code]
  BY <1>1, <1>2 DEF TreeType
<1>4. TreeType' /\ Upto(tree.code, tree'.code)
  BY <1>1, <1>3 DEF TreeType, Upto
<1> QED BY <1>4, EditIsIntact DEF EditCode

LEMMA StutterIsIntact ==
  ASSUME ChangeInv, UNCHANGED vars PROVE ChangeInv'
<1>1. UNCHANGED <<order, tree, change, cycles, waivers, cmd>> /\ LogKept
  BY DEF vars, LogKept
<1>2. TreeType' /\ Upto(tree.code, tree'.code) /\ cmd.op \in {"none", "phase", "waiver"}
  BY <1>1, SameTree DEF ChangeInv, RecordInv
<1>3. FilesInv'
  BY <1>1, <1>2, SameFiles DEF ChangeInv, RecordInv
<1>4. PendingPhase'
  <2>1. CheckpointsInOrder'
    BY <1>3 DEF FilesInv, OrderMatches
  <2>2. \A n : OrdersBelow(n) => OrdersBelow(n)'
    BY <1>1, SameBatches DEF OrdersBelow
  <2>3. cmd.op = "phase" =>
          (IF cmd.ids = Requirements THEN MayRecordFullSet(cmd.phase, cmd.item.allowed)
                                     ELSE MayRecordBatch(cmd.phase, cmd.ids))'
    BY <1>1, <2>1, SameGuards DEF ChangeInv, RecordInv, PendingPhase
  <2> QED BY <1>1, <2>2, <2>3 DEF ChangeInv, RecordInv, PendingPhase, InOrder, Has, currentFingerprints
<1>5. RecordInv'
  BY <1>1, <1>2, <1>3, <1>4 DEF RecordInv
<1> QED BY <1>1, <1>2, <1>5, SameCycles, SameWaivers DEF ChangeInv

LEMMA NextIsIntact == ChangeInv /\ [Next]_vars => ChangeInv'
<1> SUFFICES ASSUME ChangeInv, [Next]_vars PROVE ChangeInv'
  OBVIOUS
<1>1. CASE \E phase \in Singular, allowed \in BOOLEAN : recordChangePhase(phase, Requirements, allowed)
  BY <1>1, RecordingIsIntact DEF MayBegin
<1>2. CASE \E phase \in Batched, ids \in (SUBSET Requirements) \ {{}} : recordChangePhase(phase, ids, FALSE)
  BY <1>2, RecordingIsIntact DEF MayBegin
<1>3. CASE \E scope \in Reported : recordChangeWaiver(scope)
  BY <1>3, WaivingIsIntact
<1>4. CASE SavePhase
  BY <1>4, SavePhaseIsIntact
<1>5. CASE SaveWaiver
  BY <1>5, SaveWaiverIsIntact
<1>6. CASE Crash
  BY <1>6, CrashIsIntact
<1>7. CASE \E r \in Requirements : TddRed(r)
  BY <1>7, TddRedIsIntact
<1>8. CASE \E i \in 1..MaxCycles : TddGreen(i)
  BY <1>8, TddGreenIsIntact
<1>9. CASE \E d \in {"doc", "req", "design"} : EditDocument(d)
  BY <1>9, EditDocumentIsIntact
<1>10. CASE \E r \in Requirements : EditTest(r)
  BY <1>10, EditTestIsIntact
<1>11. CASE \E u \in Units : EditCode(u)
  BY <1>11, EditCodeIsIntact
<1>12. CASE UNCHANGED vars
  BY <1>12, StutterIsIntact
<1> QED BY <1>1, <1>2, <1>3, <1>4, <1>5, <1>6, <1>7, <1>8, <1>9, <1>10, <1>11, <1>12 DEF Next

(* Type correctness of the files and of what a command holds in memory, the  *)
(* phases in their order and in the order log, cycles and phases in the order*)
(* of the versions they saw, and waivers that keep the reason they had.      *)
THEOREM ChangeInvariant == Spec => []ChangeInv
<1> QED BY InitIsIntact, NextIsIntact, PTL DEF Spec

-----------------------------------------------------------------------------
(* What follows for whoever reads the files.                                 *)
LEMMA IntactRecord == ChangeInv => RecordedChangeIsIntact
<1> SUFFICES ASSUME ChangeInv, Recorded
             PROVE  /\ OrderMatches /\ PhaseOrder /\ WorkShown
                    /\ \A i \in DOMAIN waivers :
                         waivers[i].scope[1] = "CHANGE_RECORD_MISSING" \/ waiverLinkage(i)
  BY DEF RecordedChangeIsIntact
<1>1. SingularInv /\ BatchesInv /\ OrderMatches /\ WaiversInv
  BY DEF ChangeInv, RecordInv, FilesInv
<1>2. PhaseOrder
  BY <1>1 DEF PhaseOrder, SingularInv, BatchesInv, BatchInv, OrderIn
<1>3. WorkShown
  BY <1>1 DEF WorkShown, SingularInv, BatchesInv, BatchInv
<1>4. \A i \in DOMAIN waivers : waivers[i].scope[1] = "CHANGE_RECORD_MISSING" \/ waiverLinkage(i)
  BY <1>1 DEF WaiversInv, WaiverInv, waiverLinkage
<1> QED BY <1>1, <1>2, <1>3, <1>4

(* A record of the log is of one phase, so that a Green is never as old as a *)
(* checkpoint.                                                               *)
LEMMA RefreshableQuality == ChangeInv => QualityIsRefreshable
<1> SUFFICES ASSUME ChangeInv, Has(change.phases, "quality"), ~QualityIsLast
             PROVE  MayRecordFullSet("quality", FALSE)
  BY DEF QualityIsRefreshable
<1>1. FilesInv /\ QualityInv /\ OrderMatches /\ Recorded
  BY DEF ChangeInv, RecordInv, FilesInv, SingularInv, Has
<1>2. PICK b \in Batches : Has(b.ev, "green") /\ ~(b.ev["green"].order < change.phases["quality"].order)
  BY DEF QualityIsLast, OrderOf
<1> DEFINE g == b.ev["green"].order
           q == change.phases["quality"].order
<1>3. g \in 1..Len(order) /\ q \in 1..Len(order)
  BY <1>1, <1>2, OrdersAreRecorded DEF Has
<1>4. order[g] = Record("change", <<"phase", b.ids>>, "green", g)
  BY <1>1, <1>2 DEF OrderMatches, InOrder, Has
<1>5. order[q] = Record("change", <<"quality", change.phases["quality"].detail>>, "quality", q)
  <2>1. change.phases["quality"] \in Checkpoints
    BY DEF Checkpoints, Has
  <2> QED BY <1>1, <2>1 DEF OrderMatches, CheckpointsInOrder, InOrder
<1>6. order[g].phase = "green" /\ order[q].phase = "quality"
  BY <1>4, <1>5 DEF Record
<1>7. g > q
  BY <1>2, <1>3, <1>6
<1>8. GreenAfterQuality
  BY <1>2, <1>7 DEF GreenAfterQuality
<1> QED BY <1>1, <1>8 DEF MayRecordFullSet, MayRecordQuality, QualityInv, OrderMatches

(* The failing run saw no later code than the red phase, the passing one no  *)
(* earlier than the implementation phase, and between these the code of the  *)
(* requirement changed.                                                      *)
LEMMA ValidCycleIsTestFirst ==
  ASSUME ChangeInv, NEW r \in Requirements, hasValidTddCycle(r)
  PROVE  \E i \in DOMAIN cycles :
           /\ cycles[i].requirement = r /\ cycles[i].green > cycles[i].red
           /\ cycles[i].red > OrderOf("requirements")
           /\ requirementImplementation(cycles[i].redTree, r) # requirementImplementation(cycles[i].greenTree, r)
           /\ cycles[i].redTree.tests[r] = cycles[i].greenTree.tests[r]
<1> DEFINE b == batchFor(r)
<1>1. FilesInv /\ BatchesInv /\ IsLog(change.batches)
  BY DEF ChangeInv, RecordInv, FilesInv, FileType
<1>2. Has(change.phases, "requirements") /\ Batched \subseteq DOMAIN b.ev
  BY DEF hasValidTddCycle
<1>3. PICK i \in DOMAIN cycles :
        /\ cycles[i].requirement = r
        /\ cycles[i].red \in (change.phases["requirements"].order + 1)..b.ev["red"].order
        /\ cycles[i].green \in (b.ev["implementation"].order + 1)..b.ev["green"].order
  BY DEF hasValidTddCycle
<1>4. b \in Batches /\ r \in b.ids
  <2>1. b # NoBatch
    BY <1>2, EmptyRecord DEF NoBatch, Batched
  <2> QED BY <1>1, <2>1, BatchOf
<1>5. BatchInv(b) /\ Has(b.ev, "red") /\ Has(b.ev, "implementation")
  BY <1>1, <1>2, <1>4 DEF BatchesInv, Has, Batched
<1> HIDE DEF b
<1> DEFINE c == cycles[i]
<1>6. CycleInv(c) /\ CycleType(c)
  BY DEF ChangeInv, CyclesInv, CycleInv
<1> HIDE DEF c
<1>7. /\ b.ev["implementation"].order \in Nat /\ b.ev["red"].order \in Nat
      /\ change.phases["requirements"].order \in Nat
  BY <1>1, <1>2, <1>4, <1>5, OrdersAreRecorded DEF Has
<1>8. /\ c.requirement = r
      /\ c.red \in (change.phases["requirements"].order + 1)..b.ev["red"].order
      /\ c.green \in (b.ev["implementation"].order + 1)..b.ev["green"].order
  BY <1>3 DEF c
<1>9. c.red > OrderOf("requirements")
  BY <1>2, <1>7, <1>8 DEF OrderOf
<1>10. c.red <= b.ev["red"].order /\ c.green > b.ev["implementation"].order /\ c.green # 0
  BY <1>7, <1>8
<1>11. c.green > c.red /\ c.redTree.tests[r] = c.greenTree.tests[r]
  BY <1>6, <1>8, <1>10 DEF CycleInv
<1>12. PICK u \in relevant(r) : b.ev["red"].fp.code[u] # b.ev["implementation"].fp.code[u]
  BY <1>4, <1>5 DEF BatchInv, requirementImplementation
<1>13. u \in Units
  BY DEF relevant
<1>14. /\ b.ev["red"].fp.code[u] \in Nat /\ b.ev["implementation"].fp.code[u] \in Nat
       /\ b.ev["red"].fp.code[u] <= b.ev["implementation"].fp.code[u]
  BY <1>5, <1>13 DEF BatchInv, Upto
<1>15. c.redTree.code[u] <= b.ev["red"].fp.code[u] /\ b.ev["implementation"].fp.code[u] <= c.greenTree.code[u]
  BY <1>4, <1>5, <1>6, <1>10, <1>13 DEF CycleInv, Upto
<1>16. c.redTree.code[u] \in Nat /\ c.greenTree.code[u] \in Nat
  BY <1>6, <1>13 DEF CycleType
<1>17. c.redTree.code[u] # c.greenTree.code[u]
  BY <1>12, <1>14, <1>15, <1>16
<1>18. requirementImplementation(c.redTree, r) # requirementImplementation(c.greenTree, r)
  BY <1>17 DEF requirementImplementation
<1> QED BY <1>8, <1>9, <1>11, <1>18 DEF c

LEMMA AcceptedIsTestFirst == ChangeInv => AcceptedChangeIsTestFirst
<1> SUFFICES ASSUME ChangeInv, Accepts, NEW r \in Requirements, ~hasValidTddCycle(r)
             PROVE  Waived(r)
  BY ValidCycleIsTestFirst DEF AcceptedChangeIsTestFirst
<1> DEFINE scope == <<"CHANGE_COMPLETENESS_TDD", r>>
<1>1. scope \in Reported
  BY DEF Reported, Accepts
<1>2. Active(scope)
  BY <1>1 DEF Accepts
<1>3. scope \in Scopes
  BY <1>2 DEF Active, Linked, Scopes
<1> QED BY <1>2, <1>3 DEF Waived

(* The latest linked waiver of a scope exists; if it still fits the evidence *)
(* of now, its reason holds of the evidence of now.                          *)
LEMMA ActiveIsReported == ChangeInv => ActiveWaiverIsReported
<1> SUFFICES ASSUME ChangeInv, NEW scope \in Scopes, Active(scope) PROVE scope \in Reported
  BY DEF ActiveWaiverIsReported
<1>1. FilesInv /\ IsLog(order) /\ WaiversInv
  BY DEF ChangeInv, RecordInv, FilesInv, FileType
<1> DEFINE orders == {waivers[i].order : i \in Linked(scope)}
<1>2. \A i \in Linked(scope) : i \in DOMAIN waivers /\ waivers[i].order \in 1..Len(order)
  BY <1>1, OrdersAreNumbers DEF Linked, waiverLinkage
<1>3. Linked(scope) # {} /\ Len(order) \in Nat
  BY <1>1, LogIndices DEF Active
<1>4. orders \subseteq Nat /\ orders # {} /\ \A n \in orders : n <= Len(order)
  BY <1>2, <1>3
<1>5. \E m \in orders : \A n \in orders : n <= m
  <2> HIDE DEF orders
  <2> QED BY <1>3, <1>4, NatMax
<1>6. \E i \in Linked(scope) : \A j \in Linked(scope) : waivers[j].order <= waivers[i].order
  BY <1>5
<1> DEFINE a == authoritativeIndex(scope)
<1>7. a \in Linked(scope)
  BY <1>6 DEF authoritativeIndex
<1>8. nonStale(a)
  BY DEF Active
<1> HIDE DEF a
<1>9. a \in DOMAIN waivers /\ waivers[a].scope = scope /\ waiverLinkage(a)
  BY <1>7 DEF Linked
<1>10. Warranted(scope, snapshotPayload(scope))
  BY <1>1, <1>8, <1>9 DEF WaiversInv, WaiverInv, nonStale
<1>11. scope[1] = "CHANGE_RECORD_MISSING" <=> ~Recorded
  BY <1>9 DEF waiverLinkage
<1> QED BY <1>1, <1>10, <1>11, WarrantedIsReported

(* Whatever is recorded of a change, by commands any of which may crash after*)
(* its append to the order log, agrees with that log, stands in the order of *)
(* the phases and shows the work that each phase asks for.                   *)
THEOREM RecordedIsSound == Spec => []RecordedChangeIsIntact
<1> QED BY ChangeInvariant, IntactRecord, PTL

(* A change that validates was made test first, for any imports and edits,   *)
(* full-set or batch by batch: a run failed after the requirements were      *)
(* settled, the code of the requirement changed, and the test passed.        *)
THEOREM ValidatedIsTestFirst == Spec => []AcceptedChangeIsTestFirst
<1> QED BY ChangeInvariant, AcceptedIsTestFirst, PTL

(* A waiver in force covers a diagnostic that is reported now.               *)
THEOREM WaiverHasReason == Spec => []ActiveWaiverIsReported
<1> QED BY ChangeInvariant, ActiveIsReported, PTL

(* A change is never stuck with a checkpoint that a later Green made invalid.*)
THEOREM CheckpointCanFollow == Spec => []QualityIsRefreshable
<1> QED BY ChangeInvariant, RefreshableQuality, PTL
=============================================================================
