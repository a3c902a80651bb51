--------------------------- MODULE TddCycleProofs ---------------------------
(* What TLAPS proves of TDD cycle evidence, for any number of concurrent     *)
(* commands, tests, runs, edits and crashes: the order log always validates  *)
(* (LogInv), and evidence that validates is genuine, because each recorded   *)
(* phase says of its test what the run it names showed (HonestInv). With one *)
(* command at a time the log, the chain and the cycles agree (IntactInv).    *)
EXTENDS TddCycle, SequenceTheorems, WellFoundedInduction, TLAPS

(* Records are of no fixed type: a log is a sequence over its own elements.  *)
IsLog(s) == s \in Seq({s[i] : i \in DOMAIN s})

(* A log with one record more.                                               *)
LEMMA AppendToLog ==
  ASSUME NEW s, IsLog(s), NEW rec
  PROVE  /\ IsLog(Append(s, rec))
         /\ DOMAIN s = 1..Len(s) /\ Len(s) \in Nat
         /\ DOMAIN Append(s, rec) = 1..(Len(s) + 1) /\ Len(Append(s, rec)) = Len(s) + 1
         /\ \A i \in DOMAIN s : Append(s, rec)[i] = s[i]
         /\ Append(s, rec)[Len(s) + 1] = rec
<1> DEFINE S == {s[i] : i \in DOMAIN s} \union {rec}
           t == Append(s, rec)
<1>1. s \in Seq(S) /\ rec \in S
  BY SeqMonotonic DEF IsLog
<1>2. /\ t \in Seq(S) /\ Len(t) = Len(s) + 1 /\ Len(s) \in Nat
      /\ DOMAIN s = 1..Len(s) /\ DOMAIN t = 1..(Len(s) + 1)
      /\ \A i \in 1..Len(s) : t[i] = s[i]
      /\ t[Len(s) + 1] = rec
  BY <1>1, AppendProperties, LenProperties
<1>3. t \in [1..Len(t) -> {t[j] : j \in DOMAIN t}]
  <2>1. t = [i \in DOMAIN t |-> t[i]]
    BY <1>1, <1>2, LenProperties
  <2> QED BY <1>2, <2>1
<1>4. IsLog(t)
  <2> DEFINE T == {t[j] : j \in DOMAIN t}
  <2> HIDE DEF T
  <2>1. t \in Seq(T)
    BY <1>2, <1>3, SeqDef DEF T
  <2> QED BY <2>1 DEF IsLog, T
<1> QED BY <1>2, <1>4

(* The log with one record more validates when the key was not there: the    *)
(* check of appendEvidenceOrder is all that is needed.                       *)
LEMMA AppendKeepsLogValid ==
  ASSUME NEW s, IsLog(s), validateEvidenceOrderLog(s), NEW rec,
         rec.sequence = Len(s) + 1, recordKey(rec) \notin Keys(s)
  PROVE  IsLog(Append(s, rec)) /\ validateEvidenceOrderLog(Append(s, rec))
<1> DEFINE t == Append(s, rec)
<1>2. /\ IsLog(t) /\ Len(s) \in Nat
      /\ DOMAIN s = 1..Len(s) /\ DOMAIN t = 1..(Len(s) + 1)
      /\ \A i \in 1..Len(s) : t[i] = s[i]
      /\ t[Len(s) + 1] = rec
  BY AppendToLog
<1> HIDE DEF t
<1>4. validateEvidenceOrderLog(t)
  <2>1. \A i \in DOMAIN t : t[i].sequence = i
    BY <1>2 DEF validateEvidenceOrderLog
  <2>2. \A i \in 1..Len(s) : recordKey(t[i]) # recordKey(rec)
    BY <1>2 DEF Keys
  <2>3. \A i, j \in 1..Len(s) : i # j => recordKey(t[i]) # recordKey(t[j])
    BY <1>2 DEF validateEvidenceOrderLog
  <2>4. \A i \in DOMAIN t : i \in 1..Len(s) \/ i = Len(s) + 1
    BY <1>2
  <2>5. \A i, j \in DOMAIN t : i # j => recordKey(t[i]) # recordKey(t[j])
    BY <1>2, <2>2, <2>3, <2>4
  <2> QED BY <2>1, <2>5 DEF validateEvidenceOrderLog
<1> QED BY <1>2, <1>4 DEF t

(* What every process has loaded is a valid log as well.                     *)
LogInv ==
  /\ IsLog(order) /\ validateEvidenceOrderLog(order)
  /\ seen = [p \in Procs |-> seen[p]]
  /\ \A p \in Procs : IsLog(seen[p]) /\ validateEvidenceOrderLog(seen[p])

LEMMA EmptyLog == IsLog(<<>>) /\ validateEvidenceOrderLog(<<>>)
BY DEF IsLog, validateEvidenceOrderLog

LEMMA InitLog == Init => LogInv
<1> SUFFICES ASSUME Init PROVE LogInv
  OBVIOUS
<1>1. IsLog(order) /\ validateEvidenceOrderLog(order)
  <2>1. CASE order = <<>>
    BY <2>1, EmptyLog
  <2>2. CASE order = <<Record("tdd", 1, "red", 1), Record("tdd", 1, "green", 2)>>
    <3> DEFINE one == Record("tdd", 1, "red", 1)
               two == Record("tdd", 1, "green", 2)
    <3>1. /\ DOMAIN order = 1..2 /\ Len(order) = 2
          /\ order[1] = one /\ order[2] = two
      BY <2>2
    <3>2. order \in Seq({order[i] : i \in DOMAIN order})
      <4>1. order = [i \in 1..2 |-> order[i]]
        BY <2>2
      <4> QED BY <3>1, <4>1, IsASeq
    <3>3. recordKey(one) # recordKey(two) /\ one.sequence = 1 /\ two.sequence = 2
      BY DEF recordKey, Record, Repeats
    <3> HIDE DEF one, two
    <3>4. validateEvidenceOrderLog(order)
      BY <3>1, <3>3 DEF validateEvidenceOrderLog
    <3> QED BY <3>2, <3>4 DEF IsLog
  <2> QED BY <2>1, <2>2 DEF Init
<1>2. seen = [p \in Procs |-> <<>>]
  BY DEF Init
<1> QED BY <1>1, <1>2, EmptyLog DEF LogInv

LEMMA LoadKeepsLogs ==
  ASSUME LogInv, NEW p \in Procs, LoadOrder(p), order' = order PROVE LogInv'
<1>1. seen' = [seen EXCEPT ![p] = order]
  BY DEF LoadOrder
<1>2. \A q \in Procs : seen'[q] = seen[q] \/ seen'[q] = order
  BY <1>1 DEF LogInv
<1>3. \A q \in Procs : IsLog(seen'[q]) /\ validateEvidenceOrderLog(seen'[q])
  BY <1>2 DEF LogInv
<1>4. seen' = [q \in Procs |-> seen'[q]]
  BY <1>1 DEF LogInv
<1> QED BY <1>3, <1>4 DEF LogInv

LEMMA ForgetKeepsLogs ==
  ASSUME LogInv, NEW p \in Procs, Forget(p), order' = order PROVE LogInv'
<1>1. /\ IsLog(order') /\ validateEvidenceOrderLog(order')
      /\ seen' = [seen EXCEPT ![p] = <<>>]
  BY DEF LogInv, Forget
<1>2. \A q \in Procs : seen'[q] = seen[q] \/ seen'[q] = <<>>
  BY <1>1 DEF LogInv
<1>3. \A q \in Procs : IsLog(seen'[q]) /\ validateEvidenceOrderLog(seen'[q])
  BY <1>2, EmptyLog DEF LogInv
<1>4. seen' = [q \in Procs |-> seen'[q]]
  BY <1>1 DEF LogInv
<1> QED BY <1>1, <1>3, <1>4 DEF LogInv

LEMMA WriteKeepsLogs ==
  ASSUME LogInv, NEW p \in Procs, NEW k, NEW e, NEW ph, WriteOrder(p, k, e, ph)
  PROVE  LogInv'
<1> DEFINE rec == Record(k, e, ph, Len(seen[p]) + 1)
<1>1. /\ order' = Append(seen[p], rec) /\ Forget(p)
      /\ recordKey(rec) \notin Keys(seen[p])
      /\ IsLog(seen[p]) /\ validateEvidenceOrderLog(seen[p])
  BY DEF WriteOrder, Refused, LogInv
<1>2. rec.sequence = Len(seen[p]) + 1
  BY DEF Record
<1> HIDE DEF rec
<1>3. IsLog(order') /\ validateEvidenceOrderLog(order')
  BY <1>1, <1>2, AppendKeepsLogValid
<1>4. seen' = [seen EXCEPT ![p] = <<>>]
  BY <1>1 DEF Forget
<1>5. \A q \in Procs : seen'[q] = seen[q] \/ seen'[q] = <<>>
  BY <1>4 DEF LogInv
<1>6. \A q \in Procs : IsLog(seen'[q]) /\ validateEvidenceOrderLog(seen'[q])
  BY <1>5, EmptyLog DEF LogInv
<1>7. seen' = [q \in Procs |-> seen'[q]]
  BY <1>4 DEF LogInv
<1> QED BY <1>3, <1>6, <1>7 DEF LogInv

LEMMA SameKeepsLogs == LogInv /\ UNCHANGED orderVars => LogInv'
BY DEF LogInv, orderVars

LEMMA CommandKeepsLogs ==
  ASSUME LogInv, NEW p \in Procs, Command(p) PROVE LogInv'
<1>1. CASE Assess(p)
  BY <1>1, LoadKeepsLogs DEF Assess
<1>2. CASE ApproveVoid(p) \/ ApproveMigrate(p) \/ Fingerprint(p)
  <2>1. CASE LoadOrder(p) /\ order' = order
    BY <2>1, LoadKeepsLogs
  <2>2. CASE UNCHANGED orderVars
    BY <2>2, SameKeepsLogs
  <2> QED BY <1>2, <2>1, <2>2 DEF ApproveVoid, ApproveMigrate, Fingerprint, orderVars
<1>3. CASE AppendPhase(p)
  <2>1. CASE Forget(p) /\ order' = order
    BY <2>1, ForgetKeepsLogs
  <2>2. CASE WriteOrder(p, "tdd", TargetId(p), cmd[p].phase)
    BY <2>2, WriteKeepsLogs
  <2> QED BY <1>3, <2>1, <2>2 DEF AppendPhase
<1>4. CASE Crash(p)
  BY <1>4, ForgetKeepsLogs DEF Crash
<1>5. CASE UNCHANGED orderVars
  BY <1>5, SameKeepsLogs
<1>6. Execute(p) \/ SaveEvidence(p) => UNCHANGED orderVars
  BY DEF Execute, SaveEvidence, orderVars
<1>7. ASSUME NEW phase, NEW t, NEW r, StartPhase(p, phase, t, r) PROVE UNCHANGED orderVars
  BY <1>7 DEF StartPhase, orderVars
<1>8. ASSUME NEW t, StartVoid(p, t) \/ StartMigrate(p, t) PROVE UNCHANGED orderVars
  BY <1>8 DEF StartVoid, StartMigrate, orderVars
<1> QED BY <1>1, <1>2, <1>3, <1>4, <1>5, <1>6, <1>7, <1>8 DEF Command

LEMMA NextKeepsLogs == LogInv /\ [Next]_vars => LogInv'
<1> SUFFICES ASSUME LogInv, [Next]_vars PROVE LogInv'
  OBVIOUS
<1>1. ASSUME NEW p \in Procs, Command(p) PROVE LogInv'
  BY <1>1, CommandKeepsLogs
<1>2. ASSUME NEW t, EditTest(t) PROVE LogInv'
  BY <1>2, SameKeepsLogs DEF EditTest, orderVars
<1>3. CASE EditSource
  BY <1>3, SameKeepsLogs DEF EditSource, orderVars
<1>4. CASE UNCHANGED vars
  BY <1>4, SameKeepsLogs DEF vars, orderVars
<1> QED BY <1>1, <1>2, <1>3, <1>4 DEF Next

(* The order log stays one that later commands accept, for any number of     *)
(* commands that read and write it without a lock and die between the two.   *)
THEOREM OrderLogIsNeverBroken == Spec => []OrderLogStaysValid
<1>1. LogInv => OrderLogStaysValid
  BY DEF LogInv, OrderLogStaysValid
<1> QED BY <1>1, InitLog, NextKeepsLogs, PTL DEF Spec

-----------------------------------------------------------------------------
(* The greatest of a bounded set, which CHOOSE names in LastOf and elsewhere *)

LEMMA NatOrder ==
  \E R : IsWellFoundedOn(R, Nat) /\ \A x, y \in Nat : y < x => <<y, x>> \in R
<1>1. IsWellFoundedOn(OpToRel(<, Nat), Nat)
  BY NatLessThanWellFounded
<1>2. \A x, y \in Nat : y < x => <<y, x>> \in OpToRel(<, Nat)
  BY DEF OpToRel
<1> QED BY <1>1, <1>2, Zenon

LEMMA NatMin ==
  ASSUME NEW T, T \subseteq Nat, T # {}
  PROVE  \E x \in T : \A y \in T : x <= y
<1>1. PICK R : IsWellFoundedOn(R, Nat) /\ \A x, y \in Nat : y < x => <<y, x>> \in R
  BY NatOrder
<1>2. \E x \in T : \A y \in T : ~ (<<y, x>> \in R)
  BY <1>1, WFMin
<1>3. \E x \in T : \A y \in T : ~ (y < x)
  BY <1>1, <1>2, Zenon
<1> QED BY <1>3

LEMMA NatMax ==
  ASSUME NEW S, S \subseteq Nat, S # {}, NEW n \in Nat, \A x \in S : x <= n
  PROVE  \E m \in S : \A x \in S : x <= m
<1> DEFINE T == {n - x : x \in S}
<1>1. \A x \in S : x \in Nat /\ n - x \in Nat
  OBVIOUS
<1>2. T \subseteq Nat /\ T # {}
  BY <1>1
<1>3. PICK d \in T : \A y \in T : d <= y
  <2> HIDE DEF T
  <2> QED BY <1>2, NatMin
<1>4. PICK m \in S : d = n - m
  BY <1>3
<1>5. \A x \in S : n - m <= n - x
  BY <1>3, <1>4
<1> QED BY <1>1, <1>5

LEMMA LogIndices ==
  ASSUME NEW s, IsLog(s)
  PROVE  Len(s) \in Nat /\ DOMAIN s = 1..Len(s) /\ DOMAIN s \subseteq Nat
BY LenProperties DEF IsLog

LEMMA LastOfCycles ==
  ASSUME NEW cs, IsLog(cs), NEW found, found \subseteq DOMAIN cs
  PROVE  IF found = {} THEN LastOf(found) = 0
         ELSE LastOf(found) \in found /\ \A j \in found : j <= LastOf(found)
<1>1. CASE found = {}
  BY <1>1 DEF LastOf
<1>2. CASE found # {}
  <2>1. found \subseteq Nat /\ Len(cs) \in Nat /\ \A j \in found : j <= Len(cs)
    BY LogIndices
  <2>2. \E m \in found : \A j \in found : j <= m
    BY <1>2, <2>1, NatMax
  <2> QED BY <1>2, <2>2 DEF LastOf
<1> QED BY <1>1, <1>2

LEMMA LatestIsLast ==
  ASSUME NEW cs, IsLog(cs), NEW t, LatestCycle(cs, t) # 0
  PROVE  /\ LatestCycle(cs, t) \in DOMAIN cs /\ cs[LatestCycle(cs, t)].test = t
         /\ \A j \in DOMAIN cs : cs[j].test = t => j <= LatestCycle(cs, t)
<1> DEFINE found == {i \in DOMAIN cs : cs[i].test = t}
<1>1. LatestCycle(cs, t) = LastOf(found) /\ found \subseteq DOMAIN cs
  BY DEF LatestCycle
<1>2. LastOf(found) \in found /\ \A j \in found : j <= LastOf(found)
  <2> HIDE DEF found
  <2> QED BY <1>1, LastOfCycles
<1> QED BY <1>1, <1>2

LEMMA LatestExists ==
  ASSUME NEW cs, IsLog(cs), NEW i \in DOMAIN cs
  PROVE  LatestCycle(cs, cs[i].test) # 0
<1> DEFINE found == {j \in DOMAIN cs : cs[j].test = cs[i].test}
<1>1. LatestCycle(cs, cs[i].test) = LastOf(found) /\ found \subseteq DOMAIN cs /\ i \in found
  BY DEF LatestCycle
<1>2. LastOf(found) \in DOMAIN cs
  <2> HIDE DEF found
  <2> QED BY <1>1, LastOfCycles
<1>3. 0 \notin DOMAIN cs
  BY LogIndices
<1> QED BY <1>1, <1>2, <1>3

LEMMA PendingIsOfPair ==
  ASSUME NEW cs, IsLog(cs), NEW t, NEW r, PendingCycle(cs, t, r) # 0
  PROVE  /\ PendingCycle(cs, t, r) \in DOMAIN cs
         /\ cs[PendingCycle(cs, t, r)].test = t
         /\ cs[PendingCycle(cs, t, r)].requirement = r
<1> DEFINE found == {i \in DOMAIN cs : cs[i].test = t /\ cs[i].requirement = r}
<1>1. PendingCycle(cs, t, r) = LastOf(found) /\ found \subseteq DOMAIN cs
  BY DEF PendingCycle
<1>2. LastOf(found) \in found
  <2> HIDE DEF found
  <2> QED BY <1>1, LastOfCycles
<1> QED BY <1>1, <1>2

LEMMA OrdersAreNumbers ==
  ASSUME NEW log, IsLog(log), NEW id, NEW phase
  PROVE  evidenceOrderRecord(log, "tdd", id, phase) \in Nat
BY LogIndices DEF evidenceOrderRecord

(* The cycles that may stand for a voided one.                               *)
Candidates(cs, log, ch, v) ==
  {i \in DOMAIN cs \ {v} :
     /\ cs[i].test = cs[v].test
     /\ Complete(cs[i])
     /\ ~voidLinkage(log, ch, cs[i])
     /\ phaseLinkageValid(log, ch, cs[i], "green")
     /\ evidenceOrderRecord(log, "tdd", cs[i].id, "green")
          < evidenceOrderRecord(log, "tdd", cs[v].id, "void")}

LEMMA EffectiveIsCandidate ==
  ASSUME NEW cs, NEW log, IsLog(log), NEW ch, NEW v
  PROVE  IF evidenceOrderRecord(log, "tdd", cs[v].id, "void") = 0
            \/ Candidates(cs, log, ch, v) = {}
         THEN effectiveLatestCycle(cs, log, ch, v) = 0
         ELSE effectiveLatestCycle(cs, log, ch, v) \in Candidates(cs, log, ch, v)
<1> DEFINE voidedAt == evidenceOrderRecord(log, "tdd", cs[v].id, "void")
           greenAt(i) == evidenceOrderRecord(log, "tdd", cs[i].id, "green")
           C == Candidates(cs, log, ch, v)
           e == effectiveLatestCycle(cs, log, ch, v)
<1>1. e = IF voidedAt = 0 \/ C = {} THEN 0
          ELSE CHOOSE i \in C : \A j \in C : greenAt(j) <= greenAt(i)
  BY Zenon DEF effectiveLatestCycle, Candidates
<1>2. voidedAt \in Nat /\ \A i \in C : greenAt(i) \in Nat /\ greenAt(i) < voidedAt
  BY OrdersAreNumbers DEF Candidates
<1>3. CASE C # {}
  <2> DEFINE S == {greenAt(i) : i \in C}
  <2>1. S \subseteq Nat /\ S # {} /\ \A x \in S : x <= voidedAt
    <3> HIDE DEF greenAt, voidedAt, C
    <3> QED BY <1>2, <1>3
  <2>2. \E m \in S : \A x \in S : x <= m
    <3> HIDE DEF S, voidedAt
    <3> QED BY <1>2, <2>1, NatMax
  <2>3. \E i \in C : \A j \in C : greenAt(j) <= greenAt(i)
    <3> HIDE DEF greenAt, C
    <3> QED BY <2>2
  <2> HIDE DEF voidedAt, greenAt, C, e
  <2>4. voidedAt # 0 => e \in C
    BY <1>1, <1>3, <2>3
  <2>5. voidedAt = 0 => e = 0
    BY <1>1
  <2> QED BY <1>3, <2>4, <2>5 DEF C, e, voidedAt
<1>4. CASE C = {}
  BY <1>1, <1>4
<1> QED BY <1>3, <1>4

LEMMA EffectiveStands ==
  ASSUME NEW cs, NEW log, IsLog(log), NEW ch, NEW v,
         effectiveLatestCycle(cs, log, ch, v) # 0
  PROVE  /\ effectiveLatestCycle(cs, log, ch, v) \in DOMAIN cs
         /\ cs[effectiveLatestCycle(cs, log, ch, v)].test = cs[v].test
         /\ Complete(cs[effectiveLatestCycle(cs, log, ch, v)])
BY EffectiveIsCandidate DEF Candidates

-----------------------------------------------------------------------------
(* Honest evidence: it says of the test what its runs showed                 *)

TestRun == [test : Tests, version : Nat, status : {"failed", "passed"}]
NodeOf(t, v) == Node([u \in {t} |-> v])
LegacyFingerprint == <<"statement", [u \in Tests |-> 0]>>

HonestPhase(rs, c, phase) ==
  /\ c.ev[phase].run \in DOMAIN rs
  /\ rs[c.ev[phase].run].test = c.test
  /\ c.ev[phase].valid => rs[c.ev[phase].run].status = Expected(phase)
  /\ c.ev[phase].fp = c.ev["red"].fp
  /\ phase # "red" => c.ev["red"].run < c.ev[phase].run

(* A cycle is of the present fingerprint, and never migrated, or of the      *)
(* superseded one, and then nothing can follow its Green but a migration.    *)
Current(c) ==
  /\ \E v \in Nat : c.ev["red"].fp = NodeOf(c.test, v)
  /\ ~Has(c, "migrate")
Legacy(tn, rs, c) ==
  /\ c.ev["red"].fp = LegacyFingerprint
  /\ Has(c, "green") /\ ~Has(c, "refactor")
  /\ rs[c.ev["red"].run].version = 0 /\ rs[c.ev["green"].run].version = 0
  /\ Has(c, "migrate") => c.test \in tn \/ c.ev["migrate"].fp = NodeOf(c.test, 0)

HonestCycle(tn, rs, c) ==
  /\ DOMAIN c = {"id", "test", "requirement", "ev"} /\ c.test \in Tests
  /\ "red" \in DOMAIN c.ev
  /\ \A phase \in RunPhases : Has(c, phase) => HonestPhase(rs, c, phase)
  /\ Current(c) \/ Legacy(tn, rs, c)

HonestFile(tn, rs, cs) == IsLog(cs) /\ \A i \in DOMAIN cs : HonestCycle(tn, rs, cs[i])

HonestRun(rs, c, r) ==
  /\ r \in DOMAIN rs /\ rs[r].test = c.test
  /\ c.phase # "red" => c.cycles[c.at].ev["red"].run < r

HonestTest(c, fp) ==
  /\ \E v \in Nat : fp = NodeOf(c.test, v)
  /\ c.phase # "red" => c.cycles[c.at].ev["red"].fp = fp

(* What a command has found out and read when it gets to a step.             *)
HonestCommand(tn, rs, step, c) ==
  step # "idle" =>
    /\ {"phase", "test", "at", "cycles", "chain"} \subseteq DOMAIN c
    /\ c.phase \in Phases /\ c.test \in Tests
    /\ HonestFile(tn, rs, c.cycles)
    /\ c.phase = "red" => c.at = Len(c.cycles) + 1 /\ "requirement" \in DOMAIN c
    /\ c.phase # "red" => c.at \in DOMAIN c.cycles /\ c.cycles[c.at].test = c.test
    /\ step \in {"run", "assess"} =>
         c.phase \in RunPhases /\ "fp" \in DOMAIN c /\ HonestTest(c, c.fp)
    /\ step = "assess" => "run" \in DOMAIN c /\ HonestRun(rs, c, c.run)
    /\ step = "approve" => c.phase \in {"void", "migrate"}
    /\ step = "fingerprint" =>
         c.phase = "migrate" /\ c.cycles[c.at].ev["red"].fp = LegacyFingerprint
    /\ step \in {"order", "save"} =>
         /\ "evidence" \in DOMAIN c
         /\ {"valid", "fp", "source", "run"} \subseteq DOMAIN c.evidence
         /\ c.phase \in RunPhases =>
              /\ "run" \in DOMAIN c /\ c.evidence.run = c.run
              /\ HonestRun(rs, c, c.run) /\ HonestTest(c, c.evidence.fp)
              /\ c.evidence.valid => rs[c.run].status = Expected(c.phase)
         /\ c.phase = "migrate" =>
              /\ c.cycles[c.at].ev["red"].fp = LegacyFingerprint
              /\ c.test \in tn \/ c.evidence.fp = NodeOf(c.test, 0)

TreeInv ==
  /\ runs \in Seq(TestRun) /\ version \in [Tests -> Nat] /\ source \in Nat
  /\ pc = [p \in Procs |-> pc[p]] /\ cmd = [p \in Procs |-> cmd[p]]
  /\ \A p \in Procs : pc[p] \in {"idle", "run", "assess", "approve", "fingerprint", "order", "save"}

(* Between the two readings of a migration the test is as the superseded     *)
(* fingerprint says, or it is known that it was edited.                      *)
Steady(tn, vs, step, c) == step = "fingerprint" => c.test \in tn \/ vs[c.test] = 0

HonestInv ==
  /\ TreeInv
  /\ HonestFile(torn, runs, cycles)
  /\ \A p \in Procs : HonestCommand(torn, runs, pc[p], cmd[p])
  /\ \A p \in Procs : Steady(torn, version, pc[p], cmd[p])

(* A node is no statement, and names the version of its test.                *)
LEMMA NodesDiffer ==
  ASSUME NEW t, NEW v
  PROVE  /\ NodeOf(t, v) # LegacyFingerprint /\ NodeOf(t, v)[1] # "statement"
         /\ \A w : NodeOf(t, v) = NodeOf(t, w) => v = w
<1>1. NodeOf(t, v)[1] = "node" /\ LegacyFingerprint[1] = "statement"
  BY DEF NodeOf, Node, LegacyFingerprint
<1>2. ASSUME NEW w, NodeOf(t, v) = NodeOf(t, w) PROVE v = w
  <2>1. NodeOf(t, v)[2] = [u \in {t} |-> v] /\ NodeOf(t, w)[2] = [u \in {t} |-> w]
    BY DEF NodeOf, Node
  <2>2. [u \in {t} |-> v][t] = [u \in {t} |-> w][t]
    BY <1>2, <2>1
  <2> QED BY <2>2
<1> QED BY <1>1, <1>2

LEMMA TestNode ==
  ASSUME version \in [Tests -> Nat], NEW t \in Tests
  PROVE  Node(testFingerprint(t)) = NodeOf(t, version[t]) /\ version[t] \in Nat
<1>1. [u \in {t} |-> version[u]] = [u \in {t} |-> version[t]]
  OBVIOUS
<1> QED BY <1>1 DEF testFingerprint, NodeOf

(* Runs are only added.                                                      *)
LEMMA MoreRunsKeepFile ==
  ASSUME NEW rs \in Seq(TestRun), NEW run \in TestRun, NEW cs, HonestFile(torn, rs, cs)
  PROVE  HonestFile(torn, Append(rs, run), cs)
<1>1. \A r \in DOMAIN rs : r \in DOMAIN Append(rs, run) /\ Append(rs, run)[r] = rs[r]
  BY AppendProperties, LenProperties
<1>2. ASSUME NEW i \in DOMAIN cs PROVE HonestCycle(torn, Append(rs, run), cs[i])
  <2>1. HonestCycle(torn, rs, cs[i])
    BY DEF HonestFile
  <2>2. ASSUME NEW phase \in RunPhases, Has(cs[i], phase)
        PROVE  HonestPhase(Append(rs, run), cs[i], phase)
    BY <1>1, <2>1, <2>2 DEF HonestCycle, HonestPhase
  <2>3. cs[i].ev["red"].run \in DOMAIN rs /\ (Has(cs[i], "green") => cs[i].ev["green"].run \in DOMAIN rs)
    BY <2>1 DEF HonestCycle, HonestPhase, RunPhases, Has
  <2>4. Legacy(torn, rs, cs[i]) => Legacy(torn, Append(rs, run), cs[i])
    BY <1>1, <2>3 DEF Legacy
  <2> QED BY <2>1, <2>2, <2>4 DEF HonestCycle
<1> QED BY <1>2 DEF HonestFile

LEMMA MoreRunsKeepCommand ==
  ASSUME NEW rs \in Seq(TestRun), NEW run \in TestRun, NEW step, NEW c,
         HonestCommand(torn, rs, step, c)
  PROVE  HonestCommand(torn, Append(rs, run), step, c)
<1>1. \A r \in DOMAIN rs : r \in DOMAIN Append(rs, run) /\ Append(rs, run)[r] = rs[r]
  BY AppendProperties, LenProperties
<1>2. step # "idle" => HonestFile(torn, Append(rs, run), c.cycles)
  BY MoreRunsKeepFile DEF HonestCommand
<1>3. \A r : HonestRun(rs, c, r) => HonestRun(Append(rs, run), c, r)
  BY <1>1 DEF HonestRun
<1>4. \A r : HonestRun(rs, c, r) => Append(rs, run)[r] = rs[r]
  BY <1>1 DEF HonestRun
<1> QED BY <1>2, <1>3, <1>4 DEF HonestCommand

LEMMA InitIsHonest == Init => HonestInv
<1> SUFFICES ASSUME Init PROVE HonestInv
  OBVIOUS
<1>1. version \in [Tests -> Nat] /\ source \in Nat
      /\ pc = [p \in Procs |-> pc[p]] /\ cmd = [p \in Procs |-> cmd[p]]
      /\ \A p \in Procs : pc[p] = "idle"
  BY DEF Init
<1>2. CASE cycles = <<>> /\ runs = <<>>
  <2>1. HonestFile(torn, runs, cycles) /\ runs \in Seq(TestRun)
    BY <1>2, EmptyLog DEF HonestFile
  <2> QED BY <1>1, <2>1 DEF HonestInv, TreeInv, HonestCommand, Steady
<1>3. CASE \E pair \in Verifies :
             cycles = <<LegacyCycle(pair[1], pair[2])>> /\ runs = LegacyRuns(pair[1])
  <2>1. PICK pair \in Verifies :
             cycles = <<LegacyCycle(pair[1], pair[2])>> /\ runs = LegacyRuns(pair[1])
    BY <1>3
  <2> DEFINE t == pair[1]
             c == LegacyCycle(t, pair[2])
  <2>2. t \in Tests
    BY TddAssumption DEF TddAssumption
  <2>3. /\ runs \in Seq(TestRun) /\ Len(runs) = 2 /\ DOMAIN runs = 1..2
        /\ runs[1] = [test |-> t, version |-> 0, status |-> "failed"]
        /\ runs[2] = [test |-> t, version |-> 0, status |-> "passed"]
    BY <2>1, <2>2 DEF LegacyRuns, TestRun
  <2>4. /\ DOMAIN c = {"id", "test", "requirement", "ev"} /\ c.test = t
        /\ DOMAIN c.ev = {"red", "green"}
        /\ c.ev["red"] = LegacyEvidence(1, 0) /\ c.ev["green"] = LegacyEvidence(2, 1)
    BY DEF LegacyCycle
  <2>5. \A n, s : /\ LegacyEvidence(n, s).run = n /\ LegacyEvidence(n, s).valid
                  /\ LegacyEvidence(n, s).fp = LegacyFingerprint
    BY DEF LegacyEvidence, LegacyFingerprint
  <2>6. HonestCycle(torn, runs, c)
    <3> HIDE DEF c, t
    <3>1. Legacy(torn, runs, c)
      BY <2>3, <2>4, <2>5 DEF Legacy, Has
    <3>2. \A phase \in RunPhases : Has(c, phase) => HonestPhase(runs, c, phase)
      BY <2>3, <2>4, <2>5 DEF HonestPhase, Has, RunPhases, Expected
    <3> QED BY <2>2, <2>4, <3>1, <3>2 DEF HonestCycle
  <2>7. cycles = <<c>> /\ IsLog(<<c>>)
    <3>1. cycles = <<c>>
      BY <2>1
    <3> HIDE DEF c
    <3>2. <<c>> \in Seq({c}) /\ {<<c>>[i] : i \in DOMAIN <<c>>} = {c}
      OBVIOUS
    <3> QED BY <3>1, <3>2 DEF IsLog
  <2>8. HonestFile(torn, runs, cycles)
    <3> HIDE DEF c
    <3>1. \A i \in DOMAIN cycles : cycles[i] = c
      BY <2>7
    <3> QED BY <2>6, <2>7, <3>1 DEF HonestFile
  <2> QED BY <1>1, <2>3, <2>8 DEF HonestInv, TreeInv, HonestCommand, Steady
<1> QED BY <1>2, <1>3 DEF Init

(* A step of one command, as the others see it.                              *)
LEMMA CommandMoves ==
  ASSUME HonestInv, NEW p \in Procs, NEW c,
         NEW step \in {"idle", "run", "assess", "approve", "fingerprint", "order", "save"},
         pc' = [pc EXCEPT ![p] = step], cmd' = [cmd EXCEPT ![p] = c],
         UNCHANGED <<runs, version, source, torn>>,
         HonestFile(torn, runs, cycles'), HonestCommand(torn, runs, step, c),
         step = "fingerprint" => c.test \in torn \/ version[c.test] = 0
  PROVE  HonestInv'
<1>1. /\ pc'[p] = step /\ cmd'[p] = c
      /\ \A q \in Procs : q # p => pc'[q] = pc[q] /\ cmd'[q] = cmd[q]
  BY DEF HonestInv, TreeInv
<1>2. TreeInv'
  BY <1>1 DEF HonestInv, TreeInv
<1>3. \A q \in Procs : HonestCommand(torn', runs', pc'[q], cmd'[q])
  BY <1>1 DEF HonestInv
<1>4. \A q \in Procs : Steady(torn', version', pc'[q], cmd'[q])
  BY <1>1 DEF HonestInv, Steady
<1>5. HonestFile(torn', runs', cycles')
  OBVIOUS
<1> QED BY <1>2, <1>3, <1>4, <1>5 DEF HonestInv

LEMMA ReturnIsHonest ==
  ASSUME HonestInv, NEW p \in Procs, Return(p), UNCHANGED <<runs, version, source, torn, cycles>>
  PROVE  HonestInv'
<1>1. HonestCommand(torn, runs, "idle", NoCommand)
  BY DEF HonestCommand
<1>2. HonestFile(torn, runs, cycles')
  BY DEF HonestInv
<1> QED BY <1>1, <1>2, CommandMoves DEF Return, Goto

LEMMA StartPhaseIsHonest ==
  ASSUME HonestInv, NEW p \in Procs, NEW phase \in RunPhases, NEW t \in Tests, NEW r,
         StartPhase(p, phase, t, r)
  PROVE  HonestInv'
<1> DEFINE fp == Node(testFingerprint(t))
           i == PendingCycle(cycles, t, r)
           c == [phase |-> phase, test |-> t, requirement |-> r,
                 at |-> IF phase = "red" THEN Len(cycles) + 1 ELSE i,
                 cycles |-> cycles, chain |-> chain, fp |-> fp]
<1>1. /\ cmd' = [cmd EXCEPT ![p] = c] /\ pc' = [pc EXCEPT ![p] = "run"]
      /\ UNCHANGED <<cycles, runs, version, source, torn>>
      /\ phase # "red" => i # 0 /\ cycles[i].ev["red"].fp = fp
  BY DEF StartPhase, Starts, Goto, Continues, diskVars, treeVars, histVars
<1>2. HonestFile(torn, runs, cycles)
  BY DEF HonestInv
<1>3. phase # "red" => i \in DOMAIN cycles /\ cycles[i].test = t
  BY <1>1, <1>2, PendingIsOfPair DEF HonestFile
<1>4. \E v \in Nat : fp = NodeOf(t, v)
  BY TestNode DEF HonestInv, TreeInv
<1> HIDE DEF fp, i
<1>5. HonestCommand(torn, runs, "run", c)
  BY <1>1, <1>2, <1>3, <1>4 DEF HonestCommand, HonestTest, RunPhases, Phases
<1> HIDE DEF c
<1> QED BY <1>1, <1>2, <1>5, CommandMoves

LEMMA StartApprovalIsHonest ==
  ASSUME HonestInv, NEW p \in Procs, NEW t \in Tests, StartVoid(p, t) \/ StartMigrate(p, t)
  PROVE  HonestInv'
<1> DEFINE i == LatestCycle(cycles, t)
           c(phase) == [phase |-> phase, test |-> t, at |-> i, cycles |-> cycles, chain |-> chain]
<1>1. PICK phase \in {"void", "migrate"} :
      /\ cmd' = [cmd EXCEPT ![p] = c(phase)] /\ pc' = [pc EXCEPT ![p] = "approve"]
      /\ UNCHANGED <<cycles, runs, version, source, torn>> /\ i # 0
  BY DEF StartVoid, StartMigrate, Starts, Goto, diskVars, treeVars, histVars
<1>2. HonestFile(torn, runs, cycles)
  BY DEF HonestInv
<1>3. i \in DOMAIN cycles /\ cycles[i].test = t
  BY <1>1, <1>2, LatestIsLast DEF HonestFile
<1> HIDE DEF i
<1>4. HonestCommand(torn, runs, "approve", c(phase))
  BY <1>2, <1>3 DEF HonestCommand, Phases
<1> HIDE DEF c
<1> QED BY <1>1, <1>2, <1>4, CommandMoves

LEMMA ExecuteIsHonest ==
  ASSUME HonestInv, NEW p \in Procs, Execute(p) PROVE HonestInv'
<1> DEFINE n == Len(runs) + 1
           c == WithField(cmd[p], "run", n)
<1>1. PICK status \in {"failed", "passed"} :
        runs' = Append(runs, [test |-> cmd[p].test, version |-> version[cmd[p].test],
                              status |-> status])
  BY DEF Execute
<1> DEFINE run == [test |-> cmd[p].test, version |-> version[cmd[p].test],
                   status |-> status]
<1>2. /\ pc[p] = "run" /\ pc' = [pc EXCEPT ![p] = "assess"]
      /\ cmd' = [cmd EXCEPT ![p] = c] /\ UNCHANGED <<cycles, version, source, torn>>
  BY DEF Execute, Goto, diskVars, treeVars, histVars
<1>3. /\ runs \in Seq(TestRun) /\ HonestCommand(torn, runs, "run", cmd[p]) /\ cmd[p].test \in Tests
      /\ version[cmd[p].test] \in Nat /\ source \in Nat
  BY <1>2 DEF HonestInv, TreeInv, HonestCommand
<1>4. run \in TestRun /\ run.test = cmd[p].test
  BY <1>3 DEF TestRun
<1> HIDE DEF run
<1>5. runs' = Append(runs, run)
  BY <1>1 DEF run
<1>6. runs' \in Seq(TestRun) /\ n \in DOMAIN runs' /\ runs'[n] = run /\ DOMAIN runs = 1..Len(runs)
  BY <1>3, <1>4, <1>5, AppendProperties, LenProperties
<1>7. /\ DOMAIN c = DOMAIN cmd[p] \union {"run"} /\ c.run = n
      /\ \A f \in DOMAIN cmd[p] : f # "run" => c[f] = cmd[p][f]
  BY DEF WithField
<1> HIDE DEF c
<1>8. HonestCommand(torn, runs', "run", cmd[p])
  BY <1>3, <1>4, <1>5, MoreRunsKeepCommand
<1>9. cmd[p].phase # "red" => cmd[p].cycles[cmd[p].at].ev["red"].run < n
  <2>1. cmd[p].phase # "red" => HonestCycle(torn, runs, cmd[p].cycles[cmd[p].at])
    BY <1>3 DEF HonestCommand, HonestFile
  <2>2. cmd[p].phase # "red" => cmd[p].cycles[cmd[p].at].ev["red"].run \in DOMAIN runs
    BY <2>1 DEF HonestCycle, HonestPhase, RunPhases, Has
  <2> QED BY <1>3, <1>6, <2>2, LenProperties
<1>10. HonestCommand(torn, runs', "assess", c)
  <2>1. {"phase", "test", "at", "cycles", "chain", "fp"} \subseteq DOMAIN cmd[p]
    BY <1>3 DEF HonestCommand
  <2>2. /\ c.phase = cmd[p].phase /\ c.test = cmd[p].test /\ c.at = cmd[p].at
        /\ c.cycles = cmd[p].cycles /\ c.chain = cmd[p].chain /\ c.fp = cmd[p].fp
    BY <1>7, <2>1
  <2>3. HonestRun(runs', c, c.run)
    BY <1>4, <1>6, <1>7, <1>9, <2>2 DEF HonestRun
  <2>4. HonestTest(c, c.fp)
    BY <1>8, <2>2 DEF HonestCommand, HonestTest
  <2> HIDE DEF n
  <2> QED BY <1>7, <1>8, <2>1, <2>2, <2>3, <2>4 DEF HonestCommand
<1>11. TreeInv'
  BY <1>2, <1>6 DEF HonestInv, TreeInv
<1>12. HonestFile(torn, runs', cycles')
  BY <1>2, <1>3, <1>4, <1>5, MoreRunsKeepFile DEF HonestInv
<1>13. ASSUME NEW q \in Procs
      PROVE  HonestCommand(torn, runs', pc'[q], cmd'[q]) /\ Steady(torn, version, pc'[q], cmd'[q])
  <2>1. HonestCommand(torn, runs', pc[q], cmd[q])
    BY <1>3, <1>4, <1>5, MoreRunsKeepCommand DEF HonestInv
  <2>2. q # p => pc'[q] = pc[q] /\ cmd'[q] = cmd[q]
    BY <1>2 DEF HonestInv, TreeInv
  <2>3. q = p => pc'[q] = "assess" /\ cmd'[q] = c
    BY <1>2 DEF HonestInv, TreeInv
  <2>4. Steady(torn, version, pc'[q], cmd'[q])
    BY <2>2, <2>3 DEF HonestInv, Steady
  <2> QED BY <1>10, <2>1, <2>2, <2>3, <2>4
<1>14. torn' = torn /\ version' = version
  BY <1>2
<1> QED BY <1>11, <1>12, <1>13, <1>14 DEF HonestInv

LEMMA AssessIsHonest ==
  ASSUME HonestInv, NEW p \in Procs, Assess(p) PROVE HonestInv'
<1>1. PICK report \in Reports(p) :
      /\ pc[p] = "assess" /\ pc' = [pc EXCEPT ![p] = "order"]
      /\ cmd' = [cmd EXCEPT ![p] = WithField(@, "evidence",
            [valid |-> ValidPhase(p, report), fp |-> cmd[p].fp, source |-> source,
             run |-> cmd[p].run])]
      /\ UNCHANGED <<cycles, runs, version, source, torn>>
  BY DEF Assess, Goto, diskVars, treeVars, histVars
<1> DEFINE e == [valid |-> ValidPhase(p, report), fp |-> cmd[p].fp, source |-> source,
                 run |-> cmd[p].run]
           c == WithField(cmd[p], "evidence", e)
<1>0. cmd' = [cmd EXCEPT ![p] = c]
  BY <1>1
<1>2. HonestCommand(torn, runs, "assess", cmd[p]) /\ HonestFile(torn, runs, cycles')
  BY <1>1 DEF HonestInv
<1>3. /\ DOMAIN c = DOMAIN cmd[p] \union {"evidence"} /\ c.evidence = e
      /\ \A f \in DOMAIN cmd[p] : f # "evidence" => c[f] = cmd[p][f]
  BY DEF WithField
<1>4. e.valid => runs[cmd[p].run].status = Expected(cmd[p].phase)
  BY DEF ValidPhase
<1>5. DOMAIN e = {"valid", "fp", "source", "run"} /\ e.fp = cmd[p].fp /\ e.run = cmd[p].run
  OBVIOUS
<1> HIDE DEF c, e
<1>6. HonestCommand(torn, runs, "order", c)
  <2>1. {"phase", "test", "at", "cycles", "chain", "fp", "run"} \subseteq DOMAIN cmd[p]
    BY <1>2 DEF HonestCommand
  <2>2. /\ c.phase = cmd[p].phase /\ c.test = cmd[p].test /\ c.at = cmd[p].at
        /\ c.cycles = cmd[p].cycles /\ c.chain = cmd[p].chain /\ c.fp = cmd[p].fp
        /\ c.run = cmd[p].run
        /\ (c.phase = "red" /\ "requirement" \in DOMAIN cmd[p] => "requirement" \in DOMAIN c)
    BY <1>3, <2>1
  <2>3. HonestRun(runs, c, c.run) /\ HonestTest(c, c.evidence.fp)
    BY <1>2, <1>3, <1>5, <2>2 DEF HonestCommand, HonestRun, HonestTest
  <2>4. c.phase \in RunPhases
    BY <1>2, <2>2 DEF HonestCommand
  <2> QED BY <1>2, <1>3, <1>4, <1>5, <2>1, <2>2, <2>3, <2>4 DEF HonestCommand, RunPhases
<1> QED BY <1>0, <1>1, <1>2, <1>6, CommandMoves

(* The cycle that stands for a test whose last runs still match under the    *)
(* superseded algorithm is of that algorithm.                                *)
LEMMA MigratableIsLegacy ==
  ASSUME TreeInv, NEW c, HonestCycle(torn, runs, c), Migratable(c)
  PROVE  c.ev["red"].fp = LegacyFingerprint /\ version[c.test] = 0
<1>1. /\ LatestPass(c).fp = <<"statement", [u \in Tests |-> version[u]]>>
      /\ Passed(c, "green") /\ c.test \in Tests
  BY DEF Migratable, legacyTestFingerprint, HonestCycle
<1>2. LatestPass(c).fp = c.ev["red"].fp
  BY <1>1 DEF HonestCycle, HonestPhase, LatestPass, Passed, RunPhases
<1>3. c.ev["red"].fp[1] = "statement" /\ c.ev["red"].fp[2] = [u \in Tests |-> version[u]]
  BY <1>1, <1>2
<1>4. ~Current(c)
  BY <1>3, NodesDiffer DEF Current
<1>5. c.ev["red"].fp = LegacyFingerprint
  BY <1>4 DEF HonestCycle, Legacy
<1>6. [u \in Tests |-> version[u]] = [u \in Tests |-> 0]
  BY <1>3, <1>5 DEF LegacyFingerprint
<1>7. version[c.test] = [u \in Tests |-> 0][c.test]
  BY <1>1, <1>6, Zenon
<1> QED BY <1>1, <1>5, <1>7

LEMMA StandingIsOfTest ==
  ASSUME NEW cs, IsLog(cs), NEW log, IsLog(log), NEW ch, NEW i \in DOMAIN cs
  PROVE  Standing(cs, log, ch, i) \in DOMAIN cs /\ cs[Standing(cs, log, ch, i)].test = cs[i].test
BY EffectiveStands DEF Standing

LEMMA ApproveVoidIsHonest ==
  ASSUME HonestInv, NEW p \in Procs, ApproveVoid(p) PROVE HonestInv'
<1> DEFINE e == Approval(p)
           c == WithField(cmd[p], "evidence", e)
<1>1. /\ pc[p] = "approve" /\ cmd[p].phase = "void"
      /\ UNCHANGED <<cycles, runs, version, source, torn>>
      /\ (cmd' = [cmd EXCEPT ![p] = c] /\ pc' = [pc EXCEPT ![p] = "order"]) \/ Return(p)
  BY DEF ApproveVoid, Goto, diskVars, treeVars, histVars
<1>2. HonestCommand(torn, runs, "approve", cmd[p]) /\ HonestFile(torn, runs, cycles')
  BY <1>1 DEF HonestInv
<1>3. DOMAIN e = {"valid", "fp", "source", "run"}
  BY DEF Approval
<1> HIDE DEF e
<1>4. /\ DOMAIN c = DOMAIN cmd[p] \union {"evidence"} /\ c.evidence = e
      /\ \A f \in DOMAIN cmd[p] : f # "evidence" => c[f] = cmd[p][f]
  BY DEF WithField
<1> HIDE DEF c
<1>5. HonestCommand(torn, runs, "order", c)
  <2>1. {"phase", "test", "at", "cycles", "chain"} \subseteq DOMAIN cmd[p]
    BY <1>2 DEF HonestCommand
  <2>2. c.phase = "void" /\ c.test = cmd[p].test /\ c.at = cmd[p].at /\ c.cycles = cmd[p].cycles
    BY <1>1, <1>4, <2>1
  <2> QED BY <1>1, <1>2, <1>3, <1>4, <2>1, <2>2 DEF HonestCommand, RunPhases
<1>6. CASE Return(p)
  BY <1>1, <1>6, ReturnIsHonest
<1>7. CASE cmd' = [cmd EXCEPT ![p] = c] /\ pc' = [pc EXCEPT ![p] = "order"]
  BY <1>1, <1>2, <1>5, <1>7, CommandMoves
<1> QED BY <1>1, <1>6, <1>7

LEMMA ApproveMigrateIsHonest ==
  ASSUME HonestInv, LogInv, NEW p \in Procs, ApproveMigrate(p) PROVE HonestInv'
<1> DEFINE cs == cmd[p].cycles
           target == Standing(cs, order, cmd[p].chain, cmd[p].at)
           c == [cmd[p] EXCEPT !.at = target]
<1>1. /\ pc[p] = "approve" /\ cmd[p].phase = "migrate"
      /\ UNCHANGED <<cycles, runs, version, source, torn>>
      /\ \/ /\ Migratable(cs[target])
            /\ cmd' = [cmd EXCEPT ![p] = c] /\ pc' = [pc EXCEPT ![p] = "fingerprint"]
         \/ Return(p)
  BY DEF ApproveMigrate, Goto, diskVars, treeVars, histVars
<1>2. HonestCommand(torn, runs, "approve", cmd[p]) /\ HonestFile(torn, runs, cycles')
  BY <1>1 DEF HonestInv
<1>3. /\ {"phase", "test", "at", "cycles", "chain"} \subseteq DOMAIN cmd[p]
      /\ cmd[p].test \in Tests /\ IsLog(cs) /\ HonestFile(torn, runs, cs)
      /\ cmd[p].at \in DOMAIN cs /\ cs[cmd[p].at].test = cmd[p].test
  BY <1>1, <1>2 DEF HonestCommand, HonestFile
<1>4. target \in DOMAIN cs /\ cs[target].test = cmd[p].test
  BY <1>3, StandingIsOfTest DEF LogInv
<1> HIDE DEF target
<1>5. /\ DOMAIN c = DOMAIN cmd[p] /\ c.at = target
      /\ c.phase = "migrate" /\ c.test = cmd[p].test /\ c.cycles = cs
  BY <1>1, <1>3
<1> HIDE DEF c
<1>6. CASE Return(p)
  BY <1>1, <1>6, ReturnIsHonest
<1>7. CASE /\ Migratable(cs[target])
           /\ cmd' = [cmd EXCEPT ![p] = c] /\ pc' = [pc EXCEPT ![p] = "fingerprint"]
  <2>1. HonestCycle(torn, runs, cs[target])
    BY <1>3, <1>4 DEF HonestFile
  <2>2. cs[target].ev["red"].fp = LegacyFingerprint /\ version[c.test] = 0
    BY <1>4, <1>5, <1>7, <2>1, MigratableIsLegacy DEF HonestInv
  <2>3. HonestCommand(torn, runs, "fingerprint", c)
    BY <1>3, <1>4, <1>5, <2>2 DEF HonestCommand, Phases
  <2> HIDE DEF cs
  <2> QED BY <1>1, <1>2, <1>7, <2>2, <2>3, CommandMoves
<1> QED BY <1>1, <1>6, <1>7

LEMMA FingerprintIsHonest ==
  ASSUME HonestInv, NEW p \in Procs, Fingerprint(p) PROVE HonestInv'
<1> DEFINE e == Approval(p)
           c == WithField(cmd[p], "evidence", e)
<1>1. /\ pc[p] = "fingerprint" /\ UNCHANGED <<cycles, runs, version, source, torn>>
      /\ cmd' = [cmd EXCEPT ![p] = c] /\ pc' = [pc EXCEPT ![p] = "order"]
  BY DEF Fingerprint, Goto, diskVars, treeVars, histVars
<1>2. /\ HonestCommand(torn, runs, "fingerprint", cmd[p]) /\ HonestFile(torn, runs, cycles')
      /\ Steady(torn, version, "fingerprint", cmd[p])
  BY <1>1 DEF HonestInv
<1>3. DOMAIN e = {"valid", "fp", "source", "run"} /\ e.fp = Node(testFingerprint(cmd[p].test))
  BY DEF Approval
<1> HIDE DEF e
<1>4. /\ DOMAIN c = DOMAIN cmd[p] \union {"evidence"} /\ c.evidence = e
      /\ \A f \in DOMAIN cmd[p] : f # "evidence" => c[f] = cmd[p][f]
  BY DEF WithField
<1> HIDE DEF c
<1>5. cmd[p].test \in torn \/ e.fp = NodeOf(cmd[p].test, 0)
  <2>1. e.fp = NodeOf(cmd[p].test, version[cmd[p].test])
    BY <1>2, <1>3, TestNode DEF HonestInv, TreeInv, HonestCommand
  <2> QED BY <1>2, <2>1 DEF Steady
<1>6. HonestCommand(torn, runs, "order", c)
  <2>1. {"phase", "test", "at", "cycles", "chain"} \subseteq DOMAIN cmd[p] /\ cmd[p].phase = "migrate"
    BY <1>2 DEF HonestCommand
  <2>2. c.phase = "migrate" /\ c.test = cmd[p].test /\ c.at = cmd[p].at /\ c.cycles = cmd[p].cycles
    BY <1>4, <2>1
  <2> QED BY <1>2, <1>3, <1>4, <1>5, <2>1, <2>2 DEF HonestCommand, RunPhases
<1> QED BY <1>1, <1>2, <1>6, CommandMoves

LEMMA AppendPhaseIsHonest ==
  ASSUME HonestInv, NEW p \in Procs, AppendPhase(p) PROVE HonestInv'
<1> DEFINE n == Len(seen[p]) + 1
           e == WithField(cmd[p].evidence, "order", n)
           c == [cmd[p] EXCEPT !.evidence = e]
<1>1. /\ pc[p] = "order" /\ UNCHANGED <<cycles, runs, version, source, torn>>
  BY DEF AppendPhase, diskVars, treeVars, histVars
<1>2. CASE Refused(p, "tdd", TargetId(p), cmd[p].phase)
  BY <1>1, <1>2, ReturnIsHonest DEF AppendPhase
<1>3. CASE ~Refused(p, "tdd", TargetId(p), cmd[p].phase)
  <2>1. /\ pc' = [pc EXCEPT ![p] = "save"]
        /\ cmd' = [cmd EXCEPT ![p].evidence = WithField(@, "order", Len(seen[p]) + 1)]
    BY <1>3 DEF AppendPhase, Goto
  <2>2. cmd' = [cmd EXCEPT ![p] = c]
    BY <2>1
  <2>3. HonestCommand(torn, runs, "order", cmd[p]) /\ HonestFile(torn, runs, cycles')
    BY <1>1 DEF HonestInv
  <2>4. /\ {"phase", "test", "at", "cycles", "chain", "evidence"} \subseteq DOMAIN cmd[p]
        /\ {"valid", "fp", "source", "run"} \subseteq DOMAIN cmd[p].evidence
    BY <2>3 DEF HonestCommand
  <2>5. /\ DOMAIN e = DOMAIN cmd[p].evidence \union {"order"}
        /\ e.valid = cmd[p].evidence.valid /\ e.fp = cmd[p].evidence.fp
        /\ e.run = cmd[p].evidence.run
    BY <2>4 DEF WithField
  <2> HIDE DEF e
  <2>6. DOMAIN c = DOMAIN cmd[p] /\ c.evidence = e
        /\ \A f \in DOMAIN cmd[p] : f # "evidence" => c[f] = cmd[p][f]
    BY <2>4
  <2> HIDE DEF c
  <2>7. /\ c.phase = cmd[p].phase /\ c.test = cmd[p].test /\ c.at = cmd[p].at
        /\ c.cycles = cmd[p].cycles
        /\ ("run" \in DOMAIN cmd[p] => c.run = cmd[p].run)
    BY <2>4, <2>6
  <2>8. c.phase \in RunPhases =>
          /\ "run" \in DOMAIN c /\ c.evidence.run = c.run
          /\ HonestRun(runs, c, c.run) /\ HonestTest(c, c.evidence.fp)
          /\ c.evidence.valid => runs[c.run].status = Expected(c.phase)
    BY <2>3, <2>5, <2>6, <2>7 DEF HonestCommand, HonestRun, HonestTest
  <2>9. HonestCommand(torn, runs, "save", c)
    BY <2>3, <2>4, <2>5, <2>6, <2>7, <2>8 DEF HonestCommand
  <2> QED BY <1>1, <2>1, <2>2, <2>3, <2>9, CommandMoves
<1> QED BY <1>2, <1>3

LEMMA NewCycleIsHonest ==
  ASSUME NEW rs, NEW p \in Procs, HonestCommand(torn, rs, "save", cmd[p]), cmd[p].phase = "red"
  PROVE  HonestCycle(torn, rs, SavedCycle(p)) /\ SavedCycle(p).test = cmd[p].test
<1> DEFINE new == SavedCycle(p)
<1>1. /\ DOMAIN new = {"id", "test", "requirement", "ev"} /\ new.test = cmd[p].test
      /\ DOMAIN new.ev = {"red"} /\ new.ev["red"] = cmd[p].evidence
  BY DEF SavedCycle
<1>2. /\ cmd[p].evidence.run = cmd[p].run /\ cmd[p].test \in Tests
      /\ HonestRun(rs, cmd[p], cmd[p].run) /\ HonestTest(cmd[p], cmd[p].evidence.fp)
      /\ cmd[p].evidence.valid => rs[cmd[p].run].status = Expected(cmd[p].phase)
  BY DEF HonestCommand, RunPhases
<1> HIDE DEF new
<1>3. HonestPhase(rs, new, "red")
  BY <1>1, <1>2 DEF HonestPhase, HonestRun
<1>4. Current(new)
  BY <1>1, <1>2 DEF Current, HonestTest, Has
<1>5. HonestCycle(torn, rs, new)
  BY <1>1, <1>2, <1>3, <1>4 DEF HonestCycle, Has
<1> QED BY <1>1, <1>5 DEF new

LEMMA ContinuedCycleIsHonest ==
  ASSUME NEW rs, NEW p \in Procs, HonestCommand(torn, rs, "save", cmd[p]), cmd[p].phase # "red"
  PROVE  HonestCycle(torn, rs, SavedCycle(p)) /\ SavedCycle(p).test = cmd[p].test
<1> DEFINE old == cmd[p].cycles[cmd[p].at]
           new == SavedCycle(p)
           ph == cmd[p].phase
           e == cmd[p].evidence
<1>1. /\ HonestCycle(torn, rs, old) /\ old.test = cmd[p].test /\ ph \in Phases \ {"red"}
  BY DEF HonestCommand, HonestFile
<1>2. DOMAIN old = {"id", "test", "requirement", "ev"} /\ "red" \in DOMAIN old.ev
  BY <1>1 DEF HonestCycle
<1>3. new = [old EXCEPT !.ev = WithField(@, ph, e)]
  BY DEF SavedCycle
<1>4. /\ ph \in RunPhases =>
           /\ e.run = cmd[p].run
           /\ HonestRun(rs, cmd[p], cmd[p].run) /\ HonestTest(cmd[p], e.fp)
           /\ e.valid => rs[cmd[p].run].status = Expected(ph)
      /\ ph = "migrate" => /\ old.ev["red"].fp = LegacyFingerprint
                           /\ cmd[p].test \in torn \/ e.fp = NodeOf(cmd[p].test, 0)
  BY DEF HonestCommand
<1>5. ph \in RunPhases =>
        /\ e.run \in DOMAIN rs /\ rs[e.run].test = old.test /\ old.ev["red"].run < e.run
        /\ e.fp = old.ev["red"].fp /\ \E v \in Nat : old.ev["red"].fp = NodeOf(old.test, v)
        /\ e.valid => rs[e.run].status = Expected(ph)
  BY <1>1, <1>4 DEF HonestRun, HonestTest
<1> HIDE DEF old, new, ph, e
<1>6. /\ DOMAIN new = DOMAIN old /\ new.test = old.test
      /\ new.ev = WithField(old.ev, ph, e)
  BY <1>2, <1>3
<1>7. /\ DOMAIN new.ev = DOMAIN old.ev \union {ph} /\ new.ev[ph] = e
      /\ \A f \in DOMAIN old.ev : f # ph => new.ev[f] = old.ev[f]
  BY <1>6 DEF WithField
<1>8. new.ev["red"] = old.ev["red"]
  BY <1>1, <1>2, <1>7
<1>9. ASSUME NEW phase \in RunPhases, Has(new, phase) PROVE HonestPhase(rs, new, phase)
  <2>1. CASE phase = ph
    BY <1>1, <1>5, <1>6, <1>7, <1>8, <2>1 DEF HonestPhase
  <2>2. CASE phase # ph
    <3>1. Has(old, phase) /\ new.ev[phase] = old.ev[phase]
      BY <1>7, <1>9, <2>2 DEF Has
    <3>2. HonestPhase(rs, old, phase)
      BY <1>1, <3>1 DEF HonestCycle
    <3> QED BY <1>6, <1>8, <3>1, <3>2 DEF HonestPhase
  <2> QED BY <2>1, <2>2
<1>10. Current(new) \/ Legacy(torn, rs, new)
  <2>1. CASE ph \in RunPhases
    <3>1. Current(old)
      <4>1. ~Legacy(torn, rs, old)
        BY <1>5, <2>1, NodesDiffer DEF Legacy
      <4> QED BY <1>1, <4>1 DEF HonestCycle
    <3> QED BY <1>6, <1>7, <1>8, <2>1, <3>1 DEF Current, Has, RunPhases
  <2>2. CASE ph = "migrate"
    <3>1. Legacy(torn, rs, old)
      <4>1. old.ev["red"].fp = LegacyFingerprint
        BY <1>4, <2>2
      <4>2. ~Current(old)
        BY <4>1, NodesDiffer DEF Current
      <4> QED BY <1>1, <4>2 DEF HonestCycle
    <3>2. old.test = cmd[p].test /\ (old.test \in torn \/ e.fp = NodeOf(old.test, 0))
      BY <1>1, <1>4, <2>2
    <3> QED BY <1>6, <1>7, <1>8, <2>2, <3>1, <3>2 DEF Legacy, Has
  <2>3. CASE ph = "void"
    <3>1. Current(old) => Current(new)
      BY <1>6, <1>7, <1>8, <2>3 DEF Current, Has
    <3>2. Legacy(torn, rs, old) => Legacy(torn, rs, new)
      BY <1>6, <1>7, <1>8, <2>3 DEF Legacy, Has
    <3> QED BY <1>1, <3>1, <3>2 DEF HonestCycle
  <2> QED BY <1>1, <2>1, <2>2, <2>3 DEF Phases, RunPhases
<1>11. HonestCycle(torn, rs, new)
  BY <1>1, <1>2, <1>6, <1>7, <1>9, <1>10 DEF HonestCycle
<1> QED BY <1>1, <1>6, <1>11 DEF new

LEMMA SavedCycleIsHonest ==
  ASSUME NEW rs, NEW p \in Procs, HonestCommand(torn, rs, "save", cmd[p])
  PROVE  HonestCycle(torn, rs, SavedCycle(p)) /\ SavedCycle(p).test = cmd[p].test
BY NewCycleIsHonest, ContinuedCycleIsHonest

(* What SaveEvidence writes is one more cycle, or as many.                   *)
LEMMA SavedFileIsLog ==
  ASSUME NEW cs, IsLog(cs), NEW at, at \in DOMAIN cs \/ at = Len(cs) + 1,
         NEW t, DOMAIN t = DOMAIN cs \union {at}, t = [i \in DOMAIN t |-> t[i]]
  PROVE  IsLog(t)
<1>1. Len(cs) \in Nat /\ DOMAIN cs = 1..Len(cs)
  BY LogIndices
<1>2. PICK n \in Nat : DOMAIN cs \union {at} = 1..n
  <2>1. CASE at \in DOMAIN cs
    BY <1>1, <2>1
  <2>2. CASE at = Len(cs) + 1
    <3>1. DOMAIN cs \union {at} = 1..(Len(cs) + 1)
      BY <1>1, <2>2
    <3> QED BY <1>1, <3>1
  <2> QED BY <2>1, <2>2
<1>3. DOMAIN t = 1..n
  BY <1>2
<1> DEFINE S == {t[j] : j \in DOMAIN t}
<1>6. t \in Seq(S)
  <2>1. t \in [1..n -> S]
    BY <1>3
  <2> HIDE DEF S
  <2> QED BY <1>2, <2>1, SeqDef
<1> QED BY <1>6 DEF IsLog

LEMMA SaveIsHonest ==
  ASSUME HonestInv, NEW p \in Procs, SaveEvidence(p) PROVE HonestInv'
<1> DEFINE cs == cmd[p].cycles
           at == cmd[p].at
<1>1. /\ pc[p] = "save" /\ Return(p) /\ UNCHANGED <<runs, version, source, torn>>
      /\ cycles' = [i \in DOMAIN cs \union {at} |-> IF i = at THEN SavedCycle(p) ELSE cs[i]]
  BY DEF SaveEvidence, treeVars, histVars
<1>2. HonestCommand(torn, runs, "save", cmd[p])
  BY <1>1 DEF HonestInv
<1>3. HonestFile(torn, runs, cs) /\ IsLog(cs) /\ (at \in DOMAIN cs \/ at = Len(cs) + 1)
  BY <1>2 DEF HonestCommand, HonestFile
<1>4. HonestCycle(torn, runs, SavedCycle(p))
  BY <1>2, SavedCycleIsHonest
<1> HIDE DEF cs, at
<1>5. IsLog(cycles')
  <2>1. DOMAIN cycles' = DOMAIN cs \union {at} /\ cycles' = [i \in DOMAIN cycles' |-> cycles'[i]]
    BY <1>1
  <2> QED BY <1>3, <2>1, SavedFileIsLog
<1>6. \A i \in DOMAIN cycles' : HonestCycle(torn, runs, cycles'[i])
  BY <1>1, <1>3, <1>4 DEF HonestFile
<1>7. HonestFile(torn, runs, cycles')
  BY <1>5, <1>6 DEF HonestFile
<1>8. HonestCommand(torn, runs, "idle", NoCommand)
  BY DEF HonestCommand
<1> QED BY <1>1, <1>7, <1>8, CommandMoves DEF Return, Goto

LEMMA CommandIsHonest ==
  ASSUME HonestInv, LogInv, NEW p \in Procs, Command(p) PROVE HonestInv'
<1>1. ASSUME NEW phase \in RunPhases, NEW t \in Tests, NEW r \in Requirements,
             StartPhase(p, phase, t, r)
      PROVE  HonestInv'
  BY <1>1, StartPhaseIsHonest
<1>2. ASSUME NEW t \in Tests, StartVoid(p, t) \/ StartMigrate(p, t) PROVE HonestInv'
  BY <1>2, StartApprovalIsHonest
<1>3. CASE Execute(p)
  BY <1>3, ExecuteIsHonest
<1>4. CASE Assess(p)
  BY <1>4, AssessIsHonest
<1>5. CASE ApproveVoid(p) \/ ApproveMigrate(p) \/ Fingerprint(p)
  BY <1>5, ApproveVoidIsHonest, ApproveMigrateIsHonest, FingerprintIsHonest
<1>6. CASE AppendPhase(p)
  BY <1>6, AppendPhaseIsHonest
<1>7. CASE SaveEvidence(p)
  BY <1>7, SaveIsHonest
<1>8. CASE Crash(p)
  BY <1>8, ReturnIsHonest DEF Crash, diskVars, treeVars, histVars
<1> QED BY <1>1, <1>2, <1>3, <1>4, <1>5, <1>6, <1>7, <1>8 DEF Command

(* To know of one more test that it was edited takes nothing away.           *)
LEMMA MoreTornKeepsFile ==
  ASSUME NEW tn, NEW more, tn \subseteq more, NEW rs, NEW cs, HonestFile(tn, rs, cs)
  PROVE  HonestFile(more, rs, cs)
<1>1. ASSUME NEW i \in DOMAIN cs PROVE HonestCycle(more, rs, cs[i])
  <2>1. HonestCycle(tn, rs, cs[i])
    BY DEF HonestFile
  <2>2. Legacy(tn, rs, cs[i]) => Legacy(more, rs, cs[i])
    BY DEF Legacy
  <2> QED BY <2>1, <2>2 DEF HonestCycle
<1> QED BY <1>1 DEF HonestFile

LEMMA MoreTornKeepsCommand ==
  ASSUME NEW tn, NEW more, tn \subseteq more, NEW rs, NEW step, NEW c,
         HonestCommand(tn, rs, step, c)
  PROVE  HonestCommand(more, rs, step, c)
<1>1. step # "idle" => HonestFile(more, rs, c.cycles)
  BY MoreTornKeepsFile DEF HonestCommand
<1> QED BY <1>1 DEF HonestCommand

LEMMA EditTestIsHonest ==
  ASSUME HonestInv, NEW t \in Tests, EditTest(t) PROVE HonestInv'
<1>1. PICK v \in 0..MaxVersion : version' = [version EXCEPT ![t] = v]
  BY DEF EditTest
<1>2. /\ UNCHANGED <<cycles, runs, source, pc, cmd>> /\ torn \subseteq torn'
      /\ (\E p \in Procs : pc[p] = "fingerprint" /\ cmd[p].test = t) => t \in torn'
  BY DEF EditTest, diskVars
<1>3. version' \in [Tests -> Nat] /\ \A u \in Tests : u # t => version'[u] = version[u]
  BY <1>1 DEF HonestInv, TreeInv
<1>4. TreeInv'
  BY <1>2, <1>3 DEF HonestInv, TreeInv
<1>5. /\ HonestFile(torn', runs', cycles')
      /\ \A p \in Procs : HonestCommand(torn', runs', pc'[p], cmd'[p])
  BY <1>2, MoreTornKeepsFile, MoreTornKeepsCommand DEF HonestInv
<1>6. ASSUME NEW p \in Procs, pc[p] = "fingerprint"
      PROVE  cmd[p].test \in torn' \/ version'[cmd[p].test] = 0
  <2>1. cmd[p].test \in Tests /\ (cmd[p].test \in torn \/ version[cmd[p].test] = 0)
    BY <1>6 DEF HonestInv, HonestCommand, Steady
  <2> QED BY <1>2, <1>3, <1>6, <2>1
<1>7. \A p \in Procs : Steady(torn', version', pc'[p], cmd'[p])
  BY <1>2, <1>6 DEF Steady
<1> QED BY <1>4, <1>5, <1>7 DEF HonestInv

LEMMA NextIsHonest == HonestInv /\ LogInv /\ [Next]_vars => HonestInv'
<1> SUFFICES ASSUME HonestInv, LogInv, [Next]_vars PROVE HonestInv'
  OBVIOUS
<1>1. ASSUME NEW p \in Procs, Command(p) PROVE HonestInv'
  BY <1>1, CommandIsHonest
<1>2. ASSUME UNCHANGED <<cycles, runs, version, torn, pc, cmd>>, source' \in Nat
      PROVE  HonestInv'
  BY <1>2 DEF HonestInv, TreeInv
<1>3. ASSUME NEW t \in Tests, EditTest(t) PROVE HonestInv'
  BY <1>3, EditTestIsHonest
<1>4. CASE EditSource
  <2>1. source' \in Nat
    BY <1>4 DEF EditSource
  <2> QED BY <1>2, <1>4, <2>1 DEF EditSource, diskVars, histVars
<1>5. CASE UNCHANGED vars
  BY <1>2, <1>5 DEF vars, HonestInv, TreeInv
<1> QED BY <1>1, <1>3, <1>4, <1>5 DEF Next

(* The last of a cycle's passing phases is one of them.                      *)
LEMMA LastPassingIsPassing ==
  ASSUME LogInv, NEW c, Complete(c), OrderMatches(c)
  PROVE  \E phase \in PassingPhases(c) : LastPassing(c) = c.ev[phase]
<1>1. \A phase \in DOMAIN c.ev \ {"void"} : c.ev[phase].order \in Nat
  BY OrdersAreNumbers DEF OrderMatches, LogInv
<1>2. /\ "green" \in DOMAIN c.ev
      /\ PassingPhases(c) \subseteq DOMAIN c.ev \ {"void"}
      /\ PassingPhases(c) \subseteq {"green", "refactor", "migrate"}
  BY DEF Complete, Passed, PassingPhases, Has
<1>3. Passed(c, "refactor") => c.ev["refactor"].order > c.ev["green"].order
  BY DEF OrderMatches, Passed
<1>4. \E phase \in PassingPhases(c) :
         \A other \in PassingPhases(c) : c.ev[other].order <= c.ev[phase].order
  <2>1. CASE Has(c, "migrate")
    <3>1. "migrate" \in PassingPhases(c)
      BY <2>1 DEF PassingPhases
    <3>2. c.ev["migrate"].order > LatestPass(c).order
      BY <2>1 DEF OrderMatches
    <3>3. c.ev["green"].order < c.ev["migrate"].order
      BY <1>1, <1>2, <1>3, <2>1, <3>2 DEF LatestPass, Passed, Has
    <3>4. Passed(c, "refactor") => c.ev["refactor"].order < c.ev["migrate"].order
      BY <3>2 DEF LatestPass
    <3>5. \A other \in PassingPhases(c) : c.ev[other].order <= c.ev["migrate"].order
      <4>1. \A other \in PassingPhases(c) : other = "refactor" => Passed(c, "refactor")
        BY DEF PassingPhases
      <4>2. \A other \in PassingPhases(c) : other \in {"green", "refactor", "migrate"}
        BY <1>2
      <4>3. \A other \in PassingPhases(c) : c.ev[other].order \in Nat
        BY <1>1, <1>2
      <4> QED BY <3>1, <3>3, <3>4, <4>1, <4>2, <4>3
    <3> QED BY <3>1, <3>5
  <2>2. CASE ~Has(c, "migrate") /\ Passed(c, "refactor")
    <3>1. "refactor" \in PassingPhases(c)
      BY <2>2 DEF PassingPhases
    <3>2. \A other \in PassingPhases(c) : c.ev[other].order <= c.ev["refactor"].order
      BY <1>1, <1>2, <1>3, <2>2 DEF PassingPhases, Has, Passed
    <3> QED BY <3>1, <3>2
  <2>3. CASE ~Has(c, "migrate") /\ ~Passed(c, "refactor")
    <3>1. PassingPhases(c) = {"green"}
      BY <2>3 DEF PassingPhases
    <3> QED BY <1>1, <1>2, <3>1
  <2> QED BY <2>1, <2>2, <2>3
<1> QED BY <1>4, Zenon DEF LastPassing

LEMMA UnracedIsOfRun ==
  ASSUME NEW c, NEW phase, NEW v, c.ev[phase].fp = NodeOf(c.test, v), Unraced(c, phase)
  PROVE  RunOf(c, phase).version = v
<1>1. c.ev[phase].fp[1] # "statement"
  BY NodesDiffer
<1>2. c.ev[phase].fp = NodeOf(c.test, RunOf(c, phase).version)
  BY <1>1 DEF Unraced, NodeOf, Node
<1> QED BY <1>2, NodesDiffer

LEMMA CompleteIsTestFirst ==
  ASSUME NEW c, HonestCycle(torn, runs, c), Complete(c), c.ev["red"].source # c.ev["green"].source
  PROVE  TestFirst(c)
<1>1. /\ HonestPhase(runs, c, "red") /\ HonestPhase(runs, c, "green")
      /\ c.ev["red"].valid /\ c.ev["green"].valid
  BY DEF HonestCycle, Complete, Passed, RunPhases
<1>2. /\ RunOf(c, "red").status = "failed" /\ RunOf(c, "green").status = "passed"
      /\ RunOf(c, "red").test = c.test /\ RunOf(c, "green").test = c.test
      /\ c.ev["red"].run < c.ev["green"].run /\ c.ev["green"].fp = c.ev["red"].fp
  BY <1>1 DEF HonestPhase, Expected, RunOf
<1>3. Unraced(c, "red") /\ Unraced(c, "green") => RunOf(c, "red").version = RunOf(c, "green").version
  <2>1. CASE Current(c)
    BY <1>2, <2>1, UnracedIsOfRun DEF Current
  <2>2. CASE Legacy(torn, runs, c)
    BY <2>2 DEF Legacy, RunOf
  <2> QED BY <2>1, <2>2 DEF HonestCycle
<1> QED BY <1>2, <1>3 DEF TestFirst

(* A cycle whose staleness is watched has passed with the test as it is.     *)
LEMMA WatchedIsFresh ==
  ASSUME HonestInv, LogInv, NEW j \in DOMAIN cycles, CycleAccepted(j), IsStaleTarget(j),
         Complete(cycles[j])
  PROVE  \/ MigratedUnseen(cycles[j].test)
         \/ \E phase \in {"green", "refactor"} :
              /\ Passed(cycles[j], phase)
              /\ RunOf(cycles[j], phase).status = "passed"
              /\ Unraced(cycles[j], phase) =>
                   RunOf(cycles[j], phase).version = version[cycles[j].test]
<1> DEFINE c == cycles[j]
           v == version[c.test]
<1>1. HonestCycle(torn, runs, c) /\ c.test \in Tests
  BY DEF HonestInv, HonestFile, HonestCycle
<1>2. OrderMatches(c) /\ LastPassing(c).fp = Node(testFingerprint(c.test))
  BY DEF CycleAccepted, NotStale, Complete
<1>3. Node(testFingerprint(c.test)) = NodeOf(c.test, v)
  BY <1>1, TestNode DEF HonestInv, TreeInv
<1> HIDE DEF c, v
<1>4. PICK phase \in PassingPhases(c) : LastPassing(c) = c.ev[phase]
  BY <1>2, LastPassingIsPassing DEF c
<1>5. c.ev[phase].fp = NodeOf(c.test, v)
  BY <1>2, <1>3, <1>4
<1>6. \A ph \in {"green", "refactor"} : Passed(c, ph) => RunOf(c, ph).status = "passed"
  BY <1>1 DEF HonestCycle, HonestPhase, Passed, RunPhases, Expected, RunOf
<1>7. Passed(c, "green")
  BY DEF Complete, c
<1>8. CASE phase = "migrate"
  <2>1. Has(c, "migrate")
    BY <1>4, <1>8 DEF PassingPhases
  <2>2. Legacy(torn, runs, c)
    BY <1>1, <2>1 DEF HonestCycle, Current
  <2>3. CASE c.test \in torn
    BY <2>1, <2>3 DEF MigratedUnseen, c
  <2>4. CASE c.test \notin torn
    <3>1. NodeOf(c.test, v) = NodeOf(c.test, 0) /\ RunOf(c, "green").version = 0
      BY <1>5, <1>8, <2>1, <2>2, <2>4 DEF Legacy, RunOf
    <3>2. v = 0
      BY <3>1, NodesDiffer
    <3> QED BY <1>6, <1>7, <3>1, <3>2 DEF c, v
  <2> QED BY <2>3, <2>4
<1>9. CASE phase \in {"green", "refactor"}
  <2>1. Passed(c, phase)
    BY <1>4, <1>7, <1>9 DEF PassingPhases
  <2>2. Unraced(c, phase) => RunOf(c, phase).version = v
    BY <1>5, UnracedIsOfRun
  <2> QED BY <1>6, <1>9, <2>1, <2>2 DEF c, v
<1> QED BY <1>4, <1>8, <1>9 DEF PassingPhases

LEMMA EachTestIsWatched ==
  ASSUME HonestInv, LogInv, Accepts, NEW i \in DOMAIN cycles,
         ~VoidedOntoNothing(cycles[i].test)
  PROVE  \E j \in DOMAIN cycles :
           cycles[j].test = cycles[i].test /\ IsStaleTarget(j) /\ Complete(cycles[j])
<1> DEFINE t == cycles[i].test
           l == LatestCycle(cycles, t)
           e == effectiveLatestCycle(cycles, order, chain, l)
<1>1. IsLog(cycles) /\ IsLog(order)
  BY DEF HonestInv, HonestFile, LogInv
<1>2. l # 0
  BY <1>1, LatestExists
<1>3. l \in DOMAIN cycles /\ cycles[l].test = t /\ \A j \in DOMAIN cycles : cycles[j].test = t => j <= l
  BY <1>1, <1>2, LatestIsLast
<1>4. l \in Nat /\ DOMAIN cycles \subseteq Nat
  BY <1>1, <1>3, LogIndices
<1>5. CycleAccepted(l)
  BY <1>3 DEF Accepts
<1>6. CASE ~Voided(l)
  <2>1. ~Superseded(l)
    <3> HIDE DEF l, t
    <3> QED BY <1>3, <1>4 DEF Superseded
  <2>2. Complete(cycles[l])
    BY <1>5, <1>6, <2>1 DEF CycleAccepted
  <2>3. IsStaleTarget(l)
    BY <1>3 DEF IsStaleTarget
  <2> QED BY <1>3, <2>2, <2>3
<1>7. CASE Voided(l)
  <2>1. e # 0
    BY <1>7 DEF VoidedOntoNothing
  <2>2. e \in DOMAIN cycles /\ cycles[e].test = t /\ Complete(cycles[e])
    <3> HIDE DEF l, t
    <3> QED BY <1>1, <1>3, <2>1, EffectiveStands
  <2>3. IsStaleTarget(e)
    BY <1>7, <2>2 DEF IsStaleTarget
  <2> QED BY <2>2, <2>3
<1> QED BY <1>6, <1>7

LEMMA HonestIsGenuine == HonestInv /\ LogInv => AcceptedEvidenceIsGenuine
<1> SUFFICES ASSUME HonestInv, LogInv, Accepts
             PROVE  /\ \A r \in Requirements : \E i \in DOMAIN cycles :
                         cycles[i].requirement = r /\ TestFirst(cycles[i])
                    /\ \A i \in DOMAIN cycles :
                         \/ VoidedOntoNothing(cycles[i].test) \/ MigratedUnseen(cycles[i].test)
                         \/ \E j \in DOMAIN cycles :
                              /\ cycles[j].test = cycles[i].test
                              /\ \E phase \in {"green", "refactor"} :
                                   /\ Passed(cycles[j], phase)
                                   /\ RunOf(cycles[j], phase).status = "passed"
                                   /\ Unraced(cycles[j], phase) =>
                                        RunOf(cycles[j], phase).version = version[cycles[j].test]
  BY DEF AcceptedEvidenceIsGenuine
<1>1. \A i \in DOMAIN cycles : CycleAccepted(i) /\ HonestCycle(torn, runs, cycles[i])
  BY DEF Accepts, HonestInv, HonestFile
<1>2. ASSUME NEW r \in Requirements
      PROVE  \E i \in DOMAIN cycles : cycles[i].requirement = r /\ TestFirst(cycles[i])
  <2>1. PICK i \in DOMAIN cycles : cycles[i].requirement = r /\ Complete(cycles[i])
    BY DEF Accepts, Covered
  <2>2. cycles[i].ev["red"].source # cycles[i].ev["green"].source
    BY <1>1, <2>1 DEF CycleAccepted, Complete
  <2> QED BY <1>1, <2>1, <2>2, CompleteIsTestFirst
<1>3. ASSUME NEW i \in DOMAIN cycles, ~VoidedOntoNothing(cycles[i].test),
             ~MigratedUnseen(cycles[i].test)
      PROVE  \E j \in DOMAIN cycles :
               /\ cycles[j].test = cycles[i].test
               /\ \E phase \in {"green", "refactor"} :
                    /\ Passed(cycles[j], phase)
                    /\ RunOf(cycles[j], phase).status = "passed"
                    /\ Unraced(cycles[j], phase) =>
                         RunOf(cycles[j], phase).version = version[cycles[j].test]
  <2>1. PICK j \in DOMAIN cycles :
           cycles[j].test = cycles[i].test /\ IsStaleTarget(j) /\ Complete(cycles[j])
    BY <1>3, EachTestIsWatched
  <2> QED BY <1>1, <1>3, <2>1, WatchedIsFresh
<1> QED BY <1>2, <1>3

(* Evidence that validates is genuine, whatever was recorded side by side,   *)
(* lost or cut short before it.                                              *)
THEOREM AcceptedIsGenuine == Spec => []AcceptedEvidenceIsGenuine
<1>1. Init => HonestInv /\ LogInv
  BY InitIsHonest, InitLog
<1>2. HonestInv /\ LogInv /\ [Next]_vars => (HonestInv /\ LogInv)'
  BY NextIsHonest, NextKeepsLogs
<1> QED BY <1>1, <1>2, HonestIsGenuine, PTL DEF Spec

-----------------------------------------------------------------------------
(* One command at a time: the order log, the chain and the cycles agree      *)

(* The order log names the phase where its evidence says it does.            *)
Logged(log, c, phase) ==
  /\ c.ev[phase].order \in DOMAIN log
  /\ recordKey(log[c.ev[phase].order]) = <<"tdd", c.id, phase, 0>>

(* The chain lists every phase, each exactly once, and nothing else.         *)
Listed(cs, ch) ==
  /\ \A k \in DOMAIN ch : \E i \in DOMAIN cs :
       \E phase \in DOMAIN cs[i].ev : ch[k] = ChainRecord(cs[i], phase)
  /\ \A i \in DOMAIN cs : \A phase \in DOMAIN cs[i].ev :
       \E k \in DOMAIN ch : ch[k] = ChainRecord(cs[i], phase)
  /\ \A j, k \in DOMAIN ch :
       ch[j].cycle = ch[k].cycle /\ ch[j].phase = ch[k].phase => j = k

(* The phases of a cycle came one after the other.                           *)
InSequence(c) ==
  /\ Has(c, "green") => c.ev["red"].order < c.ev["green"].order
  /\ Has(c, "refactor") => Has(c, "green") /\ c.ev["green"].order < c.ev["refactor"].order
  /\ Has(c, "migrate") => Has(c, "green") /\ ~Has(c, "refactor")
                          /\ c.ev["green"].order < c.ev["migrate"].order

(* An earlier cycle of the same test, complete and not voided.               *)
StandsBefore(cs, j, i) ==
  j < i /\ cs[j].test = cs[i].test /\ Complete(cs[j]) /\ ~Has(cs[j], "void")

IntactFile(log, cs, ch) ==
  /\ IsLog(ch)
  /\ \A i \in DOMAIN cs : cs[i].id = cs[i].ev["red"].run
  /\ \A i, j \in DOMAIN cs : cs[i].id = cs[j].id => i = j
  /\ \A i \in DOMAIN cs : \A phase \in DOMAIN cs[i].ev : phase \in Phases /\ Logged(log, cs[i], phase)
  /\ Listed(cs, ch)
  /\ \A i \in DOMAIN cs : InSequence(cs[i])
  /\ \A i \in DOMAIN cs : Has(cs[i], "void") =>
       \E j \in DOMAIN cs : StandsBefore(cs, j, i)
                            /\ cs[j].ev["green"].order < cs[i].ev["void"].order

(* What a command works on is what the files still say; the order it was     *)
(* given is the last of the log, and no recorded phase's.                    *)
IntactCommand(p) == pc[p] # "idle" =>
  /\ cmd[p].cycles = cycles /\ cmd[p].chain = chain
  /\ pc[p] \in {"assess", "order", "save"} /\ cmd[p].phase = "red" =>
       \A i \in DOMAIN cycles : cycles[i].id # cmd[p].run
  /\ cmd[p].phase = "refactor" => Has(cycles[cmd[p].at], "green")
  /\ pc[p] \in {"order", "save"} /\ cmd[p].phase = "void" =>
       \E j \in DOMAIN cycles : StandsBefore(cycles, j, cmd[p].at)
  /\ cmd[p].phase = "void" => ~Passed(cycles[cmd[p].at], "green")
  /\ pc[p] = "order" => seen[p] = order
  /\ pc[p] = "save" =>
       /\ "order" \in DOMAIN cmd[p].evidence
       /\ cmd[p].evidence.order = Len(order) /\ Len(order) \in DOMAIN order
       /\ recordKey(order[Len(order)]) = <<"tdd", TargetId(p), cmd[p].phase, 0>>
       /\ \A i \in DOMAIN cycles : \A phase \in DOMAIN cycles[i].ev :
            cycles[i].ev[phase].order < Len(order)

Alone == \A p, q \in Procs : pc[p] # "idle" /\ pc[q] # "idle" => p = q

IntactInv == ~overlapped =>
  Alone /\ IntactFile(order, cycles, chain) /\ \A p \in Procs : IntactCommand(p)

LEMMA RecordFound ==
  ASSUME NEW log, validateEvidenceOrderLog(log), NEW n \in DOMAIN log, NEW id, NEW phase,
         recordKey(log[n]) = <<"tdd", id, phase, 0>>
  PROVE  evidenceOrderRecord(log, "tdd", id, phase) = n
BY DEF validateEvidenceOrderLog, evidenceOrderRecord

LEMMA IntactIsLinked ==
  ASSUME NEW log, validateEvidenceOrderLog(log), NEW cs, NEW ch, IntactFile(log, cs, ch),
         NEW i \in DOMAIN cs, NEW phase \in DOMAIN cs[i].ev
  PROVE  phaseLinkageValid(log, ch, cs[i], phase)
<1> DEFINE c == cs[i]
<1>1. c.ev[phase].order = evidenceOrderRecord(log, "tdd", c.id, phase)
  BY RecordFound DEF IntactFile, Logged
<1>2. PICK k \in DOMAIN ch : ch[k] = ChainRecord(c, phase)
  BY DEF IntactFile, Listed
<1>3. ch[k].evidence = c.ev[phase] /\ ch[k].cycle = c.id /\ ch[k].phase = phase
  BY <1>2 DEF ChainRecord
<1>4. {j \in DOMAIN ch : ch[j].cycle = c.id /\ ch[j].phase = phase} = {k}
  <2>1. \A j \in DOMAIN ch : ch[j].cycle = ch[k].cycle /\ ch[j].phase = ch[k].phase => j = k
    BY DEF IntactFile, Listed
  <2> HIDE DEF c
  <2> QED BY <1>3, <2>1
<1> QED BY <1>1, <1>3, <1>4 DEF phaseLinkageValid

LEMMA IntactIsRecorded ==
  ASSUME LogInv, HonestFile(torn, runs, cycles), IntactFile(order, cycles, chain)
  PROVE  /\ ChainMatches
         /\ \A i \in DOMAIN cycles : OrderMatches(cycles[i]) /\ (Has(cycles[i], "void") => Voided(i))
<1>1. validateEvidenceOrderLog(order) /\ DOMAIN order \subseteq Nat
  BY LogIndices DEF LogInv
<1>2. ChainMatches
  <2>1. {chain[k] : k \in DOMAIN chain} =
          UNION {{ChainRecord(cycles[i], phase) : phase \in DOMAIN cycles[i].ev} : i \in DOMAIN cycles}
    <3>1. \A k \in DOMAIN chain : \E i \in DOMAIN cycles :
            \E phase \in DOMAIN cycles[i].ev : chain[k] = ChainRecord(cycles[i], phase)
      BY DEF IntactFile, Listed
    <3>2. \A i \in DOMAIN cycles : \A phase \in DOMAIN cycles[i].ev :
            \E k \in DOMAIN chain : chain[k] = ChainRecord(cycles[i], phase)
      BY DEF IntactFile, Listed
    <3> QED BY <3>1, <3>2
  <2>2. \A j, k \in DOMAIN chain :
          chain[j].cycle = chain[k].cycle /\ chain[j].phase = chain[k].phase => j = k
    BY DEF IntactFile, Listed
  <2> QED BY <2>1, <2>2 DEF ChainMatches
<1>3. ASSUME NEW i \in DOMAIN cycles PROVE OrderMatches(cycles[i])
  <2> DEFINE c == cycles[i]
  <2>1. \A phase \in DOMAIN c.ev : c.ev[phase].order = evidenceOrderRecord(order, "tdd", c.id, phase)
                                   /\ c.ev[phase].order \in Nat
    BY <1>1, RecordFound DEF IntactFile, Logged
  <2>2. InSequence(c) /\ "red" \in DOMAIN c.ev
    BY DEF IntactFile, HonestFile, HonestCycle
  <2> HIDE DEF c
  <2>3. Has(c, "green") => c.ev["green"].order > c.ev["red"].order
    BY <2>1, <2>2 DEF InSequence, Has
  <2>4. Has(c, "refactor") => c.ev["refactor"].order > c.ev["green"].order
    BY <2>1, <2>2 DEF InSequence, Has
  <2>5. Has(c, "migrate") => c.ev["migrate"].order > LatestPass(c).order
    BY <2>1, <2>2 DEF InSequence, Has, LatestPass, Passed
  <2>6. OrderMatches(c)
    BY <2>1, <2>3, <2>4, <2>5 DEF OrderMatches
  <2> QED BY <2>6 DEF c
<1>4. ASSUME NEW i \in DOMAIN cycles, Has(cycles[i], "void") PROVE Voided(i)
  BY <1>1, <1>4, IntactIsLinked DEF Voided, voidLinkage, Has
<1> QED BY <1>2, <1>3, <1>4

(* The latest cycle, when it is voided, leaves one that stands for it.       *)
LEMMA IntactHasFallback ==
  ASSUME LogInv, HonestFile(torn, runs, cycles), IntactFile(order, cycles, chain),
         NEW i \in DOMAIN cycles
  PROVE  ~VoidedOntoNothing(cycles[i].test)
<1> DEFINE v == LatestCycle(cycles, cycles[i].test)
           e == effectiveLatestCycle(cycles, order, chain, v)
<1> SUFFICES ASSUME Voided(v) PROVE e # 0
  BY DEF VoidedOntoNothing
<1>1. validateEvidenceOrderLog(order) /\ DOMAIN order \subseteq Nat /\ 0 \notin DOMAIN order
      /\ IsLog(order) /\ IsLog(cycles) /\ 0 \notin DOMAIN cycles /\ DOMAIN cycles \subseteq Nat
  BY LogIndices DEF LogInv, HonestFile
<1>2. v \in DOMAIN cycles
  BY <1>1, LatestExists, LatestIsLast
<1>3. Has(cycles[v], "void")
  BY DEF Voided, voidLinkage
<1> HIDE DEF v
<1>4. PICK j \in DOMAIN cycles : StandsBefore(cycles, j, v)
                            /\ cycles[j].ev["green"].order < cycles[v].ev["void"].order
  BY <1>2, <1>3 DEF IntactFile
<1>5. /\ evidenceOrderRecord(order, "tdd", cycles[v].id, "void") = cycles[v].ev["void"].order
      /\ cycles[v].ev["void"].order \in DOMAIN order
  BY <1>1, <1>2, <1>3, RecordFound DEF IntactFile, Logged, Has
<1>6. /\ evidenceOrderRecord(order, "tdd", cycles[j].id, "green") = cycles[j].ev["green"].order
      /\ Has(cycles[j], "green")
  BY <1>1, <1>4, RecordFound DEF IntactFile, Logged, Has, StandsBefore, Complete, Passed
<1>7. phaseLinkageValid(order, chain, cycles[j], "green")
  BY <1>1, <1>6, IntactIsLinked DEF Has
<1>8. j # v
  BY <1>1, <1>2, <1>4 DEF StandsBefore
<1>9. j \in Candidates(cycles, order, chain, v)
  BY <1>4, <1>5, <1>6, <1>7, <1>8 DEF StandsBefore, voidLinkage, Candidates
<1>10. e \in Candidates(cycles, order, chain, v)
  BY <1>1, <1>5, <1>9, EffectiveIsCandidate
<1> QED BY <1>1, <1>10 DEF Candidates

LEMMA InitIsIntact == Init => IntactInv
<1> SUFFICES ASSUME Init PROVE IntactInv
  OBVIOUS
<1>1. \A p \in Procs : pc[p] = "idle"
  BY DEF Init
<1>2. CASE order = <<>> /\ cycles = <<>> /\ chain = <<>>
  <2>1. IntactFile(order, cycles, chain)
    BY <1>2, EmptyLog DEF IntactFile, Listed
  <2> QED BY <1>1, <2>1 DEF IntactInv, Alone, IntactCommand
<1>3. CASE \E pair \in Verifies :
             LET c == LegacyCycle(pair[1], pair[2]) IN
             /\ cycles = <<c>>
             /\ chain = <<ChainRecord(c, "red"), ChainRecord(c, "green")>>
             /\ order = <<Record("tdd", 1, "red", 1), Record("tdd", 1, "green", 2)>>
  <2>1. PICK pair \in Verifies :
             LET c == LegacyCycle(pair[1], pair[2]) IN
             /\ cycles = <<c>>
             /\ chain = <<ChainRecord(c, "red"), ChainRecord(c, "green")>>
             /\ order = <<Record("tdd", 1, "red", 1), Record("tdd", 1, "green", 2)>>
    BY <1>3
  <2> DEFINE c == LegacyCycle(pair[1], pair[2])
             one == ChainRecord(c, "red")
             two == ChainRecord(c, "green")
  <2>2. /\ DOMAIN c.ev = {"red", "green"} /\ c.id = 1
        /\ c.ev["red"].order = 1 /\ c.ev["red"].run = 1 /\ c.ev["green"].order = 2
    BY DEF LegacyCycle, LegacyEvidence
  <2>3. /\ one.cycle = 1 /\ one.phase = "red" /\ two.cycle = 1 /\ two.phase = "green"
    BY <2>2 DEF ChainRecord
  <2>4. DOMAIN order = 1..2 /\ recordKey(order[1]) = <<"tdd", 1, "red", 0>>
                            /\ recordKey(order[2]) = <<"tdd", 1, "green", 0>>
    BY <2>1 DEF recordKey, Record, Repeats
  <2>5. DOMAIN chain = 1..2 /\ chain[1] = one /\ chain[2] = two /\ chain = <<one, two>>
    BY <2>1
  <2>6. DOMAIN cycles = {1} /\ cycles[1] = c
    BY <2>1
  <2>7. one = ChainRecord(c, "red") /\ two = ChainRecord(c, "green")
    OBVIOUS
  <2> HIDE DEF c, one, two
  <2>8. IsLog(chain)
    <3> DEFINE S == {chain[j] : j \in DOMAIN chain}
    <3>1. one \in S /\ two \in S
      BY <2>5
    <3> HIDE DEF S
    <3>2. <<one, two>> \in Seq(S)
      BY <3>1
    <3>3. chain \in Seq(S)
      BY <2>5, <3>2
    <3> QED BY <3>3 DEF IsLog, S
  <2>9. Listed(cycles, chain)
    BY <2>2, <2>3, <2>5, <2>6, <2>7 DEF Listed
  <2>10. InSequence(c) /\ ~Has(c, "void")
    BY <2>2 DEF InSequence, Has
  <2>11. \A phase \in DOMAIN c.ev : phase \in Phases /\ Logged(order, c, phase)
    BY <2>2, <2>4 DEF Logged, Phases
  <2>12. IntactFile(order, cycles, chain)
    BY <2>2, <2>6, <2>8, <2>9, <2>10, <2>11 DEF IntactFile
  <2> QED BY <1>1, <2>12 DEF IntactInv, Alone, IntactCommand
<1> QED BY <1>2, <1>3 DEF Init

(* While one command is at work the others are idle.                         *)
LEMMA OneMoves ==
  ASSUME TreeInv, NEW p \in Procs, NEW step, pc' = [pc EXCEPT ![p] = step],
         \A q \in Procs \ {p} : pc[q] = "idle",
         IntactFile(order', cycles', chain'), IntactCommand(p)'
  PROVE  IntactInv'
<1>1. \A q \in Procs \ {p} : pc'[q] = "idle"
  BY DEF TreeInv
<1>2. Alone'
  BY <1>1 DEF Alone
<1>3. \A q \in Procs : IntactCommand(q)'
  BY <1>1 DEF IntactCommand
<1> QED BY <1>2, <1>3 DEF IntactInv

LEMMA OthersAreIdle ==
  ASSUME IntactInv, ~overlapped, NEW p \in Procs, pc[p] # "idle"
  PROVE  /\ \A q \in Procs \ {p} : pc[q] = "idle"
         /\ IntactFile(order, cycles, chain) /\ IntactCommand(p)
BY DEF IntactInv, Alone

LEMMA StartsAlone ==
  ASSUME NEW p \in Procs, NEW l, Starts(p, l), ~overlapped'
  PROVE  ~overlapped /\ \A q \in Procs \ {p} : pc[q] = "idle"
BY DEF Starts

LEMMA ReturnIsIntact ==
  ASSUME TreeInv, NEW p \in Procs, Return(p), \A q \in Procs \ {p} : pc[q] = "idle",
         IntactFile(order', cycles', chain')
  PROVE  IntactInv'
<1>1. pc' = [pc EXCEPT ![p] = "idle"]
  BY DEF Return, Goto
<1>2. pc'[p] = "idle"
  BY <1>1 DEF TreeInv
<1>3. IntactCommand(p)'
  BY <1>2 DEF IntactCommand
<1> QED BY <1>1, <1>3, OneMoves

LEMMA StartPhaseIsIntact ==
  ASSUME HonestInv, IntactInv, NEW p \in Procs, NEW phase \in RunPhases, NEW t, NEW r,
         StartPhase(p, phase, t, r), ~overlapped'
  PROVE  IntactInv'
<1> DEFINE i == PendingCycle(cycles, t, r)
           c == [phase |-> phase, test |-> t, requirement |-> r,
                 at |-> IF phase = "red" THEN Len(cycles) + 1 ELSE i,
                 cycles |-> cycles, chain |-> chain, fp |-> Node(testFingerprint(t))]
<1>1. /\ cmd' = [cmd EXCEPT ![p] = c] /\ Starts(p, "run")
      /\ UNCHANGED <<order, cycles, chain>>
      /\ phase = "refactor" => Passed(cycles[i], "green")
  BY DEF StartPhase, Continues, diskVars, histVars
<1>2. ~overlapped /\ \A q \in Procs \ {p} : pc[q] = "idle"
  BY <1>1, StartsAlone
<1>3. IntactFile(order', cycles', chain')
  BY <1>1, <1>2 DEF IntactInv
<1>4. /\ c.phase = phase /\ c.cycles = cycles /\ c.chain = chain
      /\ phase = "refactor" => c.at = i
  OBVIOUS
<1> HIDE DEF c, i
<1>5. cmd'[p] = c /\ pc'[p] = "run" /\ pc' = [pc EXCEPT ![p] = "run"]
  BY <1>1 DEF Starts, Goto, HonestInv, TreeInv
<1>6. IntactCommand(p)'
  BY <1>1, <1>4, <1>5 DEF IntactCommand, RunPhases, Passed
<1> QED BY <1>2, <1>3, <1>5, <1>6, OneMoves DEF HonestInv

LEMMA StartApprovalIsIntact ==
  ASSUME HonestInv, IntactInv, NEW p \in Procs, NEW t, StartVoid(p, t) \/ StartMigrate(p, t),
         ~overlapped'
  PROVE  IntactInv'
<1> DEFINE i == LatestCycle(cycles, t)
           c(phase) == [phase |-> phase, test |-> t, at |-> i, cycles |-> cycles, chain |-> chain]
<1>1. PICK phase \in {"void", "migrate"} :
        /\ cmd' = [cmd EXCEPT ![p] = c(phase)] /\ Starts(p, "approve")
        /\ UNCHANGED <<order, cycles, chain>>
        /\ phase = "void" => ~Passed(cycles[i], "green")
  BY DEF StartVoid, StartMigrate, diskVars, histVars
<1>2. ~overlapped /\ \A q \in Procs \ {p} : pc[q] = "idle"
  BY <1>1, StartsAlone
<1>3. IntactFile(order', cycles', chain')
  BY <1>1, <1>2 DEF IntactInv
<1>4. /\ c(phase).phase = phase /\ c(phase).cycles = cycles /\ c(phase).chain = chain
      /\ c(phase).at = i
  OBVIOUS
<1> HIDE DEF c, i
<1>5. cmd'[p] = c(phase) /\ pc'[p] = "approve" /\ pc' = [pc EXCEPT ![p] = "approve"]
  BY <1>1 DEF Starts, Goto, HonestInv, TreeInv
<1>6. IntactCommand(p)'
  BY <1>1, <1>4, <1>5 DEF IntactCommand
<1> QED BY <1>2, <1>3, <1>5, <1>6, OneMoves DEF HonestInv

LEMMA ExecuteIsIntact ==
  ASSUME HonestInv, IntactInv, NEW p \in Procs, Execute(p), ~overlapped'
  PROVE  IntactInv'
<1> DEFINE n == Len(runs) + 1
           c == WithField(cmd[p], "run", n)
<1>1. /\ pc[p] = "run" /\ pc' = [pc EXCEPT ![p] = "assess"] /\ cmd' = [cmd EXCEPT ![p] = c]
      /\ UNCHANGED <<order, cycles, chain>> /\ ~overlapped
  BY DEF Execute, Goto, diskVars, histVars
<1>2. /\ \A q \in Procs \ {p} : pc[q] = "idle"
      /\ IntactFile(order, cycles, chain) /\ IntactCommand(p)
  BY <1>1, OthersAreIdle
<1>3. HonestCommand(torn, runs, "run", cmd[p]) /\ runs \in Seq(TestRun) /\ HonestFile(torn, runs, cycles)
  BY <1>1 DEF HonestInv, TreeInv
<1>4. \A i \in DOMAIN cycles : cycles[i].id # n
  <2>1. \A i \in DOMAIN cycles : HonestPhase(runs, cycles[i], "red")
    BY <1>3 DEF HonestFile, HonestCycle, RunPhases, Has
  <2>2. \A i \in DOMAIN cycles : cycles[i].id \in DOMAIN runs
    BY <1>2, <2>1 DEF IntactFile, HonestPhase
  <2>3. DOMAIN runs = 1..Len(runs) /\ Len(runs) \in Nat
    BY <1>3, LenProperties
  <2> QED BY <2>2, <2>3
<1> HIDE DEF n
<1>5. /\ c.run = n /\ c.phase = cmd[p].phase /\ c.at = cmd[p].at
      /\ c.cycles = cmd[p].cycles /\ c.chain = cmd[p].chain
  BY <1>3 DEF HonestCommand, WithField
<1> HIDE DEF c
<1>6. cmd'[p] = c /\ pc'[p] = "assess"
  BY <1>1 DEF HonestInv, TreeInv
<1>7. cmd[p].phase # "void"
  BY <1>3 DEF HonestCommand, RunPhases
<1>8. IntactCommand(p)'
  BY <1>1, <1>2, <1>4, <1>5, <1>6, <1>7 DEF IntactCommand
<1> QED BY <1>1, <1>2, <1>8, OneMoves DEF HonestInv

LEMMA AssessIsIntact ==
  ASSUME HonestInv, LogInv, IntactInv, NEW p \in Procs, Assess(p), ~overlapped'
  PROVE  IntactInv'
<1>0. PICK report \in Reports(p) :
        cmd' = [cmd EXCEPT ![p] = WithField(@, "evidence",
          [valid |-> ValidPhase(p, report), fp |-> cmd[p].fp, source |-> source,
           run |-> cmd[p].run])]
  BY DEF Assess
<1> DEFINE e == [valid |-> ValidPhase(p, report), fp |-> cmd[p].fp, source |-> source,
                 run |-> cmd[p].run]
           c == WithField(cmd[p], "evidence", e)
<1>1. /\ pc[p] = "assess" /\ pc' = [pc EXCEPT ![p] = "order"] /\ cmd' = [cmd EXCEPT ![p] = c]
      /\ UNCHANGED <<order, cycles, chain>> /\ ~overlapped /\ seen' = [seen EXCEPT ![p] = order]
  BY <1>0 DEF Assess, Goto, diskVars, histVars, LoadOrder
<1> HIDE DEF e
<1>2. /\ \A q \in Procs \ {p} : pc[q] = "idle"
      /\ IntactFile(order, cycles, chain) /\ IntactCommand(p)
  BY <1>1, OthersAreIdle
<1>3. HonestCommand(torn, runs, "assess", cmd[p])
  BY <1>1 DEF HonestInv
<1>4. /\ c.run = cmd[p].run /\ c.phase = cmd[p].phase /\ c.at = cmd[p].at
      /\ c.cycles = cmd[p].cycles /\ c.chain = cmd[p].chain
  BY <1>3 DEF HonestCommand, WithField
<1> HIDE DEF c
<1>5. cmd'[p] = c /\ pc'[p] = "order" /\ seen'[p] = order
  BY <1>1 DEF HonestInv, TreeInv, LogInv
<1>6. cmd[p].phase # "void"
  BY <1>3 DEF HonestCommand, RunPhases
<1>7. IntactCommand(p)'
  BY <1>1, <1>2, <1>4, <1>5, <1>6 DEF IntactCommand
<1> QED BY <1>1, <1>2, <1>7, OneMoves DEF HonestInv

LEMMA ApproveVoidIsIntact ==
  ASSUME HonestInv, LogInv, IntactInv, NEW p \in Procs, ApproveVoid(p), ~overlapped'
  PROVE  IntactInv'
<1> DEFINE e == Approval(p)
           c == WithField(cmd[p], "evidence", e)
<1>1. /\ pc[p] = "approve" /\ cmd[p].phase = "void"
      /\ UNCHANGED <<order, cycles, chain>> /\ ~overlapped
      /\ \/ /\ Fallback(p, order)
            /\ cmd' = [cmd EXCEPT ![p] = c] /\ pc' = [pc EXCEPT ![p] = "order"]
            /\ seen' = [seen EXCEPT ![p] = order]
         \/ Return(p)
  BY DEF ApproveVoid, Goto, diskVars, histVars, LoadOrder
<1>2. /\ \A q \in Procs \ {p} : pc[q] = "idle"
      /\ IntactFile(order, cycles, chain) /\ IntactCommand(p)
  BY <1>1, OthersAreIdle
<1>3. CASE Return(p)
  BY <1>1, <1>2, <1>3, ReturnIsIntact DEF HonestInv
<1>4. CASE /\ Fallback(p, order)
           /\ cmd' = [cmd EXCEPT ![p] = c] /\ pc' = [pc EXCEPT ![p] = "order"]
           /\ seen' = [seen EXCEPT ![p] = order]
  <2>1. /\ HonestCommand(torn, runs, "approve", cmd[p])
        /\ cmd[p].cycles = cycles /\ cmd[p].chain = chain
    BY <1>1, <1>2 DEF HonestInv, IntactCommand
  <2>2. cmd[p].at \in DOMAIN cycles /\ cycles[cmd[p].at].test = cmd[p].test
    BY <1>1, <2>1 DEF HonestCommand
  <2>3. \E j \in DOMAIN cycles : StandsBefore(cycles, j, cmd[p].at)
    <3>1. PICK j \in 1..(cmd[p].at - 1) :
             /\ cycles[j].test = cmd[p].test /\ Complete(cycles[j])
             /\ ~voidLinkage(order, chain, cycles[j])
      BY <1>4, <2>1 DEF Fallback
    <3>2. j \in DOMAIN cycles /\ j < cmd[p].at
      <4>1. DOMAIN cycles = 1..Len(cycles) /\ Len(cycles) \in Nat
        BY LogIndices DEF HonestInv, HonestFile
      <4> QED BY <2>2, <4>1
    <3>3. ~Has(cycles[j], "void")
      <4>1. validateEvidenceOrderLog(order)
        BY DEF LogInv
      <4> QED BY <1>2, <3>1, <3>2, <4>1, IntactIsLinked DEF voidLinkage, Has
    <3> QED BY <2>2, <3>1, <3>2, <3>3 DEF StandsBefore
  <2> HIDE DEF e
  <2>4. /\ c.at = cmd[p].at /\ c.phase = "void"
        /\ c.cycles = cmd[p].cycles /\ c.chain = cmd[p].chain
    BY <1>1, <2>1 DEF HonestCommand, WithField
  <2> HIDE DEF c
  <2>5. cmd'[p] = c /\ pc'[p] = "order" /\ seen'[p] = order /\ pc' = [pc EXCEPT ![p] = "order"]
    BY <1>4 DEF HonestInv, TreeInv, LogInv
  <2>6. IntactCommand(p)'
    BY <1>1, <1>2, <2>1, <2>2, <2>3, <2>4, <2>5 DEF IntactCommand
  <2> QED BY <1>1, <1>2, <2>5, <2>6, OneMoves DEF HonestInv
<1> QED BY <1>1, <1>3, <1>4

LEMMA ApproveMigrateIsIntact ==
  ASSUME HonestInv, LogInv, IntactInv, NEW p \in Procs, ApproveMigrate(p), ~overlapped'
  PROVE  IntactInv'
<1> DEFINE target == Standing(cmd[p].cycles, order, cmd[p].chain, cmd[p].at)
           c == [cmd[p] EXCEPT !.at = target]
<1>1. /\ pc[p] = "approve" /\ cmd[p].phase = "migrate"
      /\ UNCHANGED <<order, cycles, chain>> /\ ~overlapped
      /\ \/ cmd' = [cmd EXCEPT ![p] = c] /\ pc' = [pc EXCEPT ![p] = "fingerprint"]
         \/ Return(p)
  BY DEF ApproveMigrate, Goto, diskVars, histVars
<1>2. /\ \A q \in Procs \ {p} : pc[q] = "idle"
      /\ IntactFile(order, cycles, chain) /\ IntactCommand(p)
  BY <1>1, OthersAreIdle
<1>3. CASE Return(p)
  BY <1>1, <1>2, <1>3, ReturnIsIntact DEF HonestInv
<1>4. CASE cmd' = [cmd EXCEPT ![p] = c] /\ pc' = [pc EXCEPT ![p] = "fingerprint"]
  <2>1. HonestCommand(torn, runs, "approve", cmd[p])
    BY <1>1 DEF HonestInv
  <2> HIDE DEF target
  <2>2. c.phase = "migrate" /\ c.cycles = cmd[p].cycles /\ c.chain = cmd[p].chain
    BY <1>1, <2>1 DEF HonestCommand
  <2> HIDE DEF c
  <2>3. cmd'[p] = c /\ pc'[p] = "fingerprint"
    BY <1>4 DEF HonestInv, TreeInv
  <2>4. IntactCommand(p)'
    BY <1>1, <1>2, <2>2, <2>3 DEF IntactCommand
  <2> QED BY <1>1, <1>2, <1>4, <2>4, OneMoves DEF HonestInv
<1> QED BY <1>1, <1>3, <1>4

LEMMA FingerprintIsIntact ==
  ASSUME HonestInv, LogInv, IntactInv, NEW p \in Procs, Fingerprint(p), ~overlapped'
  PROVE  IntactInv'
<1> DEFINE e == Approval(p)
           c == WithField(cmd[p], "evidence", e)
<1>1. /\ pc[p] = "fingerprint" /\ UNCHANGED <<order, cycles, chain>> /\ ~overlapped
      /\ cmd' = [cmd EXCEPT ![p] = c] /\ pc' = [pc EXCEPT ![p] = "order"]
      /\ seen' = [seen EXCEPT ![p] = order]
  BY DEF Fingerprint, Goto, diskVars, histVars, LoadOrder
<1>2. /\ \A q \in Procs \ {p} : pc[q] = "idle"
      /\ IntactFile(order, cycles, chain) /\ IntactCommand(p)
  BY <1>1, OthersAreIdle
<1>3. HonestCommand(torn, runs, "fingerprint", cmd[p])
  BY <1>1 DEF HonestInv
<1> HIDE DEF e
<1>4. c.phase = "migrate" /\ c.cycles = cmd[p].cycles /\ c.chain = cmd[p].chain
  BY <1>3 DEF HonestCommand, WithField
<1> HIDE DEF c
<1>5. cmd'[p] = c /\ pc'[p] = "order" /\ seen'[p] = order
  BY <1>1 DEF HonestInv, TreeInv, LogInv
<1>6. IntactCommand(p)'
  BY <1>1, <1>2, <1>4, <1>5 DEF IntactCommand
<1> QED BY <1>1, <1>2, <1>6, OneMoves DEF HonestInv

(* One record more leaves what was recorded where it was.                    *)
LEMMA LogGrows ==
  ASSUME NEW log, IsLog(log), NEW cs, NEW ch, IntactFile(log, cs, ch), NEW rec
  PROVE  IntactFile(Append(log, rec), cs, ch)
<1>1. \A n \in DOMAIN log : n \in DOMAIN Append(log, rec) /\ Append(log, rec)[n] = log[n]
  BY AppendToLog
<1>2. \A i \in DOMAIN cs : \A phase \in DOMAIN cs[i].ev :
        phase \in Phases /\ Logged(Append(log, rec), cs[i], phase)
  BY <1>1 DEF IntactFile, Logged
<1> QED BY <1>2 DEF IntactFile

LEMMA AppendPhaseIsIntact ==
  ASSUME HonestInv, LogInv, IntactInv, NEW p \in Procs, AppendPhase(p), ~overlapped'
  PROVE  IntactInv'
<1>1. pc[p] = "order" /\ UNCHANGED <<cycles, chain>> /\ ~overlapped
  BY DEF AppendPhase, diskVars, histVars
<1>2. /\ \A q \in Procs \ {p} : pc[q] = "idle"
      /\ IntactFile(order, cycles, chain) /\ IntactCommand(p)
  BY <1>1, OthersAreIdle
<1>3. CASE Refused(p, "tdd", TargetId(p), cmd[p].phase)
  BY <1>1, <1>2, <1>3, ReturnIsIntact DEF AppendPhase, HonestInv
<1>4. CASE ~Refused(p, "tdd", TargetId(p), cmd[p].phase)
  <2> DEFINE n == Len(order) + 1
             id == TargetId(p)
             ph == cmd[p].phase
             rec == Record("tdd", id, ph, n)
             e == WithField(cmd[p].evidence, "order", n)
             c == [cmd[p] EXCEPT !.evidence = e]
  <2>1. seen[p] = order /\ HonestCommand(torn, runs, "order", cmd[p])
    BY <1>1, <1>2 DEF IntactCommand, HonestInv
  <2>2. /\ pc' = [pc EXCEPT ![p] = "save"] /\ order' = Append(order, rec)
        /\ cmd' = [cmd EXCEPT ![p].evidence = WithField(@, "order", n)]
    BY <1>4, <2>1 DEF AppendPhase, Goto, WriteOrder
  <2>3. cmd' = [cmd EXCEPT ![p] = c]
    BY <2>2
  <2>4. ph \in Phases /\ {"phase", "test", "at", "cycles", "chain", "evidence"} \subseteq DOMAIN cmd[p]
    BY <2>1 DEF HonestCommand
  <2>5. recordKey(rec) = <<"tdd", id, ph, 0>>
    <3> HIDE DEF id, ph, n
    <3> QED BY <2>4 DEF recordKey, Record, Repeats, Phases
  <2> HIDE DEF rec
  <2>6. /\ DOMAIN order = 1..Len(order) /\ Len(order) \in Nat
        /\ DOMAIN order' = 1..n /\ Len(order') = n /\ order'[n] = rec
    BY <2>2, AppendToLog DEF LogInv
  <2>7. IntactFile(order', cycles', chain')
    BY <1>1, <1>2, <2>2, LogGrows DEF LogInv
  <2>8. e.order = n /\ "order" \in DOMAIN e
    BY DEF WithField
  <2> HIDE DEF e, n
  <2>9. /\ c.evidence = e /\ c.phase = ph /\ c.at = cmd[p].at /\ c.cycles = cmd[p].cycles
        /\ c.chain = cmd[p].chain /\ (ph = "red" => c.run = cmd[p].run)
    <3>1. ph = "red" => "run" \in DOMAIN cmd[p]
      BY <2>1 DEF HonestCommand, RunPhases
    <3> QED BY <2>4, <3>1
  <2> HIDE DEF c
  <2>10. cmd'[p] = c /\ pc'[p] = "save"
    BY <2>2, <2>3 DEF HonestInv, TreeInv
  <2>11. TargetId(p)' = id
    BY <2>9, <2>10 DEF TargetId
  <2>12. \A i \in DOMAIN cycles : \A phase \in DOMAIN cycles[i].ev :
            cycles[i].ev[phase].order < n
    BY <1>2, <2>6 DEF IntactFile, Logged, n
  <2> HIDE DEF id, ph
  <2>13. n \in DOMAIN order'
    BY <2>6 DEF n
  <2>14. IntactCommand(p)'
    <3>1. cmd'[p].cycles = cycles' /\ cmd'[p].chain = chain'
      BY <1>1, <1>2, <2>9, <2>10 DEF IntactCommand
    <3>2. cmd'[p].phase = "red" => \A i \in DOMAIN cycles' : cycles'[i].id # cmd'[p].run
      BY <1>1, <1>2, <2>9, <2>10 DEF IntactCommand, ph
    <3>3. cmd'[p].phase = "refactor" => Has(cycles'[cmd'[p].at], "green")
      BY <1>1, <1>2, <2>9, <2>10 DEF IntactCommand, ph
    <3>4. cmd'[p].phase = "void" =>
            /\ \E j \in DOMAIN cycles' : StandsBefore(cycles', j, cmd'[p].at)
            /\ ~Passed(cycles'[cmd'[p].at], "green")
      BY <1>1, <1>2, <2>9, <2>10 DEF IntactCommand, ph
    <3>5. /\ "order" \in DOMAIN cmd'[p].evidence /\ cmd'[p].evidence.order = Len(order')
          /\ Len(order') \in DOMAIN order'
          /\ recordKey(order'[Len(order')]) = <<"tdd", TargetId(p)', cmd'[p].phase, 0>>
          /\ \A i \in DOMAIN cycles' : \A phase \in DOMAIN cycles'[i].ev :
               cycles'[i].ev[phase].order < Len(order')
      BY <1>1, <2>5, <2>6, <2>8, <2>9, <2>10, <2>11, <2>12, <2>13
    <3> QED BY <2>10, <3>1, <3>2, <3>3, <3>4, <3>5 DEF IntactCommand
  <2> QED BY <1>2, <2>2, <2>7, <2>14, OneMoves DEF HonestInv
<1> QED BY <1>3, <1>4

(* The cycles cs2 are cs with phase ph added to the cycle at, perhaps new.   *)
Adds(cs, cs2, at, ph) ==
  /\ DOMAIN cs2 = DOMAIN cs \union {at}
  /\ \A i \in DOMAIN cs : i # at => cs2[i] = cs[i]
  /\ at \in DOMAIN cs =>
       /\ cs2[at].id = cs[at].id /\ cs2[at].test = cs[at].test
       /\ cs2[at].requirement = cs[at].requirement
       /\ ph \notin DOMAIN cs[at].ev
       /\ DOMAIN cs2[at].ev = DOMAIN cs[at].ev \union {ph}
       /\ \A phase \in DOMAIN cs[at].ev : cs2[at].ev[phase] = cs[at].ev[phase]
  /\ at \notin DOMAIN cs => DOMAIN cs2[at].ev = {ph}

LEMMA AddedIsListed ==
  ASSUME NEW cs, NEW cs2, NEW at, NEW ph, Adds(cs, cs2, at, ph),
         NEW ch, IsLog(ch), Listed(cs, ch),
         \A i, j \in DOMAIN cs2 : cs2[i].id = cs2[j].id => i = j
  PROVE  Listed(cs2, Append(ch, ChainRecord(cs2[at], ph)))
<1> DEFINE rec == ChainRecord(cs2[at], ph)
           ch2 == Append(ch, rec)
           n == Len(ch) + 1
<1>1. /\ DOMAIN ch = 1..Len(ch) /\ Len(ch) \in Nat /\ DOMAIN ch2 = 1..n
      /\ \A k \in DOMAIN ch : ch2[k] = ch[k]
      /\ ch2[n] = rec
  BY AppendToLog
<1>2. \A k \in DOMAIN ch2 : k = n \/ k \in DOMAIN ch
  BY <1>1
<1>3. /\ at \in DOMAIN cs2 /\ ph \in DOMAIN cs2[at].ev
      /\ \A i \in DOMAIN cs : i \in DOMAIN cs2 /\ \A phase \in DOMAIN cs[i].ev :
           phase \in DOMAIN cs2[i].ev
  BY DEF Adds
<1>4. \A i \in DOMAIN cs : \A phase \in DOMAIN cs[i].ev :
        ChainRecord(cs2[i], phase) = ChainRecord(cs[i], phase)
  BY DEF Adds, ChainRecord
<1>5. \A i \in DOMAIN cs2 : \A phase \in DOMAIN cs2[i].ev :
        (i = at /\ phase = ph) \/ (i \in DOMAIN cs /\ phase \in DOMAIN cs[i].ev)
  BY DEF Adds
<1>6. ~(at \in DOMAIN cs /\ ph \in DOMAIN cs[at].ev)
  BY DEF Adds
<1>7. \A i \in DOMAIN cs2 : \A phase :
        ChainRecord(cs2[i], phase).cycle = cs2[i].id /\ ChainRecord(cs2[i], phase).phase = phase
  BY DEF ChainRecord
<1>8. n \in DOMAIN ch2 /\ \A k \in DOMAIN ch : k \in DOMAIN ch2
  BY <1>1
<1>9. rec = ChainRecord(cs2[at], ph)
  OBVIOUS
<1> HIDE DEF ch2, rec, n
<1>10. \A k \in DOMAIN ch2 : \E i \in DOMAIN cs2 :
         \E phase \in DOMAIN cs2[i].ev : ch2[k] = ChainRecord(cs2[i], phase)
  <2>1. ASSUME NEW k \in DOMAIN ch
        PROVE  \E i \in DOMAIN cs2 : \E phase \in DOMAIN cs2[i].ev : ch2[k] = ChainRecord(cs2[i], phase)
    <3>1. PICK i \in DOMAIN cs : \E phase \in DOMAIN cs[i].ev : ch[k] = ChainRecord(cs[i], phase)
      BY DEF Listed
    <3> QED BY <1>1, <1>3, <1>4, <3>1
  <2> QED BY <1>1, <1>2, <1>3, <1>9, <2>1
<1>11. \A i \in DOMAIN cs2 : \A phase \in DOMAIN cs2[i].ev :
         \E k \in DOMAIN ch2 : ch2[k] = ChainRecord(cs2[i], phase)
  <2>1. ASSUME NEW i \in DOMAIN cs, NEW phase \in DOMAIN cs[i].ev
        PROVE  \E k \in DOMAIN ch2 : ch2[k] = ChainRecord(cs2[i], phase)
    <3>1. PICK k \in DOMAIN ch : ch[k] = ChainRecord(cs[i], phase)
      BY DEF Listed
    <3> QED BY <1>1, <1>4, <1>8, <3>1
  <2> QED BY <1>1, <1>5, <1>8, <1>9, <2>1
<1>12. ASSUME NEW k \in DOMAIN ch PROVE ~(ch[k].cycle = rec.cycle /\ ch[k].phase = rec.phase)
  <2>1. PICK i \in DOMAIN cs : \E phase \in DOMAIN cs[i].ev : ch[k] = ChainRecord(cs[i], phase)
    BY DEF Listed
  <2>2. PICK phase \in DOMAIN cs[i].ev : ch[k] = ChainRecord(cs2[i], phase)
    BY <1>4, <2>1
  <2>3. ch[k].cycle = cs2[i].id /\ ch[k].phase = phase /\ i \in DOMAIN cs2
    BY <1>3, <1>7, <2>2
  <2>4. rec.cycle = cs2[at].id /\ rec.phase = ph
    BY <1>3, <1>7, <1>9
  <2> QED BY <1>3, <1>6, <2>3, <2>4
<1>13. \A j, k \in DOMAIN ch2 :
         ch2[j].cycle = ch2[k].cycle /\ ch2[j].phase = ch2[k].phase => j = k
  <2>1. \A j, k \in DOMAIN ch : ch[j].cycle = ch[k].cycle /\ ch[j].phase = ch[k].phase => j = k
    BY DEF Listed
  <2> QED BY <1>1, <1>2, <1>12, <2>1
<1>14. Listed(cs2, ch2)
  BY <1>10, <1>11, <1>13 DEF Listed
<1> QED BY <1>14 DEF ch2, rec

LEMMA AddedIsIntact ==
  ASSUME NEW log, NEW cs, IsLog(cs), NEW ch, IntactFile(log, cs, ch),
         NEW cs2, NEW at, at \in DOMAIN cs \/ at = Len(cs) + 1, NEW ph \in Phases,
         Adds(cs, cs2, at, ph), at \notin DOMAIN cs => ph = "red",
         \A i \in DOMAIN cs : i # at => cs[i].id # cs2[at].id,
         cs2[at].id = cs2[at].ev["red"].run,
         Logged(log, cs2[at], ph), cs2[at].ev[ph].order = Len(log),
         InSequence(cs2[at]),
         \A i \in DOMAIN cs : \A phase \in DOMAIN cs[i].ev : cs[i].ev[phase].order < Len(log),
         ph = "void" => /\ at \in DOMAIN cs /\ ~Passed(cs[at], "green")
                        /\ \E j \in DOMAIN cs : StandsBefore(cs, j, at)
  PROVE  IntactFile(log, cs2, Append(ch, ChainRecord(cs2[at], ph)))
<1>1. \A i, j \in DOMAIN cs2 : cs2[i].id = cs2[j].id => i = j
  BY DEF Adds, IntactFile
<1>2. IsLog(Append(ch, ChainRecord(cs2[at], ph))) /\ Listed(cs2, Append(ch, ChainRecord(cs2[at], ph)))
  BY <1>1, AppendToLog, AddedIsListed DEF IntactFile
<1>3. \A i \in DOMAIN cs2 : cs2[i].id = cs2[i].ev["red"].run /\ InSequence(cs2[i])
  BY DEF Adds, IntactFile
<1>4. ASSUME NEW i \in DOMAIN cs2, NEW phase \in DOMAIN cs2[i].ev
      PROVE  phase \in Phases /\ Logged(log, cs2[i], phase)
  <2>1. CASE i = at /\ phase = ph
    BY <2>1
  <2>2. CASE i \in DOMAIN cs /\ phase \in DOMAIN cs[i].ev
    <3>1. cs2[i].id = cs[i].id /\ cs2[i].ev[phase] = cs[i].ev[phase]
      BY <2>2 DEF Adds
    <3>2. phase \in Phases /\ Logged(log, cs[i], phase)
      BY <2>2 DEF IntactFile
    <3> QED BY <3>1, <3>2 DEF Logged
  <2> QED BY <2>1, <2>2 DEF Adds
<1>5. ASSUME NEW i \in DOMAIN cs2, Has(cs2[i], "void")
      PROVE  \E j \in DOMAIN cs2 : StandsBefore(cs2, j, i)
                                   /\ cs2[j].ev["green"].order < cs2[i].ev["void"].order
  <2>1. PICK j \in DOMAIN cs :
          /\ i \in DOMAIN cs /\ StandsBefore(cs, j, i)
          /\ cs[j].ev["green"].order < cs2[i].ev["void"].order
    <3>1. CASE i = at /\ ph = "void"
      <4>1. PICK j \in DOMAIN cs : StandsBefore(cs, j, at)
        BY <3>1
      <4>2. cs[j].ev["green"].order < Len(log)
        BY <4>1 DEF StandsBefore, Complete, Passed, Has
      <4> QED BY <3>1, <4>1, <4>2
    <3>2. CASE ~(i = at /\ ph = "void")
      <4>1. i \in DOMAIN cs /\ Has(cs[i], "void") /\ cs2[i].ev["void"] = cs[i].ev["void"]
        BY <1>5, <3>2 DEF Adds, Has
      <4> QED BY <4>1 DEF IntactFile
    <3> QED BY <3>1, <3>2
  <2>2. j \in DOMAIN cs2 /\ cs2[j].test = cs[j].test /\ cs2[i].test = cs[i].test
    BY <2>1 DEF Adds
  <2>3. /\ Has(cs[j], "red") /\ Has(cs[j], "green") /\ Complete(cs[j]) /\ ~Has(cs[j], "void")
    BY <2>1 DEF StandsBefore, Complete, Passed
  <2>4. j = at => ph # "void"
    BY <2>3 DEF Complete
  <2>5. /\ cs2[j].ev["red"] = cs[j].ev["red"] /\ cs2[j].ev["green"] = cs[j].ev["green"]
        /\ Has(cs2[j], "red") /\ Has(cs2[j], "green") /\ ~Has(cs2[j], "void")
    BY <2>3, <2>4 DEF Adds, Has
  <2>6. Complete(cs2[j])
    BY <2>3, <2>5 DEF Complete, Passed
  <2> QED BY <2>1, <2>2, <2>5, <2>6 DEF StandsBefore
<1> QED BY <1>1, <1>2, <1>3, <1>4, <1>5 DEF IntactFile

LEMMA ContinuedInSequence ==
  ASSUME NEW rs, NEW old, NEW new, NEW ph \in Phases \ {"red"}, NEW n,
         InSequence(old), HonestCycle(torn, rs, new), "red" \in DOMAIN old.ev,
         ph \notin DOMAIN old.ev, DOMAIN new.ev = DOMAIN old.ev \union {ph},
         \A phase \in DOMAIN old.ev : new.ev[phase] = old.ev[phase] /\ old.ev[phase].order < n,
         new.ev[ph].order = n, ph = "refactor" => Has(old, "green")
  PROVE  InSequence(new)
<1>1. Has(new, "migrate") => Has(new, "green") /\ ~Has(new, "refactor")
  BY DEF HonestCycle, Current, Legacy
<1>2. CASE ph = "green"
  BY <1>1, <1>2 DEF InSequence, Has
<1>3. CASE ph = "refactor"
  BY <1>1, <1>3 DEF InSequence, Has
<1>4. CASE ph = "migrate"
  BY <1>1, <1>4 DEF InSequence, Has
<1>5. CASE ph = "void"
  BY <1>1, <1>5 DEF InSequence, Has
<1> QED BY <1>2, <1>3, <1>4, <1>5 DEF Phases

LEMMA SaveIsIntact ==
  ASSUME HonestInv, LogInv, IntactInv, NEW p \in Procs, SaveEvidence(p), ~overlapped'
  PROVE  IntactInv'
<1> DEFINE at == cmd[p].at
           ph == cmd[p].phase
           e == cmd[p].evidence
           new == SavedCycle(p)
           old == cycles[at]
           id == TargetId(p)
<1>1. pc[p] = "save" /\ Return(p) /\ order' = order /\ ~overlapped
  BY DEF SaveEvidence, histVars
<1>2. /\ \A q \in Procs \ {p} : pc[q] = "idle"
      /\ IntactFile(order, cycles, chain) /\ IntactCommand(p)
  BY <1>1, OthersAreIdle
<1>3. cmd[p].cycles = cycles /\ cmd[p].chain = chain
  BY <1>1, <1>2 DEF IntactCommand
<1>4. /\ cycles' = [i \in DOMAIN cycles \union {at} |-> IF i = at THEN new ELSE cycles[i]]
      /\ chain' = Append(chain, ChainRecord(new, ph))
  BY <1>3 DEF SaveEvidence
<1>5. HonestCommand(torn, runs, "save", cmd[p]) /\ HonestFile(torn, runs, cycles) /\ IsLog(cycles)
  BY <1>1 DEF HonestInv, HonestFile
<1>6. /\ ph \in Phases
      /\ ph = "red" => at = Len(cycles) + 1
      /\ ph # "red" => at \in DOMAIN cycles
  BY <1>3, <1>5 DEF HonestCommand
<1>7. /\ e.order = Len(order) /\ Len(order) \in DOMAIN order
      /\ recordKey(order[Len(order)]) = <<"tdd", id, ph, 0>>
      /\ \A i \in DOMAIN cycles : \A phase \in DOMAIN cycles[i].ev :
            cycles[i].ev[phase].order < Len(order)
  BY <1>1, <1>2 DEF IntactCommand
<1>8. /\ ph = "red" => \A i \in DOMAIN cycles : cycles[i].id # cmd[p].run
      /\ ph = "refactor" => Has(old, "green")
      /\ ph = "void" => ~Passed(old, "green") /\ \E j \in DOMAIN cycles : StandsBefore(cycles, j, at)
  BY <1>1, <1>2 DEF IntactCommand
<1>9. HonestCycle(torn, runs, new)
  BY <1>5, SavedCycleIsHonest
<1>10. DOMAIN order \subseteq Nat /\ validateEvidenceOrderLog(order)
  BY LogIndices DEF LogInv
<1>11. ph = "red" =>
         /\ at \notin DOMAIN cycles /\ new.id = cmd[p].run /\ id = cmd[p].run
         /\ new.ev["red"].run = cmd[p].run /\ DOMAIN new.ev = {"red"} /\ new.ev["red"] = e
  <2>1. at = Len(cycles) + 1 => at \notin DOMAIN cycles
    BY <1>5, LogIndices
  <2>2. ph = "red" => e.run = cmd[p].run
    BY <1>5 DEF HonestCommand, RunPhases
  <2> QED BY <1>6, <2>1, <2>2 DEF SavedCycle, TargetId
<1>12. ph # "red" =>
         /\ "red" \in DOMAIN old.ev /\ id = old.id
         /\ new.id = old.id /\ new.test = old.test /\ new.requirement = old.requirement
         /\ DOMAIN new.ev = DOMAIN old.ev \union {ph} /\ new.ev[ph] = e
         /\ \A phase \in DOMAIN old.ev : phase # ph => new.ev[phase] = old.ev[phase]
  <2> SUFFICES ASSUME ph # "red"
               PROVE  /\ "red" \in DOMAIN old.ev /\ id = old.id
                      /\ new.id = old.id /\ new.test = old.test /\ new.requirement = old.requirement
                      /\ DOMAIN new.ev = DOMAIN old.ev \union {ph} /\ new.ev[ph] = e
                      /\ \A phase \in DOMAIN old.ev : phase # ph => new.ev[phase] = old.ev[phase]
    OBVIOUS
  <2>1. new = [old EXCEPT !.ev = WithField(@, ph, e)] /\ id = old.id
    BY <1>3 DEF SavedCycle, TargetId
  <2>2. DOMAIN old = {"id", "test", "requirement", "ev"} /\ "red" \in DOMAIN old.ev
    BY <1>5, <1>6 DEF HonestFile, HonestCycle
  <2> HIDE DEF new, old, ph, e
  <2>3. /\ new.id = old.id /\ new.test = old.test /\ new.requirement = old.requirement
        /\ new.ev = WithField(old.ev, ph, e)
    BY <2>1, <2>2
  <2> QED BY <2>1, <2>2, <2>3 DEF WithField
<1> HIDE DEF at, e, new, old, id, ph
<1>13. ph # "red" => ph \notin DOMAIN old.ev
  <2> SUFFICES ASSUME ph # "red", ph \in DOMAIN old.ev PROVE FALSE
    OBVIOUS
  <2>1. Logged(order, old, ph) /\ old.ev[ph].order < Len(order)
    BY <1>2, <1>6, <1>7 DEF IntactFile, old
  <2> QED BY <1>7, <1>10, <1>12, <2>1 DEF Logged, validateEvidenceOrderLog
<1>14. Adds(cycles, cycles', at, ph) /\ cycles'[at] = new
  BY <1>4, <1>6, <1>11, <1>12, <1>13 DEF Adds, old
<1>15. Logged(order, new, ph) /\ new.ev[ph].order = Len(order)
  BY <1>7, <1>11, <1>12 DEF Logged
<1>16. InSequence(new)
  <2>1. CASE ph = "red"
    BY <1>11, <2>1 DEF InSequence, Has
  <2>2. CASE ph # "red"
    <3>1. InSequence(old) /\ \A phase \in DOMAIN old.ev : old.ev[phase].order < Len(order)
      BY <1>2, <1>6, <1>7, <2>2 DEF IntactFile, old
    <3>2. \A phase \in DOMAIN old.ev : new.ev[phase] = old.ev[phase]
      BY <1>12, <1>13, <2>2
    <3> QED BY <1>6, <1>8, <1>9, <1>12, <1>13, <1>15, <2>2, <3>1, <3>2, ContinuedInSequence
  <2> QED BY <2>1, <2>2
<1>17. new.id = new.ev["red"].run
  BY <1>2, <1>6, <1>11, <1>12, <1>13 DEF IntactFile, old
<1>18. \A i \in DOMAIN cycles : i # at => cycles[i].id # new.id
  BY <1>2, <1>6, <1>8, <1>11, <1>12 DEF IntactFile, old
<1>19. IntactFile(order', cycles', chain')
  <2>1. at \in DOMAIN cycles \/ at = Len(cycles) + 1
    BY <1>6
  <2>2. ph = "void" => /\ at \in DOMAIN cycles /\ ~Passed(cycles[at], "green")
                       /\ \E j \in DOMAIN cycles : StandsBefore(cycles, j, at)
    BY <1>6, <1>8 DEF old
  <2>3. IntactFile(order, cycles', Append(chain, ChainRecord(cycles'[at], ph)))
    BY <1>2, <1>5, <1>6, <1>7, <1>14, <1>15, <1>16, <1>17, <1>18, <2>1, <2>2, AddedIsIntact
  <2> QED BY <1>1, <1>4, <1>14, <2>3
<1> QED BY <1>1, <1>2, <1>19, ReturnIsIntact DEF HonestInv

LEMMA CommandIsIntact ==
  ASSUME HonestInv, LogInv, IntactInv, NEW p \in Procs, Command(p) PROVE IntactInv'
<1> SUFFICES ASSUME ~overlapped' PROVE IntactInv'
  BY DEF IntactInv
<1>1. ASSUME NEW phase \in RunPhases, NEW t \in Tests, NEW r \in Requirements,
             StartPhase(p, phase, t, r)
      PROVE  IntactInv'
  BY <1>1, StartPhaseIsIntact
<1>2. ASSUME NEW t \in Tests, StartVoid(p, t) \/ StartMigrate(p, t) PROVE IntactInv'
  BY <1>2, StartApprovalIsIntact
<1>3. CASE Execute(p)
  BY <1>3, ExecuteIsIntact
<1>4. CASE Assess(p)
  BY <1>4, AssessIsIntact
<1>5. CASE ApproveVoid(p) \/ ApproveMigrate(p) \/ Fingerprint(p)
  BY <1>5, ApproveVoidIsIntact, ApproveMigrateIsIntact, FingerprintIsIntact
<1>6. CASE AppendPhase(p)
  BY <1>6, AppendPhaseIsIntact
<1>7. CASE SaveEvidence(p)
  BY <1>7, SaveIsIntact
<1>8. CASE Crash(p)
  <2>1. /\ pc[p] = "save" /\ Return(p) /\ UNCHANGED <<order, cycles, chain>> /\ ~overlapped
    BY <1>8 DEF Crash, diskVars, histVars
  <2>2. /\ \A q \in Procs \ {p} : pc[q] = "idle"
        /\ IntactFile(order, cycles, chain)
    BY <2>1, OthersAreIdle
  <2> QED BY <2>1, <2>2, ReturnIsIntact DEF HonestInv
<1> QED BY <1>1, <1>2, <1>3, <1>4, <1>5, <1>6, <1>7, <1>8 DEF Command

LEMMA NextIsIntact == HonestInv /\ LogInv /\ IntactInv /\ [Next]_vars => IntactInv'
<1> SUFFICES ASSUME HonestInv, LogInv, IntactInv, [Next]_vars PROVE IntactInv'
  OBVIOUS
<1>1. ASSUME NEW p \in Procs, Command(p) PROVE IntactInv'
  BY <1>1, CommandIsIntact
<1>2. ASSUME UNCHANGED <<order, seen, cycles, chain, pc, cmd, overlapped>> PROVE IntactInv'
  BY <1>2 DEF IntactInv, Alone, IntactCommand, TargetId
<1>3. ASSUME NEW t \in Tests, EditTest(t) PROVE IntactInv'
  BY <1>2, <1>3 DEF EditTest, diskVars
<1>4. CASE EditSource
  BY <1>2, <1>4 DEF EditSource, diskVars, histVars
<1>5. CASE UNCHANGED vars
  BY <1>2, <1>5 DEF vars
<1> QED BY <1>1, <1>3, <1>4, <1>5 DEF Next

LEMMA AlwaysIntact == Spec => [](HonestInv /\ LogInv /\ IntactInv)
<1>1. Init => HonestInv /\ LogInv /\ IntactInv
  BY InitIsHonest, InitLog, InitIsIntact
<1>2. HonestInv /\ LogInv /\ IntactInv /\ [Next]_vars => (HonestInv /\ LogInv /\ IntactInv)'
  BY NextIsHonest, NextKeepsLogs, NextIsIntact
<1> QED BY <1>1, <1>2, PTL DEF Spec

(* One command at a time, crashing where it may, leaves log, chain and       *)
(* cycles in agreement.                                                      *)
THEOREM RecordedIsIntact == Spec => []RecordedEvidenceIsIntact
<1>1. HonestInv /\ LogInv /\ IntactInv => RecordedEvidenceIsIntact
  BY IntactIsRecorded DEF HonestInv, IntactInv, RecordedEvidenceIsIntact
<1> QED BY <1>1, AlwaysIntact, PTL

(* One command at a time voids a test's latest cycle only onto another that  *)
(* stands for it, so that the test's staleness stays watched.                *)
THEOREM VoidedOntoFallback == Spec => []VoidKeepsFallback
<1>1. HonestInv /\ LogInv /\ IntactInv => VoidKeepsFallback
  BY IntactHasFallback DEF HonestInv, IntactInv, VoidKeepsFallback
<1> QED BY <1>1, AlwaysIntact, PTL
=============================================================================
