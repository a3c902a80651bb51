--------------------------- MODULE EvidenceOrder ---------------------------
(* The monotonic evidence order log, .musubix/evidence/order.json            *)
(* (packages/analysis/src/order.ts). Every command that records evidence     *)
(* appends one record: it loads the whole log, validates it, refuses a key   *)
(* that is present and writes the whole log back by a temporary file and a   *)
(* rename. Nothing locks the log between the read and the write.             *)
(*                                                                           *)
(* A record's SHA-256 covers its predecessor's, and a log is only ever       *)
(* written as a loaded log with one record more, so the hashes of a log that *)
(* nobody edits by hand link by construction and are left out; sequence      *)
(* numbers and keys are what commands can get wrong.                         *)
EXTENDS Naturals, Sequences, FiniteSets

CONSTANT Procs          \* processes that run evidence commands

VARIABLES order,        \* order.json: a sequence of records
          seen          \* the log each process loaded last

orderVars == <<order, seen>>

(* Waivers and quality refreshes repeat, so their key has their sequence.    *)
Repeats(rec) == rec.phase = "waiver" \/ (rec.kind = "change" /\ rec.phase = "quality")

recordKey(rec) == <<rec.kind, rec.entity, rec.phase, IF Repeats(rec) THEN rec.sequence ELSE 0>>

(* A record in which one field is set that it may have lacked.               *)
WithField(rec, field, value) ==
  [f \in DOMAIN rec \union {field} |-> IF f = field THEN value ELSE rec[f]]

Keys(log) == {recordKey(log[i]) : i \in DOMAIN log}

Record(kind, entity, phase, sequence) ==
  [kind |-> kind, entity |-> entity, phase |-> phase, sequence |-> sequence]

validateEvidenceOrderLog(log) ==
  /\ \A i \in DOMAIN log : log[i].sequence = i
  /\ \A i, j \in DOMAIN log : i # j => recordKey(log[i]) # recordKey(log[j])

(* The sequence of a record that does not repeat, 0 when there is none.      *)
evidenceOrderRecord(log, kind, entity, phase) ==
  IF \E i \in DOMAIN log : recordKey(log[i]) = <<kind, entity, phase, 0>>
  THEN CHOOSE i \in DOMAIN log : recordKey(log[i]) = <<kind, entity, phase, 0>>
  ELSE 0

LoadOrder(p) == seen' = [seen EXCEPT ![p] = order]
Forget(p) == seen' = [seen EXCEPT ![p] = <<>>]

(* Mutant: the key is not looked for.                                        *)
RefusedMutant(p, kind, entity, phase) == ~validateEvidenceOrderLog(seen[p])

Refused(p, kind, entity, phase) ==
  \/ ~validateEvidenceOrderLog(seen[p])
  \/ recordKey(Record(kind, entity, phase, Len(seen[p]) + 1)) \in Keys(seen[p])

(* The log is written over whatever it has become since it was loaded.       *)
WriteOrder(p, kind, entity, phase) ==
  /\ ~Refused(p, kind, entity, phase)
  /\ order' = Append(seen[p], Record(kind, entity, phase, Len(seen[p]) + 1))
  /\ Forget(p)

(* appendEvidenceOrder when no other command runs: it loads and writes.      *)
appendEvidenceOrder(kind, entity, phase) ==
  LET rec == Record(kind, entity, phase, Len(order) + 1) IN
  /\ validateEvidenceOrderLog(order) /\ recordKey(rec) \notin Keys(order)
  /\ order' = Append(order, rec)
  /\ UNCHANGED seen

(* Concurrent commands may lose each other's records, but whatever they do   *)
(* the log stays one that validates: appendEvidenceOrder would refuse every  *)
(* later command of the project otherwise.                                   *)
OrderLogStaysValid == validateEvidenceOrderLog(order)

OrderInv == OrderLogStaysValid /\ \A p \in Procs : validateEvidenceOrderLog(seen[p])
=============================================================================
