--------------------------- MODULE RunLeaseProofs ---------------------------
(***************************************************************************)
(* The writer lease for any number of processes that stay alive: mutual    *)
(* exclusion, the holder is named by the lock, and what one holder saved   *)
(* is not overwritten by the next, whatever older copies it builds on, as  *)
(* long as no save without the lease overwrites anything.  With three      *)
(* processes these fail once one may die: two of them can find its lock    *)
(* stale, and the slower removes the lock that the faster has created      *)
(* since.  So the theorems assume MaxCrashes = 0 or, with any number of    *)
(* crashes, TwoWriters.                                                    *)
(***************************************************************************)
EXTENDS RunLease, FiniteSetTheorems, TLAPS

\* What is saved are updates, whichever copy it is built on.
LEMMA SavesAreTyped ==
  ASSUME TypeOK, NEW p \in Proc \cup {Operator}, NEW c \in copies[p], NEW u \in Updates
  PROVE  /\ c \cup {u} \subseteq Updates
         /\ [copies EXCEPT ![p] = copies[p] \cup {c \cup {u}}]
              \in [Proc \cup {Operator} -> SUBSET SUBSET Updates]
  BY DEF TypeOK

LEMMA UpdatesAreTyped ==
  ASSUME TypeOK, NEW p \in Proc, NEW leased \in BOOLEAN
  PROVE  /\ Update(p, writes[p], leased) \in Updates
         /\ Update(p, 0, leased) \in Updates
         /\ Stop \in Updates
  BY LeaseAssumption DEF TypeOK, Updates, Update, LeaseAssumption

LEMMA SaveRecordKeepsType ==
  ASSUME TypeOK, NEW p \in Proc, SaveRecord(p)
  PROVE  TypeOK'
<1>1. PICK c \in copies[p] : record' = c \cup {Update(p, writes[p], TRUE)}
  BY DEF SaveRecord
<1>2. record' \subseteq Updates /\ record' = c \cup {Update(p, writes[p], TRUE)}
  BY <1>1, SavesAreTyped, UpdatesAreTyped
<1>3. copies' = [copies EXCEPT ![p] = copies[p] \cup {c \cup {Update(p, writes[p], TRUE)}}]
  BY <1>1 DEF SaveRecord, Hold
<1>4. copies' \in [Proc \cup {Operator} -> SUBSET SUBSET Updates]
  BY <1>3, SavesAreTyped, UpdatesAreTyped
<1> QED
  BY <1>2, <1>4 DEF SaveRecord, Goto, TypeOK, Holding

LEMMA SaveUnleasedIsTyped ==
  ASSUME TypeOK, NEW p \in Proc \cup {Operator}, NEW u \in Updates, SaveUnleased(p, u)
  PROVE  record' \subseteq Updates /\ raced' \in BOOLEAN
<1>1. PICK c \in copies[p] : record' = c \cup {u} /\ raced' = (raced \/ c # record)
  BY DEF SaveUnleased
<1> QED
  BY <1>1, SavesAreTyped DEF TypeOK

LEMMA JournalKeepsType ==
  ASSUME TypeOK, NEW p \in Proc, Journal(p)
  PROVE  TypeOK'
<1>1. record' \subseteq Updates /\ raced' \in BOOLEAN
  BY SaveUnleasedIsTyped, UpdatesAreTyped DEF Journal
<1> QED
  BY <1>1 DEF Journal, Hold, Goto, TypeOK, Acquiring

LEMMA SaveUnawaitedKeepsType ==
  ASSUME TypeOK, NEW p \in Proc, SaveUnawaited(p)
  PROVE  TypeOK'
<1>1. record' \subseteq Updates /\ raced' \in BOOLEAN
  BY SaveUnleasedIsTyped, UpdatesAreTyped DEF SaveUnawaited
<1> QED
  BY <1>1 DEF SaveUnawaited, Hold, TypeOK

LEMMA StoppingKeepsType ==
  ASSUME TypeOK, SaveStopped \/ SaveStopReason
  PROVE  TypeOK'
<1>1. Stop \in Updates
  BY DEF Updates
<1>2. record' \subseteq Updates /\ raced' \in BOOLEAN
  BY <1>1, SaveUnleasedIsTyped DEF SaveStopped, SaveStopReason
<1> QED
  BY <1>2, LeaseAssumption
     DEF SaveStopped, SaveStopReason, Hold, Goto, TypeOK, Stopping, LeaseAssumption

LEMMA InitEstablishesLiveInv == Init => LiveInv
<1> SUFFICES ASSUME Init PROVE LiveInv
  OBVIOUS
<1>1. TypeOK
  <2>1. writes \in [Proc -> 0..MaxWrites]
    BY LeaseAssumption DEF Init, LeaseAssumption
  <2> QED
    BY <2>1 DEF Init, TypeOK
<1> QED
  BY <1>1 DEF Init, LiveInv, Holding

LEMMA StepKeepsLiveInv ==
  ASSUME MaxCrashes = 0
  PROVE  LiveInv /\ [Next]_vars => LiveInv'
<1> SUFFICES ASSUME LiveInv, [Next]_vars PROVE LiveInv'
  OBVIOUS
<1> USE LeaseAssumption
        DEF LiveInv, TypeOK, LeaseAssumption, Goto, Holding, Acquiring, Stopping, NoLock, Hold
<1>1. ASSUME NEW p \in Proc, Step(p) PROVE LiveInv'
  <2>1. CASE CallAcquire(p)
    BY <2>1 DEF CallAcquire
  <2>2. CASE Create(p)
    <3>1. CASE lock = NoLock
      <4>1. lock' = [owner |-> p, written |-> FALSE] /\ pc' = [pc EXCEPT ![p] = "write"]
        BY <2>2, <3>1 DEF Create
      <4>2. \A q \in Proc : pc[q] \notin {"write"} \cup Holding
        BY <3>1
      <4> QED
        BY <2>2, <4>1, <4>2 DEF Create
    <3>2. CASE lock # NoLock
      BY <2>2, <3>2 DEF Create
    <3> QED
      BY <3>1, <3>2
  <2>3. CASE WriteOwner(p)
    <3>1. pc[p] = "write" /\ lock.owner = p
      BY <2>3 DEF WriteOwner
    <3>2. lock' = [lock EXCEPT !.written = TRUE]
      BY <2>3, <3>1 DEF WriteOwner, WriteOwn
    <3>3. lock \in [owner : Proc, written : BOOLEAN]
      BY <3>1
    <3>4. lock' \in [owner : Proc, written : BOOLEAN] /\ lock'.owner = p /\ lock'.written
      BY <3>2, <3>3, <3>1
    <3>5. pc' = [pc EXCEPT ![p] = "hold"]
      BY <2>3, <3>1 DEF WriteOwner
    <3>6. TypeOK'
      BY <2>3, <3>4, <3>5 DEF WriteOwner
    <3>7. ASSUME NEW q \in Proc, q # p PROVE pc'[q] = pc[q] /\ pc[q] \notin {"write"} \cup Holding
      BY <3>1, <3>5, <3>7
    <3>8. pc'[p] = "hold" /\ pc'[Operator] = pc[Operator]
      BY <3>5
    <3> QED
      BY <2>3, <3>4, <3>6, <3>7, <3>8 DEF WriteOwner
  <2>4. CASE Inspect(p)
    BY <2>4 DEF Inspect, Stale, processAlive
  <2>5. CASE ReadRecord(p)
    BY <2>5 DEF ReadRecord
  <2>6. CASE SaveRecord(p)
    BY <2>6, SaveRecordKeepsType DEF SaveRecord
  <2>7. CASE CallRelease(p)
    BY <2>7 DEF CallRelease
  <2>8. CASE CheckNonce(p)
    BY <2>8 DEF CheckNonce
  <2>9. CASE UnlinkOwn(p)
    BY <2>9 DEF UnlinkOwn
  <2>10. CASE ReturnUnawaited(p)
    BY <2>10 DEF ReturnUnawaited
  <2>11. CASE ReadUnawaited(p)
    BY <2>11 DEF ReadUnawaited
  <2>12. CASE SaveUnawaited(p)
    BY <2>12, SaveUnawaitedKeepsType DEF SaveUnawaited
  <2> QED
    BY <1>1, <2>1, <2>2, <2>3, <2>4, <2>5, <2>6, <2>7, <2>8, <2>9, <2>10,
       <2>11, <2>12
       DEF Step, Unlink, Journal, Recreate
<1>2. ASSUME NEW p \in Proc, Crash(p) PROVE FALSE
  <2>1. {q \in Proc : ~processAlive(q)} = {}
    BY DEF processAlive
  <2>2. Cardinality({q \in Proc : ~processAlive(q)}) = 0
    BY <2>1, FS_EmptySet
  <2> QED
    BY <1>2, <2>2 DEF Crash
<1>3. CASE CallStop
  BY <1>3 DEF CallStop
<1>4. CASE SaveStopped
  BY <1>4, StoppingKeepsType DEF SaveStopped
<1>5. CASE SaveStopReason
  BY <1>5, StoppingKeepsType DEF SaveStopReason
<1>6. CASE UNCHANGED vars
  BY <1>6 DEF vars
<1> QED
  BY <1>1, <1>2, <1>3, <1>4, <1>5, <1>6 DEF Next

\* While no process dies, the lock file belongs to the one process that
\* created it from then until it is removed.
THEOREM LiveLease == ASSUME MaxCrashes = 0 PROVE Spec => []LiveInv
  BY InitEstablishesLiveInv, StepKeepsLiveInv, PTL DEF Spec

\* A live concurrent writer is rejected, for any number of processes.
THEOREM LeaseExcludes == ASSUME MaxCrashes = 0 PROVE Spec => []MutualExclusion
<1>1. LiveInv => MutualExclusion
  BY DEF LiveInv, MutualExclusion
<1> QED
  BY <1>1, LiveLease, PTL

-----------------------------------------------------------------------------
(* What a holder's copies know, as long as one process holds the lease      *)

LEMMA InitEstablishesCopiesInv == Init => CopiesInv
  BY DEF Init, CopiesInv, Holding, Acquiring

\* A save without the lease that overwrites nothing only adds its update.
LEMMA UnracedSaveAdds ==
  ASSUME NEW p, NEW u, SaveUnleased(p, u), ~raced'
  PROVE  record' = record \cup {u} /\ ~raced
  BY DEF SaveUnleased

\* Only the holder adds an update under the lease, and it adds its own.
LEMMA StepKeepsCopiesInv ==
  ASSUME TypeOK, MutualExclusion, CopiesInv, [Next]_vars
  PROVE  CopiesInv'
<1> USE LeaseAssumption
        DEF LeaseAssumption, TypeOK, Goto, Hold, Holding, Acquiring, Stopping
<1>1. ASSUME NEW p \in Proc, Step(p) PROVE CopiesInv'
  <2>1. CASE \/ CallAcquire(p) \/ Create(p) \/ WriteOwner(p) \/ Inspect(p)
             \/ Recreate(p) \/ CheckNonce(p) \/ UnlinkOwn(p)
    <3>1. UNCHANGED <<record, copies, tail, raced>>
      BY <2>1 DEF CallAcquire, Create, WriteOwner, Inspect, Recreate, CheckNonce, UnlinkOwn
    <3>2. ASSUME NEW q \in Proc PROVE KnowsOthers(q)' <=> KnowsOthers(q)
      BY <3>1 DEF KnowsOthers
    <3>3. pc'[p] \in Holding => pc[p] \in Holding \/ copies[p] = {}
      BY <2>1
         DEF CopiesInv, CallAcquire, Create, WriteOwner, Inspect, Recreate, CheckNonce, UnlinkOwn
    <3>4. /\ pc'[p] \in Acquiring \ {"journal"} => copies[p] = {}
          /\ pc'[p] \in {"idle", "release", "unlinkOwn"} /\ tail[p] = "none" => copies[p] = {}
          /\ tail[p] # "none" => pc'[p] \in {"idle", "release", "unlinkOwn"}
      BY <2>1
         DEF CopiesInv, CallAcquire, Create, WriteOwner, Inspect, Recreate, CheckNonce, UnlinkOwn
    <3>5. \A q \in Proc \ {p} : pc'[q] = pc[q]
      BY <2>1 DEF CallAcquire, Create, WriteOwner, Inspect, Recreate, CheckNonce, UnlinkOwn
    <3>6. copies[p] = {} => KnowsOthers(p)
      BY DEF KnowsOthers
    <3> HIDE DEF TypeOK, Goto, Hold
    <3> QED
      BY <3>1, <3>2, <3>3, <3>4, <3>5, <3>6 DEF CopiesInv
  <2>2. CASE Unlink(p) \/ CallRelease(p) \/ ReturnUnawaited(p)
    BY <2>2 DEF CopiesInv, KnowsOthers, Unlink, CallRelease, ReturnUnawaited
  <2>3. CASE ReadRecord(p)
    BY <2>3 DEF CopiesInv, KnowsOthers, ReadRecord
  <2>4. CASE ReadUnawaited(p)
    BY <2>4 DEF CopiesInv, KnowsOthers, ReadUnawaited
  <2>5. CASE SaveRecord(p)
    <3>1. PICK c \in copies[p] : record' = c \cup {Update(p, writes[p], TRUE)}
      BY <2>5 DEF SaveRecord
    <3>2. copies' = [copies EXCEPT ![p] = copies[p] \cup {record'}]
      BY <2>5 DEF SaveRecord
    <3>4. ASSUME ~raced PROVE KnowsOthers(p)'
      <4>1. KnowsOthers(p)
        BY <2>5, <3>4 DEF SaveRecord, CopiesInv
      <4>2. copies'[p] = copies[p] \cup {record'}
        BY <3>2
      <4>3. \A u : u.leased /\ u.by # p => (u \in record' <=> u \in c)
        BY <3>1 DEF Update
      <4> QED
        BY <4>1, <4>2, <4>3 DEF KnowsOthers
    <3>3. \A q \in Proc \ {p} : pc[q] \notin Holding
      BY <2>5 DEF SaveRecord, MutualExclusion
    <3> QED
      BY <2>5, <3>2, <3>3, <3>4 DEF SaveRecord, CopiesInv
  <2>6. CASE Journal(p) \/ SaveUnawaited(p)
    <3>1. \E n : SaveUnleased(p, Update(p, n, FALSE))
      BY <2>6 DEF Journal, SaveUnawaited
    <3>2. ~raced' => ~raced
      BY <3>1, UnracedSaveAdds
    <3>3. copies' = [copies EXCEPT ![p] = {}] /\ tail' \in [Proc -> {"none", "read", "save"}]
      BY <2>6 DEF Journal, SaveUnawaited
    <3>4. ASSUME NEW q \in Proc, ~raced', KnowsOthers(q) PROVE KnowsOthers(q)'
      <4>1. copies'[q] \subseteq copies[q]
        BY <3>3
      <4>2. \A u : u.leased => (u \in record' <=> u \in record)
        BY <3>1, <3>4, UnracedSaveAdds DEF Update
      <4> HIDE DEF TypeOK, Goto, Hold
      <4> QED
        BY <3>4, <4>1, <4>2 DEF KnowsOthers
    <3>5. CASE Journal(p)
      BY <2>6, <3>2, <3>3, <3>4, <3>5 DEF Journal, CopiesInv
    <3>6. CASE SaveUnawaited(p)
      BY <2>6, <3>2, <3>3, <3>4, <3>6 DEF SaveUnawaited, CopiesInv
    <3> QED
      BY <2>6, <3>5, <3>6
  <2> QED
    BY <1>1, <2>1, <2>2, <2>3, <2>4, <2>5, <2>6
       DEF Step, CallAcquire, Create, WriteOwner, Inspect, Recreate, CheckNonce, UnlinkOwn
<1>2. ASSUME NEW p \in Proc, Crash(p) PROVE CopiesInv'
  BY <1>2 DEF Crash, CopiesInv, KnowsOthers
<1>3. CASE CallStop
  BY <1>3 DEF CallStop, CopiesInv, KnowsOthers
<1>4. CASE SaveStopped \/ SaveStopReason
  <2>1. SaveUnleased(Operator, Stop)
    BY <1>4 DEF SaveStopped, SaveStopReason
  <2>2. ~raced' => ~raced /\ \A u : u.leased => (u \in record' <=> u \in record)
    BY <2>1, UnracedSaveAdds DEF Stop, Update
  <2>3. \A q \in Proc : copies'[q] = copies[q] /\ pc'[q] = pc[q]
    BY <1>4 DEF SaveStopped, SaveStopReason
  <2>4. UNCHANGED tail
    BY <1>4 DEF SaveStopped, SaveStopReason
  <2>5. ASSUME NEW q \in Proc, ~raced', KnowsOthers(q) PROVE KnowsOthers(q)'
    BY <2>2, <2>3, <2>5 DEF KnowsOthers
  <2> HIDE DEF TypeOK, Goto, Hold
  <2> QED
    BY <2>2, <2>3, <2>4, <2>5 DEF CopiesInv
<1>5. CASE UNCHANGED vars
  BY <1>5 DEF vars, CopiesInv, KnowsOthers
<1> QED
  BY <1>1, <1>2, <1>3, <1>4, <1>5 DEF Next

\* The holder's copies have what others saved under the lease; saves without
\* the lease overwrite nothing or are noticed.
LEMMA StepKeepsOthersUpdates ==
  ASSUME TypeOK, CopiesInv, [Next]_vars
  PROVE  ~raced' => \A u \in record \ record' : u.leased => pc[u.by] = "update"
<1> SUFFICES ASSUME ~raced', NEW u \in record, u \notin record', u.leased
             PROVE  pc[u.by] = "update"
  OBVIOUS
<1>1. ASSUME NEW p, NEW v, SaveUnleased(p, v) PROVE FALSE
  BY <1>1, UnracedSaveAdds
<1>2. ASSUME NEW p \in Proc, SaveRecord(p) PROVE pc[u.by] = "update"
  <2>1. PICK c \in copies[p] : record' = c \cup {Update(p, writes[p], TRUE)}
    BY <1>2 DEF SaveRecord
  <2>2. pc[p] = "update" /\ KnowsOthers(p)
    BY <1>2 DEF SaveRecord, Goto, CopiesInv, Holding
  <2> QED
    BY <2>1, <2>2 DEF KnowsOthers
<1> QED
  BY <1>1, <1>2
     DEF Next, vars, Step, CallAcquire, Create, WriteOwner, Inspect, Unlink, Journal, Recreate,
         ReadRecord, CallRelease, ReturnUnawaited, ReadUnawaited, SaveUnawaited,
         CheckNonce, UnlinkOwn, Crash, CallStop, SaveStopped, SaveStopReason

\* The holder is the one the lock file names, so that its release neither
\* fails on the nonce nor removes the lease of another.
THEOREM HolderIsNamed == ASSUME MaxCrashes = 0 PROVE Spec => []HolderOwnsLock
<1>1. LiveInv => HolderOwnsLock
  BY DEF LiveInv, TypeOK, NoLock, HolderOwnsLock
<1> QED
  BY <1>1, LiveLease, PTL

\* What one process saved under the lease is never overwritten by another that
\* acquires it later, for any number of processes, whatever copies they keep.
THEOREM LeaseKeepsOthersUpdates ==
  ASSUME MaxCrashes = 0 PROVE Spec => OthersUpdatesAreKept
<1>1. LiveInv => TypeOK /\ MutualExclusion
  BY DEF LiveInv, MutualExclusion
<1>2. LiveInv /\ CopiesInv /\ [Next]_vars => CopiesInv'
  BY <1>1, StepKeepsCopiesInv
<1>3. LiveInv /\ CopiesInv /\ [Next]_vars =>
        [~raced' => \A u \in record \ record' : u.leased => pc[u.by] = "update"]_vars
  BY <1>1, StepKeepsOthersUpdates
<1> QED
  BY <1>2, <1>3, InitEstablishesCopiesInv, LiveLease, PTL DEF Spec, OthersUpdatesAreKept

-----------------------------------------------------------------------------
(* Two writers, either of which may die at any step: who finds the lock    *)
(* of a dead process is the last one alive, so nobody can come in between  *)
(* its look at the lock and the lock's removal.  A third writer could.     *)

TwoWriters == \A p, q, r \in Proc : p = q \/ p = r \/ q = r

Reclaiming == {"unlink", "journal", "recreate", "rewrite"}

PairInv ==
  /\ TypeOK
  /\ \A p \in Proc :
       /\ pc[p] \notin Stopping
       /\ pc[p] \in {"write", "rewrite"} \cup Holding => lock.owner = p
       /\ pc[p] \in Holding => lock.written
       /\ pc[p] \in Reclaiming => \A q \in Proc \ {p} : pc[q] = "dead"

LEMMA InitEstablishesPairInv == Init => PairInv
<1> SUFFICES ASSUME Init PROVE PairInv
  OBVIOUS
<1>1. TypeOK
  BY InitEstablishesLiveInv DEF LiveInv
<1> QED
  BY <1>1, LeaseAssumption DEF Init, PairInv, Holding, Reclaiming, Stopping, LeaseAssumption

LEMMA StepKeepsPairInv ==
  ASSUME TwoWriters
  PROVE  PairInv /\ [Next]_vars => PairInv'
<1> SUFFICES ASSUME PairInv, [Next]_vars PROVE PairInv'
  OBVIOUS
<1> USE LeaseAssumption
        DEF PairInv, TypeOK, LeaseAssumption, Goto, Holding, Acquiring, Reclaiming, Stopping, NoLock, Hold
<1>1. ASSUME NEW p \in Proc, Step(p) PROVE PairInv'
  <2>1. CASE CallAcquire(p)
    BY <2>1 DEF CallAcquire
  <2>2. CASE Create(p)
    <3>1. CASE lock = NoLock
      <4>1. lock' = [owner |-> p, written |-> FALSE] /\ pc' = [pc EXCEPT ![p] = "write"]
        BY <2>2, <3>1 DEF Create
      <4>2. \A q \in Proc : pc[q] \notin {"write", "rewrite"} \cup Holding
        BY <3>1
      <4> QED
        BY <2>2, <4>1, <4>2 DEF Create
    <3>2. CASE lock # NoLock
      BY <2>2, <3>2 DEF Create
    <3> QED
      BY <3>1, <3>2
  <2>3. CASE WriteOwner(p)
    <3>1. pc[p] \in {"write", "rewrite"} /\ lock.owner = p
      BY <2>3 DEF WriteOwner
    <3>2. lock' = [lock EXCEPT !.written = TRUE]
      BY <2>3, <3>1 DEF WriteOwner, WriteOwn
    <3>3. lock \in [owner : Proc, written : BOOLEAN]
      BY <3>1
    <3>4. lock' \in [owner : Proc, written : BOOLEAN] /\ lock'.owner = p /\ lock'.written
      BY <3>2, <3>3, <3>1
    <3>5. pc' = [pc EXCEPT ![p] = "hold"]
      BY <2>3, <3>1 DEF WriteOwner
    <3>6. TypeOK'
      BY <2>3, <3>4, <3>5 DEF WriteOwner
    <3>7. ASSUME NEW q \in Proc, q # p
          PROVE pc'[q] = pc[q] /\ pc[q] \notin {"write", "rewrite"} \cup Holding
      BY <3>1, <3>5, <3>7
    <3>8. pc'[p] = "hold" /\ pc'[Operator] = pc[Operator]
      BY <3>5
    <3> QED
      BY <2>3, <3>4, <3>6, <3>7, <3>8 DEF WriteOwner
  <2>4. CASE Inspect(p)
    <3>1. CASE Stale
      <4>1. lock.owner \in Proc \ {p} /\ pc[lock.owner] = "dead"
        BY <2>4, <3>1 DEF Inspect, Stale, processAlive
      <4>2. \A q \in Proc \ {p} : q = lock.owner
        BY <4>1 DEF TwoWriters
      <4> QED
        BY <2>4, <3>1, <4>1, <4>2 DEF Inspect
    <3>2. CASE ~Stale
      BY <2>4, <3>2 DEF Inspect
    <3> QED
      BY <3>1, <3>2
  <2>5. CASE Unlink(p) \/ Journal(p)
    <3>1. \A q \in Proc \ {p} : pc[q] = "dead"
      BY <2>5 DEF Unlink, Journal
    <3>2. CASE Unlink(p)
      <4>1. copies' \in [Proc \cup {Operator} -> SUBSET SUBSET Updates]
        BY <3>2 DEF Unlink
      <4> QED
        BY <3>1, <3>2, <4>1 DEF Unlink
    <3>3. CASE Journal(p)
      BY <3>1, <3>3, JournalKeepsType DEF Journal
    <3> QED
      BY <2>5, <3>2, <3>3
  <2>6. CASE Recreate(p)
    <3>1. \A q \in Proc \ {p} : pc[q] = "dead"
      BY <2>6 DEF Recreate
    <3>2. CASE lock = NoLock
      <4>1. lock' = [owner |-> p, written |-> FALSE] /\ pc' = [pc EXCEPT ![p] = "rewrite"]
        BY <2>6, <3>2 DEF Recreate
      <4> QED
        BY <2>6, <3>1, <4>1 DEF Recreate
    <3>3. CASE lock # NoLock
      BY <2>6, <3>3 DEF Recreate
    <3> QED
      BY <3>2, <3>3
  <2>7. CASE ReadRecord(p)
    BY <2>7 DEF ReadRecord
  <2>8. CASE SaveRecord(p)
    BY <2>8, SaveRecordKeepsType DEF SaveRecord
  <2>9. CASE CallRelease(p) \/ CheckNonce(p) \/ ReturnUnawaited(p)
    BY <2>9 DEF CallRelease, CheckNonce, ReturnUnawaited
  <2>10. CASE UnlinkOwn(p)
    BY <2>10 DEF UnlinkOwn
  <2>11. CASE ReadUnawaited(p)
    BY <2>11 DEF ReadUnawaited
  <2>12. CASE SaveUnawaited(p)
    BY <2>12, SaveUnawaitedKeepsType DEF SaveUnawaited
  <2> QED
    BY <1>1, <2>1, <2>2, <2>3, <2>4, <2>5, <2>6, <2>7, <2>8, <2>9, <2>10, <2>11, <2>12
       DEF Step
<1>2. ASSUME NEW p \in Proc, Crash(p) PROVE PairInv'
  BY <1>2 DEF Crash
<1>3. CASE CallStop
  BY <1>3 DEF CallStop
<1>4. CASE SaveStopped
  BY <1>4, StoppingKeepsType DEF SaveStopped
<1>5. CASE SaveStopReason
  BY <1>5, StoppingKeepsType DEF SaveStopReason
<1>6. CASE UNCHANGED vars
  BY <1>6 DEF vars
<1> QED
  BY <1>1, <1>2, <1>3, <1>4, <1>5, <1>6 DEF Next

LEMMA PairLease == ASSUME TwoWriters PROVE Spec => []PairInv
  BY InitEstablishesPairInv, StepKeepsPairInv, PTL DEF Spec

\* Of two writers that may die at any step, whoever holds the lease is the one
\* the lock file names, reclaimed leases included; so two never hold it.
THEOREM SurvivorOwnsLock == ASSUME TwoWriters PROVE Spec => []HolderOwnsLock
<1>1. PairInv => HolderOwnsLock
  BY DEF PairInv, TypeOK, NoLock, HolderOwnsLock
<1> QED
  BY <1>1, PairLease, PTL

\* ... and nothing the dead process saved under the lease is lost to the
\* survivor, nor the other way round.
THEOREM SurvivorKeepsOthersUpdates ==
  ASSUME TwoWriters PROVE Spec => OthersUpdatesAreKept
<1>1. PairInv => TypeOK /\ MutualExclusion
  BY DEF PairInv, MutualExclusion
<1>2. PairInv /\ CopiesInv /\ [Next]_vars => CopiesInv'
  BY <1>1, StepKeepsCopiesInv
<1>3. PairInv /\ CopiesInv /\ [Next]_vars =>
        [~raced' => \A u \in record \ record' : u.leased => pc[u.by] = "update"]_vars
  BY <1>1, StepKeepsOthersUpdates
<1> QED
  BY <1>2, <1>3, InitEstablishesCopiesInv, PairLease, PTL DEF Spec, OthersUpdatesAreKept
=============================================================================
