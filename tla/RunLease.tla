------------------------------ MODULE RunLease ------------------------------
(***************************************************************************)
(* The writer lease of a run and the record it protects,                   *)
(* packages/analysis/src/hoh.ts: acquire, release, status, save,           *)
(* transition and stop of FileRunStore.                                    *)
(*                                                                         *)
(* The lease is the file writer.lock: created exclusively, then filled     *)
(* with the owner's pid and a nonce in a second step, and removed on       *)
(* release.  A process that finds the lock of a dead pid removes it,       *)
(* journals the reclaim and creates its own.  Every file operation is a    *)
(* step of its own and processes interleave at all of them.                *)
(*                                                                         *)
(* The run record is the set of the updates it carries: an update adds     *)
(* itself to a copy read before and renames the result into place, so what *)
(* was saved since that read is lost.  Under the lease resume() often      *)
(* saves a copy that is not its latest: the record it read when it began   *)
(* (with the gate evidence), or the one transition() returned before       *)
(* completeCandidateSnapshotAttempt wrote it anew.  Without the lease save *)
(* the operator's "stop", the journal entry of a reclaim, and what goes on *)
(* after resume() has returned a promise that it does not await (recovery  *)
(* of a rejected candidate, stop, isolation and amendment stops).          *)
(***************************************************************************)
EXTENDS Naturals, FiniteSets

CONSTANTS Proc,            \* processes that call resume(); a pid is not reused
          Operator,        \* the process of `run stop`
          MaxWrites,       \* updates per process
          MaxCrashes

ASSUME LeaseAssumption ==
  /\ Operator \notin Proc /\ "nobody" \notin Proc
  /\ MaxWrites \in Nat /\ MaxCrashes \in Nat

NoLock == [owner |-> "nobody", written |-> FALSE]

\* An update, and whether it was saved under the lease.
Update(p, n, leased) == [by |-> p, n |-> n, leased |-> leased]
Stop == Update(Operator, 0, FALSE)

VARIABLES lock,      \* writer.lock: who created it, whether it has content
          pc,        \* what each process does next
          record,    \* the updates in state.json
          copies,    \* the copies of the record each process holds
          writes,    \* updates made by each process
          tail,      \* what each process has still to do without awaiting it
          raced      \* a copy was saved without the lease over a record that
                     \* had changed since it was read (history)

vars == <<lock, pc, record, copies, writes, tail, raced>>

Acquiring == {"create", "write", "inspect", "unlink", "journal", "recreate", "rewrite"}
Holding == {"hold", "update", "release", "unlinkOwn"}
Stopping == {"stop", "stopReason"}

Updates == [by : Proc, n : 0..MaxWrites, leased : BOOLEAN] \cup {Stop}

TypeOK ==
  /\ lock \in [owner : Proc, written : BOOLEAN] \cup {NoLock}
  /\ pc \in [Proc \cup {Operator} -> {"idle", "dead"} \cup Acquiring \cup Holding \cup Stopping]
  /\ record \subseteq Updates
  /\ copies \in [Proc \cup {Operator} -> SUBSET SUBSET Updates]
  /\ writes \in [Proc -> 0..MaxWrites]
  /\ tail \in [Proc -> {"none", "read", "save"}]
  /\ raced \in BOOLEAN

Init ==
  /\ lock = NoLock
  /\ pc = [p \in Proc \cup {Operator} |-> "idle"]
  /\ record = {}
  /\ copies = [p \in Proc \cup {Operator} |-> {}]
  /\ writes = [p \in Proc |-> 0]
  /\ tail = [p \in Proc |-> "none"]
  /\ raced = FALSE

\* What a process holds of the record from here on.
Hold(p, held) == copies' = [copies EXCEPT ![p] = held]

\* A copy is saved by a process that has no lease.
SaveUnleased(p, update) ==
  \E c \in copies[p] :
    /\ record' = c \cup {update}
    /\ raced' = (raced \/ c # record)

Goto(p, from, to) == pc[p] = from /\ pc' = [pc EXCEPT ![p] = to]

\* Mutant: a signal that cannot be delivered counts as delivered.
processAliveMutant(p) == TRUE

processAlive(p) == pc[p] # "dead"

-----------------------------------------------------------------------------
(* acquire() *)

CallAcquire(p) ==
  /\ tail[p] = "none"
  /\ Goto(p, "idle", "create")
  /\ UNCHANGED <<lock, record, copies, writes, tail, raced>>

\* Mutant: the lock is opened without the exclusive flag.
CreateMutant(p) ==
  /\ Goto(p, "create", "write") /\ lock' = [owner |-> p, written |-> FALSE]
  /\ UNCHANGED <<record, copies, writes, tail, raced>>

\* open(path, "wx"): fails when the file exists.
Create(p) ==
  /\ IF lock = NoLock
     THEN Goto(p, "create", "write") /\ lock' = [owner |-> p, written |-> FALSE]
     ELSE Goto(p, "create", "inspect") /\ UNCHANGED lock
  /\ UNCHANGED <<record, copies, writes, tail, raced>>

\* The handle writes to the file this process created, if it is still there.
WriteOwn(p) ==
  lock' = IF lock.owner = p THEN [lock EXCEPT !.written = TRUE] ELSE lock

WriteOwner(p) ==
  /\ Goto(p, "write", "hold") \/ Goto(p, "rewrite", "hold")
  /\ WriteOwn(p)
  /\ UNCHANGED <<record, copies, writes, tail, raced>>

\* Mutant: any lock of another process is taken for stale.
StaleMutant == lock # NoLock /\ lock.written

Stale == lock # NoLock /\ lock.written /\ ~processAlive(lock.owner)

\* No file, no content (JSON.parse throws) or a live owner: acquire throws.
Inspect(p) ==
  /\ IF Stale THEN Goto(p, "inspect", "unlink") ELSE Goto(p, "inspect", "idle")
  /\ UNCHANGED <<lock, record, copies, writes, tail, raced>>

\* rm(path, force) removes whatever lock is there by now; the transition that
\* journals the reclaim reads the record next.
Unlink(p) ==
  /\ Goto(p, "unlink", "journal")
  /\ lock' = NoLock
  /\ Hold(p, {record})
  /\ UNCHANGED <<record, writes, tail, raced>>

Journal(p) ==
  /\ Goto(p, "journal", "recreate")
  /\ SaveUnleased(p, Update(p, 0, FALSE))
  /\ Hold(p, {})
  /\ UNCHANGED <<lock, writes, tail>>

Recreate(p) ==
  /\ IF lock = NoLock
     THEN Goto(p, "recreate", "rewrite") /\ lock' = [owner |-> p, written |-> FALSE]
     ELSE Goto(p, "recreate", "idle") /\ UNCHANGED lock
  /\ UNCHANGED <<record, copies, writes, tail, raced>>

-----------------------------------------------------------------------------
(* What resume() does with the lease: status() and save(), then release() *)

ReadRecord(p) ==
  /\ writes[p] < MaxWrites
  /\ Goto(p, "hold", "update")
  /\ Hold(p, copies[p] \cup {record})
  /\ writes' = [writes EXCEPT ![p] = @ + 1]
  /\ UNCHANGED <<lock, record, tail, raced>>

\* What is saved is built on any copy read or saved since resume() began.
SaveRecord(p) ==
  /\ Goto(p, "update", "hold")
  /\ \E c \in copies[p] : record' = c \cup {Update(p, writes[p], TRUE)}
  /\ Hold(p, copies[p] \cup {record'})
  /\ UNCHANGED <<lock, writes, tail, raced>>

\* Mutant: the next resume() of this process finds the copies of this one.
CallReleaseMutant(p) ==
  /\ Goto(p, "hold", "release")
  /\ UNCHANGED <<lock, record, copies, writes, tail, raced>>

CallRelease(p) ==
  /\ Goto(p, "hold", "release")
  /\ Hold(p, {})
  /\ UNCHANGED <<lock, record, writes, tail, raced>>

\* return this.recoverRejectedCandidate(...): the lease is released next, the
\* promise goes on to read and save the record.
ReturnUnawaited(p) ==
  /\ writes[p] < MaxWrites
  /\ Goto(p, "hold", "release")
  /\ Hold(p, {})
  /\ tail' = [tail EXCEPT ![p] = "read"]
  /\ writes' = [writes EXCEPT ![p] = @ + 1]
  /\ UNCHANGED <<lock, record, raced>>

ReadUnawaited(p) ==
  /\ tail[p] = "read"
  /\ tail' = [tail EXCEPT ![p] = "save"]
  /\ Hold(p, {record})
  /\ UNCHANGED <<lock, pc, record, writes, raced>>

SaveUnawaited(p) ==
  /\ tail[p] = "save"
  /\ tail' = [tail EXCEPT ![p] = "none"]
  /\ SaveUnleased(p, Update(p, writes[p], FALSE))
  /\ Hold(p, {})
  /\ UNCHANGED <<lock, pc, writes>>

\* Another nonce, no content or no file: release throws.
CheckNonce(p) ==
  /\ IF lock.owner = p /\ lock.written
     THEN Goto(p, "release", "unlinkOwn") ELSE Goto(p, "release", "idle")
  /\ UNCHANGED <<lock, record, copies, writes, tail, raced>>

UnlinkOwn(p) ==
  /\ Goto(p, "unlinkOwn", "idle")
  /\ lock' = NoLock
  /\ UNCHANGED <<record, copies, writes, tail, raced>>

-----------------------------------------------------------------------------
(* stop(): a transition and a second save, without a lease *)

CallStop ==
  /\ Stop \notin record
  /\ Goto(Operator, "idle", "stop")
  /\ Hold(Operator, {record})
  /\ UNCHANGED <<lock, record, writes, tail, raced>>

SaveStopped ==
  /\ Goto(Operator, "stop", "stopReason")
  /\ SaveUnleased(Operator, Stop)
  /\ Hold(Operator, {record'})
  /\ UNCHANGED <<lock, writes, tail>>

SaveStopReason ==
  /\ Goto(Operator, "stopReason", "idle")
  /\ SaveUnleased(Operator, Stop)
  /\ Hold(Operator, {})
  /\ UNCHANGED <<lock, writes, tail>>

Crash(p) ==
  /\ Cardinality({q \in Proc : ~processAlive(q)}) < MaxCrashes
  /\ pc[p] # "dead" /\ (pc[p] = "idle" => tail[p] # "none")
  /\ pc' = [pc EXCEPT ![p] = "dead"]
  /\ tail' = [tail EXCEPT ![p] = "none"]
  /\ Hold(p, {})
  /\ UNCHANGED <<lock, record, writes, raced>>

Step(p) ==
  \/ CallAcquire(p) \/ Create(p) \/ WriteOwner(p) \/ Inspect(p)
  \/ Unlink(p) \/ Journal(p) \/ Recreate(p)
  \/ ReadRecord(p) \/ SaveRecord(p)
  \/ CallRelease(p) \/ CheckNonce(p) \/ UnlinkOwn(p)
  \/ ReturnUnawaited(p) \/ ReadUnawaited(p) \/ SaveUnawaited(p)

Next ==
  \/ \E p \in Proc : Step(p) \/ Crash(p)
  \/ CallStop \/ SaveStopped \/ SaveStopReason

Spec == Init /\ [][Next]_vars

\* Live processes go on, and try to acquire the lease again when it is refused.
FairSpec == Spec /\ \A p \in Proc : WF_vars(Step(p))

-----------------------------------------------------------------------------
(* Properties *)

\* REQ-011: a live concurrent writer is rejected.
MutualExclusion ==
  \A p, q \in Proc : pc[p] \in Holding /\ pc[q] \in Holding => p = q

\* Whoever holds the lease is named by the lock file, so that release() never
\* fails on the nonce and never removes the lease of another process.
HolderOwnsLock ==
  \A p \in Proc : pc[p] \in Holding => lock = [owner |-> p, written |-> TRUE]

\* What one process saved under the lease is never overwritten by another
\* that holds the lease later: what is lost under the lease is lost to the
\* process that saved it, by building on a copy it read earlier.  Not so once
\* a save without the lease has overwritten what it had not read.
OthersUpdatesAreKept ==
  [][~raced' => \A u \in record \ record' : u.leased => pc[u.by] = "update"]_vars

\* REQ-011: a stale lock owned by a dead process is reclaimed, when the owner
\* lived long enough to write its pid.
WrittenStaleLockIsReclaimed ==
  \A p \in Proc :
    (lock = [owner |-> p, written |-> TRUE] /\ pc[p] = "dead") ~> (lock.owner # p)

\* REQ-011: the stop invocation reaches the stopped state: nobody undoes it.
\* stop() takes no lease, so the code does not keep this; the README's "Known divergences" has the history.
StopIsKept == [][(Stop \in record) => (Stop \in record')]_vars

\* Without dead processes the file, from its exclusive creation to its
\* removal, belongs to one process.  Inductive when MaxCrashes = 0.
LiveInv ==
  /\ TypeOK
  /\ \A p \in Proc :
       /\ pc[p] \in {"idle", "create", "write", "inspect"} \cup Holding
       /\ pc[p] \in {"write"} \cup Holding => lock.owner = p
       /\ pc[p] \in Holding => lock.written

\* As long as no save without the lease has overwritten anything, each copy
\* of the holder agrees with the record on what others saved under the lease;
\* who acquires the lease has no copy yet.  Inductive as long as one process
\* holds the lease.
KnowsOthers(p) ==
  \A c \in copies[p] : \A u \in c \cup record :
    u.leased /\ u.by # p => (u \in c <=> u \in record)

CopiesInv ==
  \A p \in Proc :
    /\ pc[p] \in Holding /\ ~raced => KnowsOthers(p)
    /\ pc[p] \in Acquiring \ {"journal"} => copies[p] = {}
    /\ pc[p] \in {"idle", "release", "unlinkOwn"} /\ tail[p] = "none" => copies[p] = {}
    /\ tail[p] # "none" => pc[p] \in {"idle", "release", "unlinkOwn"}
=============================================================================
