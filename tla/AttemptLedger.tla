--------------------------- MODULE AttemptLedger ----------------------------
(***************************************************************************)
(* The AI-credit ledger of a run and the role invocations that draw on it, *)
(* packages/analysis/src/hoh.ts: reserveAttemptBudget, settleAttemptBudget *)
(* and abandonAttemptBudget of FileRunStore, the retry loop of             *)
(* invokeCopilotRole, and recoverInterruptedRun.                           *)
(*                                                                         *)
(* Every ledger operation reads the run record, changes it and renames the *)
(* new one into place: one atomic step on disk.  The orchestrator runs one *)
(* invocation at a time under the writer lease and may die at any point.   *)
(* An invocation reserves a fixed ceiling first; when it ends, the actual  *)
(* usage it reported replaces the reservation (settle), and when it fails  *)
(* without a usable report the whole ceiling is charged (abandon).  Usage  *)
(* is counted in nano-AIU, integers; the decimal mirrors are left out.     *)
(*                                                                         *)
(* resume() keeps the record it read when it began.  Where QA finds the    *)
(* candidate ready it saves that record, with the gate evidence added,     *)
(* over what the role calls have booked since: their charges are lost.     *)
(***************************************************************************)
EXTENDS Naturals, FiniteSets, FiniteSetsExt

CONSTANTS Attempt,       \* identities of reservations (randomUUID)
          Budget,        \* config.budget.aiCredits
          Ceiling,       \* config.roleInvocationReservedCredits
          MaxUse,        \* the most one invocation can really use
          RetryLimit,    \* config.limits.roleOutputRetryLimit
          MaxCrashes,
          RecoveryRuns   \* whether somebody calls recoverInterruptedRun

ASSUME LedgerAssumption ==
  /\ IsFiniteSet(Attempt)
  /\ Budget \in Nat /\ Ceiling \in Nat \ {0} /\ MaxUse \in Nat
  /\ RetryLimit \in Nat /\ MaxCrashes \in Nat
  /\ RecoveryRuns \in BOOLEAN

VARIABLES status,      \* run.attempts: what became of each reservation
          consumed,    \* run.usageNanoAiu.consumed
          reserved,    \* run.usageNanoAiu.reserved
          runState,    \* "open", or ended: "failed" or "stopped"
          pc,          \* the live process: "none", "idle", "probe", "call"
          current,     \* its reservationId
          retry,       \* the loop variable of invokeCopilotRole
          local,       \* consumedNanoAiu of invokeCopilotRole
          run,         \* the record as resume() read it, until it is saved
          spent,       \* what all invocations really used (history)
          lost,        \* the charges that saving "run" took back (history)
          excess,      \* the most one of them exceeded its ceiling by (history)
          crashes

ledger == <<status, consumed, reserved, runState>>
process == <<pc, current, retry, local, run>>
history == <<spent, lost, excess>>
vars == <<ledger, process, history, crashes>>

NoAttempt == "no attempt"

\* "forgotten": struck out of the record by saving an older one; its
\* identity is not given again.
Status == {"unused", "reserved", "settled", "abandoned", "forgotten"}

\* resume() has not begun, or has saved the record it read.
NoRun == [held |-> FALSE, status |-> [a \in Attempt |-> "unused"],
          consumed |-> 0, reserved |-> 0]

TypeOK ==
  /\ status \in [Attempt -> Status]
  /\ consumed \in Nat /\ reserved \in Nat
  /\ runState \in {"open", "failed", "stopped"}
  /\ pc \in {"none", "idle", "probe", "call"}
  /\ current \in Attempt \cup {NoAttempt}
  /\ retry \in 0..(RetryLimit + 1)
  /\ run \in [held : BOOLEAN, status : [Attempt -> Status], consumed : Nat, reserved : Nat]
  /\ local \in Nat /\ spent \in Nat /\ lost \in Nat /\ excess \in Nat
  /\ crashes \in 0..MaxCrashes

Init ==
  /\ status = [a \in Attempt |-> "unused"]
  /\ consumed = 0 /\ reserved = 0
  /\ runState = "open"
  /\ pc = "none" /\ current = NoAttempt
  /\ retry = 0 /\ local = 0 /\ run = NoRun
  /\ spent = 0 /\ lost = 0 /\ excess = 0 /\ crashes = 0

ReservedIn(s) == {a \in Attempt : s[a] = "reserved"}
Reserved == ReservedIn(status)

-----------------------------------------------------------------------------
(* The three operations of FileRunStore *)

\* Mutant: what other attempts have reserved is not subtracted.
AffordableMutant == Ceiling > 0 /\ Ceiling <= Budget - consumed

Affordable == Ceiling > 0 /\ Ceiling <= Budget - consumed - reserved

ReserveAttemptBudget(a) ==
  /\ status[a] = "unused"
  /\ Affordable
  /\ status' = [status EXCEPT ![a] = "reserved"]
  /\ reserved' = reserved + Ceiling
  /\ UNCHANGED <<consumed, runState>>

SettleAttemptBudget(a, actual) ==
  /\ status[a] = "reserved"
  /\ status' = [status EXCEPT ![a] = "settled"]
  /\ reserved' = reserved - Ceiling
  /\ consumed' = consumed + actual
  /\ runState' = IF consumed + actual > Budget THEN "failed" ELSE runState

\* Mutant: an abandoned attempt costs nothing.
AbandonFreesMutant(a) ==
  /\ status[a] = "reserved"
  /\ status' = [status EXCEPT ![a] = "abandoned"]
  /\ reserved' = reserved - Ceiling
  /\ UNCHANGED <<consumed, runState>>

AbandonAttemptBudget(a) ==
  /\ status[a] = "reserved"
  /\ status' = [status EXCEPT ![a] = "abandoned"]
  /\ reserved' = reserved - Ceiling
  /\ consumed' = consumed + Ceiling
  /\ UNCHANGED runState

-----------------------------------------------------------------------------
(* invokeCopilotRole, called by a live orchestrator *)

\* determineStopReason: resume() stops a run whose budget is used up.
StopsForBudget == consumed + reserved >= Budget

StopForBudget ==
  /\ pc = "none" /\ runState = "open" /\ StopsForBudget
  /\ runState' = "stopped"
  /\ UNCHANGED <<status, consumed, reserved, process, history, crashes>>

Resume ==
  /\ pc = "none" /\ runState = "open" /\ ~StopsForBudget
  /\ pc' = "idle"
  /\ run' = [held |-> TRUE, status |-> status,
             consumed |-> consumed, reserved |-> reserved]
  /\ UNCHANGED <<ledger, current, retry, local, history, crashes>>

CallRole ==
  /\ pc = "idle"
  /\ pc' = "probe" /\ retry' = 0 /\ local' = 0
  /\ UNCHANGED <<ledger, current, run, history, crashes>>

\* The version probe failed, the budget cannot fund another invocation, or
\* the retries are exhausted: the call throws.  resume() calls the Developer
\* or the QA role again, or ends with "unrecoverable-failure".
GiveUp ==
  /\ pc = "probe"
  /\ \/ pc' = "idle" /\ UNCHANGED <<runState, run>>
     \/ pc' = "none" /\ runState' = "failed" /\ run' = NoRun
  /\ UNCHANGED <<status, consumed, reserved, current, retry, local, history, crashes>>

CanFund == Budget >= local + Ceiling

Spawn ==
  /\ pc = "probe" /\ retry <= RetryLimit /\ CanFund
  /\ \E a \in Attempt : ReserveAttemptBudget(a) /\ current' = a
  /\ pc' = "call"
  /\ UNCHANGED <<retry, local, run, history, crashes>>

\* An invocation really used this much, whatever the ledger learns of it.
Uses(used) ==
  /\ spent' = spent + used
  /\ excess' = IF used > Ceiling + excess THEN used - Ceiling ELSE excess
  /\ UNCHANGED lost

\* Timeout, non-zero exit, truncated output, or an answer that cannot be
\* parsed, even one that did report its usage: the catch block charges the
\* ceiling and the loop goes on.
InvocationFails ==
  /\ pc = "call"
  /\ \E used \in 0..MaxUse : Uses(used)
  /\ AbandonAttemptBudget(current)
  /\ retry' = retry + 1
  /\ pc' = "probe" /\ current' = NoAttempt
  /\ UNCHANGED <<local, run, crashes>>

\* The reported usage is settled; an exceeded budget or an invalid answer
\* goes round the loop, a valid answer is returned.
InvocationReports ==
  /\ pc = "call"
  /\ \E used \in 0..MaxUse :
       /\ Uses(used)
       /\ SettleAttemptBudget(current, used)
       /\ local' = local + used
  /\ \/ retry' = retry + 1 /\ pc' = "probe"
     \/ local' <= Budget /\ retry' = retry /\ pc' = "idle"
  /\ current' = NoAttempt
  /\ UNCHANGED <<run, crashes>>

\* The candidate is ready: resume() saves the record it read before it called
\* QA, and calls the Reviewer on the credits that this leaves.
SaveGateEvidence ==
  /\ pc = "idle" /\ run.held
  /\ status' = [a \in Attempt |->
                 IF status[a] # "unused" /\ run.status[a] = "unused"
                 THEN "forgotten" ELSE run.status[a]]
  /\ consumed' = run.consumed /\ reserved' = run.reserved
  /\ runState' = "open"
  /\ lost' = lost + (consumed + reserved - run.consumed - run.reserved)
  /\ run' = NoRun
  /\ UNCHANGED <<pc, current, retry, local, spent, excess, crashes>>

\* The roles have answered: resume() saves the next state of the run over
\* whatever state the record has.
Return ==
  /\ pc = "idle"
  /\ pc' = "none"
  /\ runState' = "open"
  /\ run' = NoRun
  /\ UNCHANGED <<status, consumed, reserved, current, retry, local, history, crashes>>

\* The process dies; an invocation in flight has used something.
Crash ==
  /\ pc # "none" /\ crashes < MaxCrashes
  /\ crashes' = crashes + 1
  /\ \E used \in IF pc = "call" THEN 0..MaxUse ELSE {0} : Uses(used)
  /\ pc' = "none" /\ current' = NoAttempt /\ run' = NoRun
  /\ UNCHANGED <<ledger, retry, local>>

\* recoverInterruptedRun abandons what dead invocations left reserved.
RecoverInterruptedRun ==
  /\ RecoveryRuns /\ pc = "none"
  /\ \E a \in Attempt : AbandonAttemptBudget(a)
  /\ UNCHANGED <<process, history, crashes>>

Next ==
  \/ StopForBudget \/ Resume \/ CallRole \/ GiveUp \/ Spawn
  \/ InvocationFails \/ InvocationReports \/ SaveGateEvidence \/ Return
  \/ Crash \/ RecoverInterruptedRun

Spec == Init /\ [][Next]_vars

-----------------------------------------------------------------------------
(* Properties *)

\* The reserved total is the ceiling of every attempt still reserved, also of
\* those a crash left behind.
ReservedMatches == reserved = Ceiling * Cardinality(Reserved)

\* The ledger books at most the budget and the largest overrun so far; no
\* invocation is in flight on credits the budget does not hold (REQ-004: "no
\* invocation starts when its reservation would exceed the budget").
NeverOverbooked ==
  /\ consumed + reserved <= Budget + excess
  /\ pc = "call" => consumed + reserved <= Budget

\* Everything invocations really used, in flight, abandoned and interrupted
\* ones included, is covered by the ledger and by what saving older records
\* has taken out of it, until one exceeds its ceiling.
LedgerCoversSpending == excess = 0 => spent <= consumed + reserved + lost

\* REQ-004: what was really used exceeds the budget by no more than single
\* invocations exceeded their ceiling, nor by more than was taken back when
\* gate evidence was saved; nothing else, no crash, retry, recovery or
\* unusable answer, lets spending past it.  (That charges are taken back is a
\* divergence the README describes.)
BudgetHonoured == excess = 0 => spent <= Budget + lost

\* The record a live resume() has read booked no more than the one on disk,
\* and its own reservations add up.
RunIsOlder ==
  /\ run.reserved = Ceiling * Cardinality(ReservedIn(run.status))
  /\ run.held => pc # "none" /\ run.consumed <= consumed
  /\ run.held => run.reserved + (IF pc = "call" THEN Ceiling ELSE 0) <= reserved

\* What ties the ledger to the process: the invocation in flight owns one of
\* the reserved attempts, whose ceiling is not yet spent.  Inductive.
Inv ==
  /\ TypeOK
  /\ ReservedMatches
  /\ NeverOverbooked
  /\ LedgerCoversSpending
  /\ RunIsOlder
  /\ IF pc = "call" THEN current \in Reserved ELSE current = NoAttempt
  /\ pc = "call" => retry <= RetryLimit
  /\ pc = "call" /\ excess = 0 => spent + Ceiling <= consumed + reserved + lost
=============================================================================
