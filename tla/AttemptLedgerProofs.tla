------------------------- MODULE AttemptLedgerProofs -------------------------
(***************************************************************************)
(* The credit ledger for every budget, ceiling, set of reservations and    *)
(* number of crashes.  The invariant ties the reserved total to the        *)
(* attempts that are still reserved: without it nothing says that settling *)
(* an attempt leaves a natural number reserved.                            *)
(***************************************************************************)
EXTENDS AttemptLedger, FiniteSetTheorems, TLAPS

LEMMA ReservedIsFinite ==
  ASSUME TypeOK
  PROVE  IsFiniteSet(Reserved) /\ Cardinality(Reserved) \in Nat
  BY LedgerAssumption, FS_Subset, FS_CardinalityType DEF LedgerAssumption, Reserved, ReservedIn

\* reserveAttemptBudget adds one ceiling for one more reserved attempt.
LEMMA ReserveBooksOneCeiling ==
  ASSUME TypeOK, ReservedMatches, NEW a \in Attempt, ReserveAttemptBudget(a)
  PROVE  /\ ReservedMatches'
         /\ reserved' = reserved + Ceiling
         /\ consumed' = consumed
         /\ runState' = runState
         /\ a \in Reserved'
         /\ status' \in [Attempt -> Status]
         /\ consumed + reserved + Ceiling <= Budget
<1> USE DEF ReserveAttemptBudget, Status
<1>1. Reserved' = Reserved \cup {a} /\ a \notin Reserved
  BY DEF Reserved, ReservedIn, TypeOK
<1>2. Cardinality(Reserved') = Cardinality(Reserved) + 1
  BY <1>1, ReservedIsFinite, FS_AddElement
<1>3. ReservedMatches'
  BY <1>2, ReservedIsFinite, LedgerAssumption
     DEF ReservedMatches, TypeOK, LedgerAssumption
<1>4. consumed + reserved + Ceiling <= Budget
  BY LedgerAssumption DEF Affordable, TypeOK, LedgerAssumption
<1> QED
  BY <1>1, <1>3, <1>4 DEF TypeOK

\* Taking an attempt out of the reserved ones frees exactly its ceiling.
LEMMA ReleaseFreesOneCeiling ==
  ASSUME TypeOK, ReservedMatches, NEW a \in Attempt, status[a] = "reserved",
         NEW s \in {"settled", "abandoned"},
         status' = [status EXCEPT ![a] = s], reserved' = reserved - Ceiling
  PROVE  ReservedMatches' /\ reserved >= Ceiling /\ reserved' \in Nat
<1>1. Reserved' = Reserved \ {a} /\ a \in Reserved
  BY DEF Reserved, ReservedIn, TypeOK, Status
<1>2. Cardinality(Reserved') = Cardinality(Reserved) - 1
  BY <1>1, ReservedIsFinite, FS_RemoveElement
<1>3. Cardinality(Reserved) >= 1
  BY <1>1, ReservedIsFinite, FS_EmptySet
<1> DEFINE n == Cardinality(Reserved)
<1>4. n \in Nat /\ n >= 1 /\ Ceiling \in Nat
  BY <1>3, ReservedIsFinite, LedgerAssumption DEF LedgerAssumption
<1>5. Ceiling * (n - 1) = Ceiling * n - Ceiling /\ Ceiling * n >= Ceiling
  <2> HIDE DEF n
  <2> QED BY <1>4
<1> QED
  BY <1>2, <1>4, <1>5 DEF ReservedMatches, TypeOK

-----------------------------------------------------------------------------
LEMMA InitEstablishesInv == Init => Inv
<1> SUFFICES ASSUME Init PROVE Inv
  OBVIOUS
<1> USE LedgerAssumption DEF Init, LedgerAssumption, Status, NoRun
<1>1. TypeOK
  <2>1. status \in [Attempt -> Status]
    OBVIOUS
  <2>2. retry \in 0..(RetryLimit + 1) /\ crashes \in 0..MaxCrashes
    OBVIOUS
  <2> QED
    BY <2>1, <2>2 DEF TypeOK
<1>2. ReservedMatches
  <2>1. Reserved = {}
    BY DEF Reserved, ReservedIn
  <2> QED
    BY <2>1, FS_EmptySet DEF ReservedMatches
<1>3. NeverOverbooked /\ LedgerCoversSpending
  BY DEF NeverOverbooked, LedgerCoversSpending
<1>4. RunIsOlder
  <2>1. ReservedIn(run.status) = {} /\ ~run.held /\ run.reserved = 0
    BY DEF ReservedIn
  <2> QED
    BY <2>1, FS_EmptySet DEF RunIsOlder
<1> QED
  BY <1>1, <1>2, <1>3, <1>4 DEF Inv

\* What resume() has read stays older than a ledger that only books more, and
\* keeps the reservations of others.
LEMMA RunStaysOlder ==
  ASSUME TypeOK, RunIsOlder, run' = run, consumed' \in Nat, reserved' \in Nat,
         consumed' >= consumed, pc' # "none",
         run.held => run.reserved + (IF pc' = "call" THEN Ceiling ELSE 0) <= reserved'
  PROVE  RunIsOlder'
  BY LedgerAssumption DEF RunIsOlder, TypeOK, LedgerAssumption

\* Where no record is held, its reservations add up to nothing.
LEMMA NoRunIsOlder ==
  ASSUME run' = NoRun
  PROVE  RunIsOlder' /\ run' \in [held : BOOLEAN, status : [Attempt -> Status],
                                  consumed : Nat, reserved : Nat]
<1>1. ReservedIn(NoRun.status) = {} /\ ~NoRun.held /\ NoRun.reserved = 0
  BY DEF ReservedIn, NoRun
<1>2. RunIsOlder'
  BY <1>1, FS_EmptySet, LedgerAssumption DEF RunIsOlder, LedgerAssumption
<1> QED
  BY <1>2 DEF NoRun, Status

LEMMA StepKeepsInv == Inv /\ [Next]_vars => Inv'
<1> SUFFICES ASSUME Inv, [Next]_vars PROVE Inv'
  OBVIOUS
<1>a. TypeOK /\ ReservedMatches /\ RunIsOlder
  BY DEF Inv
<1> USE LedgerAssumption
        DEF Inv, TypeOK, NeverOverbooked, LedgerCoversSpending, LedgerAssumption
\* Steps that leave the ledger alone.
<1>1. CASE UNCHANGED <<status, consumed, reserved>> /\
           (CallRole \/ GiveUp \/ Return \/ StopForBudget \/ UNCHANGED vars)
  <2>1. ReservedMatches' /\ Reserved' = Reserved
    BY <1>1 DEF ReservedMatches, Reserved, ReservedIn
  <2>2. run' = run \/ run' = NoRun
    BY <1>1 DEF CallRole, GiveUp, Return, StopForBudget, vars, process
  <2>3. run' = NoRun \/ pc' = pc \/ pc' \in {"idle", "probe"}
    BY <1>1 DEF CallRole, GiveUp, Return, StopForBudget, vars, process
  <2>4. RunIsOlder'
    BY <1>1, <1>a, <2>2, <2>3, NoRunIsOlder DEF RunIsOlder
  <2>5. run' \in [held : BOOLEAN, status : [Attempt -> Status],
                  consumed : Nat, reserved : Nat]
    BY <2>2, NoRunIsOlder
  <2> HIDE DEF RunIsOlder
  <2> QED
    BY <1>1, <2>1, <2>4, <2>5 DEF CallRole, GiveUp, Return, StopForBudget,
                             vars, ledger, process, history
<1>2. CASE Resume
  <2>1. ReservedMatches' /\ Reserved' = Reserved
    BY <1>2 DEF Resume, ledger, ReservedMatches, Reserved, ReservedIn
  <2>2. RunIsOlder'
    BY <1>2, <1>a DEF Resume, ledger, RunIsOlder, ReservedMatches, Reserved
  <2> QED
    BY <1>2, <2>1, <2>2 DEF Resume, ledger, history
<1>3. CASE Spawn
  <2>1. PICK a \in Attempt : ReserveAttemptBudget(a) /\ current' = a
    BY <1>3 DEF Spawn
  <2>2. ReservedMatches' /\ a \in Reserved'
    BY <1>a, <2>1, ReserveBooksOneCeiling
  <2>3. reserved' = reserved + Ceiling /\ consumed' = consumed /\ runState' = runState
        /\ consumed + reserved + Ceiling <= Budget
        /\ status' \in [Attempt -> Status]
    BY <1>a, <2>1, ReserveBooksOneCeiling
  <2>4. RunIsOlder'
    BY <1>3, <1>a, <2>3, RunStaysOlder DEF Spawn, RunIsOlder
  <2> QED
    BY <1>3, <2>1, <2>2, <2>3, <2>4 DEF Spawn, history
<1>4. CASE InvocationFails
  <2>1. PICK used \in 0..MaxUse : Uses(used)
    BY <1>4 DEF InvocationFails
  <2>2. current \in Attempt /\ current \in Reserved
    BY <1>4 DEF InvocationFails, Reserved, ReservedIn
  <2>3. ReservedMatches' /\ reserved >= Ceiling /\ reserved' \in Nat
    BY <1>4, <1>a, <2>2, ReleaseFreesOneCeiling
       DEF InvocationFails, AbandonAttemptBudget
  <2>4. RunIsOlder'
    BY <1>4, <1>a, <2>3, RunStaysOlder
       DEF InvocationFails, AbandonAttemptBudget, RunIsOlder
  <2>5. status' \in [Attempt -> Status]
    BY <1>4 DEF InvocationFails, AbandonAttemptBudget, Status
  <2> QED
    BY <1>4, <2>1, <2>3, <2>4, <2>5 DEF InvocationFails, AbandonAttemptBudget, Uses
<1>5. CASE InvocationReports
  <2>1. PICK used \in 0..MaxUse :
          Uses(used) /\ SettleAttemptBudget(current, used) /\ local' = local + used
    BY <1>5 DEF InvocationReports
  <2>2. current \in Attempt /\ current \in Reserved
    BY <1>5 DEF InvocationReports, Reserved, ReservedIn
  <2>3. ReservedMatches' /\ reserved >= Ceiling /\ reserved' \in Nat
    BY <1>a, <2>1, <2>2, ReleaseFreesOneCeiling DEF SettleAttemptBudget
  <2>4. RunIsOlder'
    BY <1>5, <1>a, <2>1, <2>3, RunStaysOlder
       DEF InvocationReports, SettleAttemptBudget, RunIsOlder
  <2>5. status' \in [Attempt -> Status]
    BY <2>1 DEF SettleAttemptBudget, Status
  <2> QED
    BY <1>5, <2>1, <2>3, <2>4, <2>5 DEF InvocationReports, SettleAttemptBudget, Uses
<1>6. CASE Crash
  <2>1. ReservedMatches' /\ Reserved' = Reserved
    BY <1>6 DEF Crash, ReservedMatches, Reserved, ReservedIn, ledger
  <2>2. PICK used \in 0..MaxUse : Uses(used) /\ (pc # "call" => used = 0)
    BY <1>6 DEF Crash
  <2>3. RunIsOlder' /\ run' \in [held : BOOLEAN, status : [Attempt -> Status],
                                 consumed : Nat, reserved : Nat]
    BY <1>6, NoRunIsOlder DEF Crash
  <2> QED
    BY <1>6, <2>1, <2>2, <2>3 DEF Crash, Uses, ledger
<1>7. CASE RecoverInterruptedRun
  <2>1. PICK a \in Attempt : AbandonAttemptBudget(a)
    BY <1>7 DEF RecoverInterruptedRun
  <2>2. ReservedMatches' /\ reserved >= Ceiling /\ reserved' \in Nat
    BY <1>a, <2>1, ReleaseFreesOneCeiling DEF AbandonAttemptBudget
  <2>3. status' \in [Attempt -> Status]
    BY <2>1 DEF AbandonAttemptBudget, Status
  <2>4. RunIsOlder'
    BY <1>7, <1>a DEF RecoverInterruptedRun, RunIsOlder, process
  <2> QED
    BY <1>7, <2>1, <2>2, <2>3, <2>4
       DEF RecoverInterruptedRun, AbandonAttemptBudget, process, history
<1>8. CASE SaveGateEvidence
  <2>1. status' \in [Attempt -> Status]
    BY <1>8 DEF SaveGateEvidence, Status
  <2>2. ReservedIn(status)' = ReservedIn(run.status)
    BY <1>8 DEF SaveGateEvidence, ReservedIn
  <2>3. ReservedMatches'
    BY <1>8, <1>a, <2>2 DEF SaveGateEvidence, ReservedMatches, Reserved, RunIsOlder
  <2>4. RunIsOlder' /\ run' \in [held : BOOLEAN, status : [Attempt -> Status],
                                 consumed : Nat, reserved : Nat]
    BY <1>8, NoRunIsOlder DEF SaveGateEvidence
  <2>5. run.consumed <= consumed /\ run.reserved <= reserved
    BY <1>8, <1>a DEF SaveGateEvidence, RunIsOlder
  <2> QED
    BY <1>8, <2>1, <2>3, <2>4, <2>5 DEF SaveGateEvidence
<1> QED
  BY <1>1, <1>2, <1>3, <1>4, <1>5, <1>6, <1>7, <1>8
     DEF Next, vars, ledger, CallRole, GiveUp, Return, StopForBudget

\* The reserved total always matches the attempts that are still reserved,
\* and no step overbooks the ledger.
THEOREM LedgerInvariant == Spec => []Inv
  BY InitEstablishesInv, StepKeepsInv, PTL DEF Spec

\* No invocation is in flight on credits the budget does not hold.
THEOREM LedgerIsNeverOverbooked == Spec => []NeverOverbooked
<1>1. Inv => NeverOverbooked
  BY DEF Inv
<1> QED
  BY <1>1, LedgerInvariant, PTL

\* While no invocation uses more than its ceiling, what all invocations
\* really used, those a crash interrupted included, stays within the budget.
THEOREM BudgetIsHonoured == Spec => []BudgetHonoured
<1>1. Inv => BudgetHonoured
  BY LedgerAssumption
     DEF Inv, TypeOK, NeverOverbooked, LedgerCoversSpending, BudgetHonoured,
         LedgerAssumption
<1> QED
  BY <1>1, LedgerInvariant, PTL
=============================================================================
