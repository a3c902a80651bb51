--------------------------- MODULE WorkflowEvidence ---------------------------
(* Skill declarations of an agent, their reconciliation with the transcripts *)
(* of its sessions, the sanitized copy of a transcript and the waivers of    *)
(* single diagnostics (packages/analysis/src/workflow.ts,                    *)
(* workflow-waiver.ts). Commands run one at a time, as the Skills require;   *)
(* sessions go on meanwhile, and between the two reads of sanitization.      *)
(* A declaration's phase and skill are one name here.                        *)
EXTENDS Integers, Sequences, FiniteSets, SequencesExt

CONSTANTS Sessions, Skills,
          Tool,         \* a call that invokes no Skill
          Statuses,     \* of declarations, "completed" among them
          StrictConfig, \* workflow.mode of the configuration is strict
          MaxTime, MaxWaivers, \* bounds
          MaxRecords    \* bound: transcript lines, declarations and waivers together

ASSUME WorkflowAssumption ==
  /\ Tool \notin Skills /\ "completed" \in Statuses /\ StrictConfig \in BOOLEAN
  /\ {MaxTime, MaxWaivers, MaxRecords} \subseteq Nat

VARIABLES clock,
          transcript,   \* of each session, as its file has it
          events, verification, \* workflow.json
          waivers,      \* workflow-waivers.json
          sanitizing,   \* a copy of a transcript being made
          shown         \* history: what the approver of each waiver was shown

workflowVars == <<clock, transcript, events, verification, waivers, sanitizing, shown>>

Unverified == [mode |-> "none"]
Nothing == [step |-> "none"]

(* A line is named by the place its transcript is read at and its number    *)
(* there: several transcripts are read as one, in that order.                *)
Before(k, l) == k[1] < l[1] \/ (k[1] = l[1] /\ k[2] < l[2])

Lines(t, place) == [k \in {place} \X DOMAIN t |-> t[k[2]]]

Concatenated(paths) ==
  [k \in UNION {DOMAIN Lines(transcript[paths[i]], i) : i \in DOMAIN paths} |-> transcript[paths[k[1]]][k[2]]]

(* A call is named by its session and the line that started it.              *)
Calls(t) == {k \in DOMAIN t : t[k].type = "start"}
Completions(t, call) == {k \in DOMAIN t : t[k].type = "complete" /\ t[k].call = call}
Ends(t) == {k \in DOMAIN t : t[k].type = "end"}
Ids(t) == {t[k].call : k \in Calls(t)}

(* A whole transcript: every call started once and completed once, later,    *)
(* and the one end of the session, a routine one, is the last line.          *)
StrictlyValid(t) ==
  /\ \E k \in Ends(t) : t[k].routine /\ \A l \in DOMAIN t \ {k} : Before(l, k) /\ l \notin Ends(t)
  /\ \A k, l \in Calls(t) : t[k].call = t[l].call => k = l
  /\ \A k \in Calls(t) : \E l \in DOMAIN t : Completions(t, t[k].call) = {l}
  /\ \A l \in DOMAIN t : t[l].type = "complete" =>
       \E k \in Calls(t) : t[k].call = t[l].call /\ Before(k, l)

(* The Skill calls, by the line each was started at, and how each ended.     *)
outcomeOf(t, call) ==
  LET done == Completions(t, call)
      last == t[CHOOSE k \in done : \A l \in done : l = k \/ Before(l, k)]
  IN IF done = {} THEN [status |-> "incomplete", completedAt |-> -1]
     ELSE [status |-> IF last.ok THEN "completed" ELSE "failed", completedAt |-> last.at]

invocations(t) ==
  [k \in {l \in Calls(t) : t[l].skill \in Skills} |->
     [call |-> t[k].call, skill |-> t[k].skill, invokedAt |-> t[k].at, outcome |-> outcomeOf(t, t[k].call)]]
-----------------------------------------------------------------------------
(* Declarations are bound in their order, each to the first completed call   *)
(* after those bound before.                                                 *)
NoCall == <<>>
Declared(n) == events[n].status = "completed"

Eligible(n) == {i \in DOMAIN verification.invocations :
  LET call == verification.invocations[i]
  IN call.skill = events[n].skill /\ call.invokedAt <= events[n].at}

(* Mutant: the call need not be complete when it is declared.                *)
CompleteAtMutant(i, n) == verification.invocations[i].outcome.status = "completed"

CompleteAt(i, n) ==
  LET outcome == verification.invocations[i].outcome
  IN outcome.status = "completed" /\ outcome.completedAt <= events[n].at

(* Mutant: the latest call is taken.                                         *)
ChooseMatchMutant(S) == CHOOSE i \in S : \A j \in S : j = i \/ Before(j, i)

ChooseMatch(S) == CHOOSE i \in S : \A j \in S : j = i \/ Before(i, j)

bound[n \in DOMAIN events] ==
  LET used == {bound[m] : m \in 1..(n - 1)} \ {NoCall}
      fit == {i \in Eligible(n) : CompleteAt(i, n) /\ \A u \in used : Before(u, i)}
  IN IF Declared(n) /\ fit # {} THEN ChooseMatch(fit) ELSE NoCall

(* Why a declaration is not bound; the first reason that applies.            *)
codeOf(n) ==
  LET status(i) == verification.invocations[i].outcome.status
      used == {bound[m] : m \in 1..(n - 1)} \ {NoCall}
  IN CASE \E i \in Eligible(n) : status(i) = "incomplete" -> "WORKFLOW_INVOCATION_INCOMPLETE"
       [] (\A i \in Eligible(n) : status(i) # "incomplete")
          /\ (\E i \in Eligible(n) : status(i) = "failed") -> "WORKFLOW_INVOCATION_FAILED"
       [] (\A i \in Eligible(n) : status(i) = "completed") /\ Eligible(n) \intersect used # {} ->
            "WORKFLOW_INVOCATION_REUSED"
       [] (\A i \in Eligible(n) : status(i) = "completed") /\ Eligible(n) \intersect used = {}
          /\ (\E i \in Eligible(n) : \E u \in used : ~Before(u, i)) -> "WORKFLOW_INVOCATION_ORDER"
       [] OTHER -> "WORKFLOW_SKILL_NOT_INVOKED"

Colliding(skill, at) == {n \in DOMAIN events : Declared(n) /\ events[n].skill = skill /\ events[n].at = at}

(* Declarations of one name in one millisecond are told apart by position.   *)
declarationScope(n) ==
  [skill |-> events[n].skill, at |-> events[n].at,
   index |-> IF Cardinality(Colliding(events[n].skill, events[n].at)) >= 2 THEN n ELSE 0]

Verified == verification.mode # "none"
Unbound == {n \in DOMAIN events : Verified /\ Declared(n) /\ bound[n] = NoCall}
Reported == {<<declarationScope(n), codeOf(n)>> : n \in Unbound}
-----------------------------------------------------------------------------
(* The declaration of a scope, 0 if there is none or more than one.          *)
resolveEvent(scope) ==
  LET matches == Colliding(scope.skill, scope.at) IN
  CASE scope.index = 0 /\ Cardinality(matches) = 1 -> CHOOSE n \in matches : TRUE
    [] scope.index \in matches /\ Cardinality(matches) >= 2 -> scope.index
    [] OTHER -> 0

currentCodeFor(scope) == {r[2] : r \in {q \in Reported : q[1] = scope}}

(* Mutant: the evidence head is left out.                                    *)
snapshotPayloadMutant(scope) == <<events[resolveEvent(scope)], scope, <<>>, currentCodeFor(scope)>>

(* A waiver binds its declaration, all the evidence of the verification and  *)
(* the code reported; it is stale once one of them has changed.              *)
snapshotPayload(scope) == <<events[resolveEvent(scope)], scope, verification, currentCodeFor(scope)>>

waiverLinkage(i) == resolveEvent(waivers[i].scope) # 0
WaivedScopes == {waivers[i].scope : i \in DOMAIN waivers}
Linked(scope) == {i \in DOMAIN waivers : waivers[i].scope = scope /\ waiverLinkage(i)}
authoritativeIndex(scope) == CHOOSE i \in Linked(scope) : \A j \in Linked(scope) : j <= i
nonStale(i) == waivers[i].snapshot = snapshotPayload(waivers[i].scope)
Active(scope) == Linked(scope) # {} /\ nonStale(authoritativeIndex(scope))
-----------------------------------------------------------------------------
WorkflowInit ==
  /\ clock = 0 /\ transcript = [s \in Sessions |-> <<>>]
  /\ events = <<>> /\ verification = Unverified /\ waivers = <<>>
  /\ sanitizing = Nothing /\ shown = <<>>

(* Times are only compared with those of declarations: the clock need not    *)
(* advance twice between two of them.                                        *)
Tick ==
  /\ clock < MaxTime /\ events # <<>> /\ Last(events).at = clock
  /\ clock' = clock + 1
  /\ UNCHANGED <<transcript, events, verification, waivers, sanitizing, shown>>

(* Bound. A session that has begun has a first line that names it.           *)
Room(n) ==
  MapThenSumSet(LAMBDA s : IF transcript[s] = <<>> THEN 0 ELSE 1 + Len(transcript[s]), Sessions)
    + Len(events) + Len(waivers) + n <= MaxRecords

(* A session starts, completes and leaves calls, ends, and may be resumed.   *)
Logs(s, line) ==
  /\ transcript' = [transcript EXCEPT ![s] = Append(@, line)]
  /\ UNCHANGED <<clock, events, verification, waivers, sanitizing, shown>>

StartCall(s, skill) ==
  Logs(s, [type |-> "start", call |-> <<s, Len(transcript[s]) + 1>>, skill |-> skill, at |-> clock])

CompleteCall(s, call, ok) ==
  /\ call \in Ids(transcript[s]) /\ Completions(transcript[s], call) = {}
  /\ Logs(s, [type |-> "complete", call |-> call, ok |-> ok, at |-> clock])

EndSession(s, routine) ==
  /\ transcript[s] # <<>> /\ Last(transcript[s]).type # "end"
  /\ Logs(s, [type |-> "end", routine |-> routine, at |-> clock])

SessionGoesOn(s) ==
  \/ \E skill \in Skills \union {Tool} : StartCall(s, skill)
  \/ \E call \in Ids(transcript[s]), ok \in BOOLEAN : CompleteCall(s, call, ok)
  \/ \E routine \in BOOLEAN : EndSession(s, routine)

Free == sanitizing = Nothing

(* A declaration voids the verification.                                     *)
recordWorkflow(skill, status) ==
  /\ Free
  /\ events' = Append(events, [skill |-> skill, status |-> status, at |-> clock])
  /\ verification' = Unverified
  /\ UNCHANGED <<clock, transcript, waivers, sanitizing, shown>>

Evidence(t, mode) == [mode |-> mode, source |-> t, eventsSha |-> events, invocations |-> invocations(t)]

Verifies(t, mode) ==
  /\ Free /\ events # <<>>
  /\ mode = "strict" => StrictlyValid(t)
  /\ DOMAIN invocations(t) # {}
  /\ verification' = Evidence(t, mode)

Modes == IF StrictConfig THEN {"strict"} ELSE {"compatible", "strict"}

(* However they were named, transcripts are read as their sessions began, in *)
(* the order they were named in if they began together.                      *)
Earliest(s) == IF transcript[s] = <<>> THEN MaxTime + 1 ELSE transcript[s][1].at

verifyWorkflowLogFile(paths, mode) ==
  /\ mode = "strict" => Len(paths) = 1
  /\ \A i, j \in DOMAIN paths : i < j => Earliest(paths[i]) <= Earliest(paths[j])
  /\ Verifies(Concatenated(paths), mode)
  /\ UNCHANGED <<clock, transcript, events, waivers, sanitizing, shown>>

(* The source is verified, and recorded as such, then read a second time; a  *)
(* copy is written only if it is still the same.                             *)
sanitizeWorkflowLogFile(s) ==
  /\ Verifies(Lines(transcript[s], 1), "strict")
  /\ sanitizing' = [step |-> "verified", session |-> s]
  /\ UNCHANGED <<clock, transcript, events, waivers, shown>>

(* The Skill calls, their completions and the end of the session are kept.   *)
Kept(t, line) ==
  \/ line.type = "start" /\ line.skill \in Skills
  \/ line.type = "complete" /\ \E k \in Calls(t) : t[k].call = line.call /\ t[k].skill \in Skills
  \/ line.type = "end"

Sanitized(t) == [k \in {l \in DOMAIN t : Kept(t, t[l])} |-> t[k]]

(* Mutant: whatever is read the second time is written.                      *)
SecondReadMutant ==
  /\ sanitizing.step = "verified"
  /\ sanitizing' = [step |-> "written", session |-> sanitizing.session,
                    copy |-> Sanitized(Lines(transcript[sanitizing.session], 1))]
  /\ UNCHANGED <<clock, transcript, events, verification, waivers, shown>>

SecondRead ==
  /\ sanitizing.step = "verified"
  /\ LET t == Lines(transcript[sanitizing.session], 1) IN
     sanitizing' = IF t = verification.source
                   THEN [step |-> "written", session |-> sanitizing.session, copy |-> Sanitized(t)]
                   ELSE Nothing
  /\ UNCHANGED <<clock, transcript, events, verification, waivers, shown>>

SanitizationEnds ==
  /\ sanitizing.step = "written" /\ sanitizing' = Nothing
  /\ UNCHANGED <<clock, transcript, events, verification, waivers, shown>>

(* Waivers of diagnostics that are reported and have none in force, in the   *)
(* order of their names, any order here; every earlier waiver must still be  *)
(* linked.                                                                   *)
Waive(reports) ==
  LET count == Cardinality(reports) IN
  /\ \A i \in DOMAIN waivers : waiverLinkage(i)
  /\ reports # {} /\ Room(count) /\ Len(waivers) + count <= MaxWaivers
  /\ \E ordered \in Bijection(1..count, reports) :
       /\ waivers' = waivers \o [i \in 1..count |->
            [scope |-> ordered[i][1], code |-> ordered[i][2], snapshot |-> snapshotPayload(ordered[i][1])]]
       /\ shown' = shown \o [i \in 1..count |->
            [declaration |-> resolveEvent(ordered[i][1]), source |-> verification.source]]
  /\ UNCHANGED <<clock, transcript, events, verification, sanitizing>>

recordWorkflowWaiver(report) == Free /\ ~Active(report[1]) /\ Waive({report})
recordAllWorkflowWaivers == Free /\ Waive({r \in Reported : ~Active(r[1])})

(* Steps that add a record.                                                  *)
RecordStep ==
  \/ \E s \in Sessions : SessionGoesOn(s)
  \/ \E skill \in Skills, status \in Statuses : recordWorkflow(skill, status)
  \/ \E report \in Reported : recordWorkflowWaiver(report)
  \/ recordAllWorkflowWaivers

WorkflowNext ==
  \/ Room(1) /\ RecordStep
  \/ Tick
  \/ \E paths \in UNION {Injection(1..n, Sessions) : n \in 1..Cardinality(Sessions)}, mode \in Modes :
       verifyWorkflowLogFile(paths, mode)
  \/ \E s \in Sessions : sanitizeWorkflowLogFile(s)
  \/ SecondRead \/ SanitizationEnds

WorkflowSpec == WorkflowInit /\ [][WorkflowNext]_workflowVars
-----------------------------------------------------------------------------
Waived == {n \in DOMAIN events : Active(declarationScope(n))}

(* The gate's view: verified as configured, for these declarations, with no  *)
(* diagnostic but waived ones; a loose or stale waiver is only reported.     *)
Accepts ==
  /\ events # <<>> /\ Verified
  /\ StrictConfig => verification.mode = "strict"
  /\ verification.eventsSha = events
  /\ Unbound \subseteq Waived

(* What happened in the sessions, not what was read of them.                 *)
Happened == UNION {{<<s, i>> : i \in {j \in Calls(transcript[s]) : transcript[s][j].skill \in Skills}} : s \in Sessions}

DoneBefore(call, n) ==
  LET t == transcript[call[1]] IN
  /\ t[call[2]].skill = events[n].skill
  /\ \E i \in Completions(t, t[call[2]].call) : t[i].ok /\ t[i].at <= events[n].at

(* Each declaration that passes without a waiver has a Skill call of its own *)
(* that really succeeded before it was declared, and within a session the    *)
(* calls were made in the order they are declared in.                        *)
AcceptedDeclarationsHappened ==
  Accepts =>
    LET unwaived == {n \in DOMAIN events : Declared(n)} \ Waived IN
    \E call \in [unwaived -> Happened] :
      \A n \in unwaived :
        /\ DoneBefore(call[n], n)
        /\ \A m \in unwaived : m < n =>
             call[m] # call[n] /\ (call[m][1] = call[n][1] => call[m][2] < call[n][2])

(* Binding one declaration after the other finds a binding of all of them    *)
(* whenever there is one that keeps the order.                               *)
BindingIsComplete ==
  (Verified /\ \E call \in [{n \in DOMAIN events : Declared(n)} -> DOMAIN verification.invocations] :
     \A n \in DOMAIN call :
       /\ call[n] \in Eligible(n) /\ CompleteAt(call[n], n)
       /\ \A m \in DOMAIN call : m < n => Before(call[m], call[n]))
  => Reported = {}

(* The sanitized copy of a transcript passes strict verification itself and  *)
(* shows the calls of a transcript that did, though sessions are resumed     *)
(* while it is written.                                                      *)
SanitizedIsFaithful ==
  sanitizing.step = "written" =>
    /\ StrictlyValid(sanitizing.copy)
    /\ \E n \in DOMAIN transcript[sanitizing.session] :
         LET source == Lines(SubSeq(transcript[sanitizing.session], 1, n), 1)
         IN StrictlyValid(source) /\ invocations(sanitizing.copy) = invocations(source)

(* A waiver in force covers the declaration its approver was shown, with the *)
(* transcript they were shown, and that declaration is still unbound. Only a *)
(* declaration of the same millisecond makes a waiver come loose, and one    *)
(* given by position never does.                                             *)
WaiversCoverWhatWasShown ==
  /\ \A scope \in WaivedScopes : Active(scope) =>
       LET i == authoritativeIndex(scope) IN
       /\ resolveEvent(scope) = shown[i].declaration /\ shown[i].declaration \in Unbound
       /\ verification.source = shown[i].source
  /\ \A i \in DOMAIN waivers :
       LET scope == waivers[i].scope IN
       waiverLinkage(i) \/ (scope.index = 0 /\ Cardinality(Colliding(scope.skill, scope.at)) > 1)
=============================================================================
