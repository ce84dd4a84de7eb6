---------------------------- MODULE DispatchSeam ----------------------------
(***************************************************************************)
(* The path of an external effect: MissionScheduler selects work,          *)
(* ConnectorDispatchSeam takes it across the connector boundary, and       *)
(* MissionEngine records what became of it, for one Mission whose accepted *)
(* plan is fixed.  A dispatcher is one chain of awaits through that code:  *)
(* the resident scheduler, or any other caller of dispatchThroughSeam.     *)
(*                                                                         *)
(* Granularity.  An action ends at each durable write and at each await of *)
(* something outside the store (the policy resolver, the connector, the    *)
(* verification authority).  Between two actions any other actor may run,  *)
(* and the process may crash, which loses `call' and `agenda' and nothing  *)
(* else: rows and mission are SQLite rows, owner is the outside world.     *)
(***************************************************************************)
EXTENDS InvocationRules

CONSTANTS
  Steps,         \* steps of the accepted plan revision
  Effects,       \* effect fingerprints
  EffectOf,      \* the effect of each step
  Deps,          \* dependencyIds of each step
  Capabilities,  \* descriptors under which an effect may be minted
  Dispatchers,   \* chains that dispatch at the same time
  NoRow, NoStep

ASSUME StepsAssumption ==
  /\ EffectOf \in [Steps -> Effects]
  /\ Deps \in [Steps -> SUBSET Steps]
  /\ NoStep \notin Steps
ASSUME NoRowAssumption == NoRow \notin Invocations(Steps, Capabilities)
ASSUME CapabilitiesAssumption == Capabilities \subseteq Descriptors

VARIABLES
  rows,       \* mission_invocations, unique per (mission, effect fingerprint)
  mission,    \* missions.state
  resumeTo,   \* pauseMetadata.previousState
  available,  \* registry: descriptor available and connector registered
  owner,      \* what the module owner really did about each effect
  invokes,    \* history: how often connector.invoke() was called for each effect
  call,       \* the suspended async call of each dispatcher
  agenda      \* steps the current pass still has to dispatch; NoStep stands for
              \* becameUnavailable

vars == <<rows, mission, resumeTo, available, owner, invokes, call, agenda>>
callVars == <<call, agenda>>
missionVars == <<mission, resumeTo>>
worldVars == <<available, owner, invokes>>

MissionStates == {"ready", "executing", "waiting_for_capability", "blocked",
                  "paused", "cancelled"}
OwnerStates == {"idle", "running", "performed", "not_performed"}
PCs == {"idle", "mint", "persisted", "handoff", "invoke", "invoked", "handle",
        "record", "write", "raised", "cancelling", "cancelwait", "observe",
        "reconcile", "remark"}

(* What connector.invoke(), observeStatus() or reconcile() answers.  An    *)
(* exception, null, a schema violation and a wrong requestId are the       *)
(* answers that are not usable.                                            *)
Results ==
  {r \in [status : {"completed", "failed", "running", "unknown"},
          verdict : {"none", "verified", "rejected", "pending"},
          handle : BOOLEAN, usable : BOOLEAN] :
     ~r.usable => r.verdict = "none"}

(* Connectors report the truth about the owner, when they report at all.   *)
Honest(res, o) ==
  /\ res.status = "completed" => o = "performed"
  /\ res.status = "failed" => o \in {"idle", "not_performed"}
  /\ res.status = "running" => o = "running"
  /\ res.verdict = "rejected" => o \in {"performed", "not_performed"}

(* A result the seam is about to hand to the engine: the claim it submits  *)
(* for attestation, whether a refusal is swallowed, whether the seam       *)
(* throws afterwards, and the delivery state stored with the owner's       *)
(* operation handle.                                                       *)
Todos == [status : {"none", "completed", "failed", "running", "blocked"},
          claim : Verdicts, recon : BOOLEAN, swallow : BOOLEAN,
          raise : BOOLEAN, handle : {"none", "acknowledged", "running", "uncertain"}]

NoTodo == [status |-> "none", claim |-> "none", recon |-> FALSE,
           swallow |-> FALSE, raise |-> FALSE, handle |-> "none"]
IdleCall == [pc |-> "idle", step |-> NoStep, snap |-> NoRow, todo |-> NoTodo]

(* Slip: an exception of the connector counts as a failure. *)
ThrownIsFailed(raise) == [NoTodo EXCEPT !.status = "failed", !.raise = raise]

Uncertain(raise) ==
  [NoTodo EXCEPT !.status = "blocked", !.swallow = TRUE, !.raise = raise]

(* Slip: an unknown outcome counts as a failure. *)
UnknownIsFailed(res) == IF res.status = "unknown" THEN "failed" ELSE res.status

InvocationStatusFor(res) == IF res.status = "unknown" THEN "blocked" ELSE res.status

HandleDelivery(res) ==
  IF ~res.handle THEN "none"
  ELSE CASE res.status = "running" -> "running"
         [] res.status = "completed" -> "acknowledged"
         [] OTHER -> "uncertain"

Unverified(res, desc) == desc.mustVerify /\ res.verdict \in {"none", "pending"}

(* What the seam records of an answer to invoke(). *)
TodoOf(res, desc) ==
  [(CASE ~res.usable -> Uncertain(TRUE)
      [] res.verdict = "rejected" ->
           [NoTodo EXCEPT !.status = "failed", !.claim = "rejected"]
      [] res.usable /\ Unverified(res, desc) -> Uncertain(FALSE)
      [] OTHER ->
           [NoTodo EXCEPT !.status = InvocationStatusFor(res),
                          !.claim = IF res.verdict = "verified" THEN "verified" ELSE "none"])
   EXCEPT !.handle = HandleDelivery(res)]

(* What the seam records of an answer to reconcile(). *)
ReconciledTodoOf(res) ==
  [NoTodo EXCEPT !.status = InvocationStatusFor(res), !.recon = TRUE,
                 !.claim = IF res.verdict \in {"verified", "rejected"}
                             THEN res.verdict ELSE "none"]

-----------------------------------------------------------------------------
StoredRows == {NoRow} \cup Invocations(Steps, Capabilities)

Calls == [pc : PCs, step : Steps \cup {NoStep}, snap : StoredRows, todo : Todos]

TypeOK ==
  /\ rows \in [Effects -> StoredRows]
  /\ mission \in MissionStates
  /\ resumeTo \in MissionStates \ {"paused", "cancelled"}
  /\ available \in BOOLEAN
  /\ owner \in [Effects -> OwnerStates]
  /\ invokes \in [Effects -> Nat]
  /\ call \in [Dispatchers -> Calls]
  /\ agenda \in [Dispatchers -> SUBSET (Steps \cup {NoStep})]

Init ==
  /\ rows = [e \in Effects |-> NoRow]
  /\ mission = "ready"
  /\ resumeTo = "ready"
  /\ available \in BOOLEAN
  /\ owner = [e \in Effects |-> "idle"]
  /\ invokes = [e \in Effects |-> 0]
  /\ call = [d \in Dispatchers |-> IdleCall]
  /\ agenda = [d \in Dispatchers |-> {}]

-----------------------------------------------------------------------------
EffectAt(d) == EffectOf[call[d].step]
Row(d) == rows[EffectAt(d)]
Put(d, row) == rows' = [rows EXCEPT ![EffectAt(d)] = row]
Goto(d, pc) == call' = [call EXCEPT ![d].pc = pc]
Start(d, pc, s) == call' = [call EXCEPT ![d] = [IdleCall EXCEPT !.pc = pc, !.step = s]]
Finish(d) == call' = [call EXCEPT ![d] = IdleCall]
Free(d) == call[d].pc = "idle" /\ agenda[d] = {}

MissionRuns == mission \in {"ready", "executing"}
CanWaitForCapability == mission \in {"ready", "executing", "waiting_for_capability"}

(* setWaiting as the scheduler uses it: never over another kind of wait. *)
WaitForCapability ==
  /\ mission' = IF CanWaitForCapability THEN "waiting_for_capability" ELSE mission
  /\ UNCHANGED resumeTo

Minted(e) == rows[e] # NoRow
(* Slip: an operation under way satisfies a dependency. *)
CompletedOrRunning(e) == Minted(e) /\ rows[e].status \in {"completed", "running"}

Completed(e) == Minted(e) /\ rows[e].status = "completed"

-----------------------------------------------------------------------------
(* Third part of a pass: steps that have no invocation yet, as many of     *)
(* them as the pass has dispatch slots.                                    *)

ReadySteps ==
  {s \in Steps : ~Minted(EffectOf[s]) /\ \A t \in Deps[s] : Completed(EffectOf[t])}

ScanMission(d) ==
  /\ Free(d)
  /\ CanWaitForCapability
  /\ ReadySteps # {}
  /\ IF available
       THEN /\ \E A \in SUBSET ReadySteps \ {{}} : agenda' = [agenda EXCEPT ![d] = A]
            /\ mission' = IF MissionRuns THEN mission ELSE "ready"
            /\ UNCHANGED resumeTo
       ELSE WaitForCapability /\ UNCHANGED agenda
  /\ UNCHANGED <<rows, worldVars, call>>

(* dispatchThroughSeam up to the mint, with the gates of dispatchStep.     *)
(* When the effect was completed for another step, dispatchStep returns    *)
(* that invocation and the seam goes on with it.                           *)
GateStep(d, s) ==
  LET r == rows[EffectOf[s]]
  IN  /\ call[d].pc = "idle" /\ s \in agenda[d]
      /\ \/ /\ ~available
            /\ agenda' = [agenda EXCEPT ![d] = (@ \ {s}) \cup {NoStep}]
            /\ UNCHANGED call
         \/ /\ available
            /\ agenda' = [agenda EXCEPT ![d] = @ \ {s}]
            /\ Start(d, CASE ~MissionRuns -> "raised"
                          [] MissionRuns /\ r = NoRow -> "mint"
                          [] MissionRuns /\ r # NoRow /\ r.step # s
                               /\ r.status = "completed" -> "handoff"
                          [] OTHER -> "raised", s)
      /\ UNCHANGED <<rows, missionVars, worldVars>>

(* The wait for a capability that went away is set after the last step. *)
EndScan(d) ==
  /\ call[d].pc = "idle" /\ agenda[d] = {NoStep}
  /\ WaitForCapability
  /\ agenda' = [agenda EXCEPT ![d] = {}]
  /\ UNCHANGED <<rows, worldVars, call>>

(* The transaction of dispatchStep: claim the effect, then EXECUTING.      *)
Mint(d) ==
  /\ call[d].pc = "mint"
  /\ \/ /\ Row(d) = NoRow
        /\ \E desc \in Capabilities : Put(d, NewInvocation(call[d].step, desc))
        /\ mission' = "executing"
        /\ Goto(d, "handoff")
     \/ /\ Row(d) # NoRow
        /\ Goto(d, IF Row(d).status = "completed" THEN "handoff" ELSE "raised")
        /\ UNCHANGED <<rows, mission>>
  /\ UNCHANGED <<resumeTo, worldVars, agenda>>

(* The descriptor's inputSchema refuses the request: FAILED, never invoked. *)
RejectInput(d) ==
  /\ call[d].pc = "handoff"
  /\ call' = [call EXCEPT ![d].pc = "record",
                ![d].todo = [NoTodo EXCEPT !.status = "failed", !.swallow = TRUE,
                                           !.raise = TRUE]]
  /\ UNCHANGED <<rows, missionVars, worldVars, agenda>>

(* markInvocationHandoff: a terminal row is returned, not refused. *)
HandoffTo(d, delivery, handle, next) ==
  \/ /\ IsInvocationTerminal(Row(d))
     /\ Goto(d, next) /\ UNCHANGED rows
  \/ /\ ~IsInvocationTerminal(Row(d)) /\ MayHandOff(Row(d), delivery)
     /\ Put(d, StoreWrite(Row(d), HandedOff(Row(d), delivery, handle)))
     /\ Goto(d, next)
  \/ /\ ~IsInvocationTerminal(Row(d)) /\ ~MayHandOff(Row(d), delivery)
     /\ Goto(d, "raised") /\ UNCHANGED rows

Handoff(d) ==
  /\ call[d].pc = "handoff"
  /\ HandoffTo(d, "submitted", FALSE, "invoke")
  /\ UNCHANGED <<missionVars, worldVars, agenda>>

(* connector.invoke(): the request reaches the module owner. *)
Invoke(d) ==
  /\ call[d].pc = "invoke"
  /\ owner' = [owner EXCEPT ![EffectAt(d)] = "running"]
  /\ invokes' = [invokes EXCEPT ![EffectAt(d)] = @ + 1]
  /\ Goto(d, "invoked")
  /\ UNCHANGED <<rows, missionVars, available, agenda>>

InvokeReturns(d) ==
  /\ call[d].pc = "invoked"
  /\ \E res \in Results :
       /\ Honest(res, owner[EffectAt(d)])
       /\ LET todo == TodoOf(res, Row(d).desc)
          IN  call' = [call EXCEPT ![d].todo = todo,
                         ![d].pc = IF todo.handle = "none" THEN "record" ELSE "handle"]
  /\ UNCHANGED <<rows, missionVars, worldVars, agenda>>

(* The owner's operation reference is persisted before the result is used. *)
PersistHandle(d) ==
  /\ call[d].pc = "handle"
  /\ HandoffTo(d, call[d].todo.handle, TRUE, "record")
  /\ UNCHANGED <<missionVars, worldVars, agenda>>

-----------------------------------------------------------------------------
(* recordInvocationResult and recordReconciledInvocationResult: the row is *)
(* read, the authority attests the claim, a transaction writes the row     *)
(* that was built from the first read.                                     *)

ReadForRecord(d) ==
  /\ call[d].pc = "record"
  /\ call' = [call EXCEPT ![d].pc = "write", ![d].snap = Row(d)]
  /\ UNCHANGED <<rows, missionVars, worldVars, agenda>>

Recording(d) == Recorded(call[d].snap, call[d].todo.status, call[d].todo.claim)

(* Nothing becomes of a record on a terminal row: the engine returns for a *)
(* COMPLETED one, and the late facts it writes to a CANCELLED one are      *)
(* dropped by the store, which keeps the row.  `news' says that the result *)
(* carries evidence the row does not have yet.                             *)
WritesNothing(d, news) ==
  \/ IsInvocationTerminal(call[d].snap)
  \/ /\ ~news
     /\ IsDuplicateFailure(call[d].snap, call[d].todo.status, call[d].todo.claim)

RecordAccepted(d, attested, news) ==
  LET s == call[d].snap
      t == call[d].todo
  IN  CASE s.status = "completed" -> TRUE
        [] s.status = "cancelled" -> t.claim # "none" /\ attested
        [] OTHER -> /\ MayRecord(s, t.status, t.claim, t.recon)
                    /\ attested
                    /\ WritesNothing(d, news) \/ StoreAccepts(Row(d), Recording(d))

(* Where the seam goes when the engine refused the record. *)
AfterRefusal(c) ==
  LET t == c.todo
      bare == [t EXCEPT !.claim = "none"]
      supplementary == t.claim = "verified" /\ ~c.snap.desc.mustVerify
  IN  CASE supplementary -> [c EXCEPT !.pc = "record", !.todo = bare]
        [] ~supplementary /\ t.recon -> [c EXCEPT !.pc = "remark"]
        [] ~supplementary /\ ~t.recon /\ t.claim # "none" ->
             [c EXCEPT !.pc = "record", !.todo = Uncertain(FALSE)]
        [] OTHER -> IF t.swallow /\ ~t.raise THEN IdleCall ELSE [c EXCEPT !.pc = "raised"]

(* The scheduler lets a Mission that waited on the capability go on once   *)
(* reconcileInvocation returns a row whose status is definite.             *)
Restored(status) ==
  IF mission = "waiting_for_capability" /\ status \in {"completed", "failed"}
    THEN "ready" ELSE mission

ReadyAfterReconciliation(d) ==
  mission' = IF call[d].todo.recon THEN Restored(rows'[EffectAt(d)].status) ELSE mission

WriteRecord(d) ==
  /\ call[d].pc = "write"
  /\ \E attested \in IF call[d].todo.claim = "none" THEN {TRUE} ELSE BOOLEAN,
        news \in BOOLEAN :
       IF RecordAccepted(d, attested, news)
         THEN /\ IF WritesNothing(d, news) THEN UNCHANGED rows
                 ELSE Put(d, StoreWrite(Row(d), Recording(d)))
              /\ IF call[d].todo.raise THEN Goto(d, "raised") ELSE Finish(d)
              /\ ReadyAfterReconciliation(d)
         ELSE /\ call' = [call EXCEPT ![d] = AfterRefusal(@)]
              /\ UNCHANGED <<rows, mission>>
  /\ UNCHANGED <<resumeTo, worldVars, agenda>>

(* markInvocationReconciliation on the current row; a refusal is ignored. *)
MarkUncertain(d, recon, status) ==
  IF ~IsInvocationTerminal(Row(d)) /\ MayMark(Row(d), status)
    THEN Put(d, StoreWrite(Row(d), Marked(Row(d), recon, status)))
    ELSE UNCHANGED rows

Remark(d) ==
  /\ call[d].pc = "remark"
  /\ MarkUncertain(d, "pending", "blocked")
  /\ Finish(d)
  /\ UNCHANGED <<missionVars, worldVars, agenda>>

(* handleDispatchError for every error but an unavailable capability. *)
HandleDispatchError(d) ==
  /\ call[d].pc = "raised"
  /\ mission' = IF mission \in {"cancelled", "paused"} THEN mission ELSE "blocked"
  /\ Finish(d)
  /\ agenda' = [agenda EXCEPT ![d] = {}]
  /\ UNCHANGED <<rows, resumeTo, worldVars>>

-----------------------------------------------------------------------------
(* Second part of a pass: rows that are due and definitely not submitted.  *)

DueRow(r) ==
  /\ r # NoRow
  /\ r.status \in {"pending", "dispatched", "failed"}
  /\ r.delivery \in {"not_submitted", "failed"}
  /\ ~r.cancelRequested
  /\ r.recon \notin {"pending", "unsupported"}
  /\ r.verdict # "rejected"
  /\ IsInvocationDue(r)
  /\ r.status = "failed" =>
       /\ r.retryAttempt < r.desc.maxAttempts
       /\ r.desc.idempotent
       /\ \A k \in DOMAIN r.attempts : r.attempts[k] # "uncertain"
       /\ Last(r.attempts) = "failed"

RestoreForDue(d, e) ==
  /\ Free(d) /\ DueRow(rows[e])
  /\ mission = "waiting_for_capability" /\ available
  /\ mission' = "ready"
  /\ UNCHANGED <<rows, resumeTo, worldVars, callVars>>

PickDue(d, e) ==
  /\ Free(d) /\ DueRow(rows[e]) /\ MissionRuns
  /\ \/ /\ rows[e].status = "failed" /\ MayRetry(rows[e])
        /\ rows' = [rows EXCEPT ![e] = StoreWrite(@, Retried(@, rows[e].backoff))]
     \/ /\ rows[e].status # "failed" /\ rows[e].delivery = "not_submitted"
        /\ UNCHANGED rows
  /\ Start(d, "persisted", rows[e].step)
  /\ UNCHANGED <<missionVars, worldVars, agenda>>

(* dispatchPersistedInvocation: the guards of persistedInvocationForDispatch. *)
PersistedDispatchable(r) ==
  /\ r.status \in {"pending", "dispatched"}
  /\ MissionRuns
  /\ ~r.cancelRequested
  /\ r.delivery = "not_submitted"
  /\ IsInvocationDue(r)

CheckPersisted(d) ==
  /\ call[d].pc = "persisted"
  /\ \/ ~available /\ WaitForCapability /\ Finish(d)
     \/ /\ available
        /\ Goto(d, IF PersistedDispatchable(Row(d)) THEN "handoff" ELSE "raised")
        /\ UNCHANGED missionVars
  /\ UNCHANGED <<rows, worldVars, agenda>>

-----------------------------------------------------------------------------
(* First part of a pass: rows that already crossed the boundary.           *)

CancelPending(r) == r.cancelRequested /\ r.cancelState = "requested"

ActionableRow(r) ==
  /\ r # NoRow
  /\ ~IsInvocationTerminal(r)
  /\ r.delivery # "not_submitted"
  /\ CancelPending(r) \/ r.recon = "pending"

PickActionable(d, e) ==
  /\ Free(d) /\ ActionableRow(rows[e])
  /\ Start(d, IF CancelPending(rows[e]) THEN "cancelling" ELSE "observe", rows[e].step)
  /\ UNCHANGED <<rows, missionVars, worldVars, agenda>>

(* cancelInvocation up to the connector call. *)
RequestCancel(d) ==
  LET r == Row(d)
      reachable == r.desc.cancellation \in {"cooperative", "hard"} /\ r.handle
  IN  /\ call[d].pc = "cancelling"
      /\ CASE IsInvocationTerminal(r) \/ (r.cancelRequested /\ r.cancelState # "requested") ->
                Goto(d, "observe") /\ UNCHANGED <<rows, missionVars>>
           [] ~IsInvocationTerminal(r) /\ ~r.cancelRequested ->
                Finish(d) /\ UNCHANGED <<rows, missionVars>>
           [] ~IsInvocationTerminal(r) /\ CancelPending(r) /\ ~reachable ->
                /\ Put(d, StoreWrite(r, CancellationRecorded(r, "unsupported", r.status, r.delivery)))
                /\ Goto(d, "observe")
                /\ UNCHANGED missionVars
           [] ~IsInvocationTerminal(r) /\ CancelPending(r) /\ reachable /\ ~available ->
                Finish(d) /\ WaitForCapability /\ UNCHANGED rows
           [] OTHER ->
                /\ call' = [call EXCEPT ![d].pc = "cancelwait", ![d].snap = r]
                /\ UNCHANGED <<rows, missionVars>>
      /\ UNCHANGED <<worldVars, agenda>>

(* connector.cancel() answers; an exception is an answer "unknown".  The   *)
(* seam passes BLOCKED for an unknown answer, which the engine refuses     *)
(* unless the row is blocked already; the scheduler then drops the row for *)
(* this pass.                                                              *)
CancelUpdate(answer, s) ==
  LET active == IF s.delivery = "submitted" THEN "running" ELSE s.delivery
  IN  CASE answer = "completed" /\ s.desc.cancellation = "hard" ->
             [state |-> "acknowledged", status |-> "cancelled", delivery |-> "failed"]
        [] answer = "completed" /\ s.desc.cancellation # "hard" ->
             [state |-> "acknowledged", status |-> "same", delivery |-> active]
        [] answer = "unknown" ->
             [state |-> "requested", status |-> "blocked", delivery |-> "uncertain"]
        [] answer = "running" ->
             [state |-> "requested", status |-> "same", delivery |-> "running"]
        [] OTHER ->
             [state |-> "requested", status |-> "same", delivery |-> active]

CancelReturns(d, answer) ==
  LET r == Row(d)
      u == CancelUpdate(answer, call[d].snap)
      status == IF u.status = "same" THEN r.status ELSE u.status
      stops == answer = "completed" /\ r.desc.cancellation = "hard"
  IN  /\ call[d].pc = "cancelwait"
      /\ answer = "running" => owner[EffectAt(d)] = "running"
      /\ stops => owner[EffectAt(d)] # "performed"
      /\ owner' = IF stops THEN [owner EXCEPT ![EffectAt(d)] = "not_performed"] ELSE owner
      /\ CASE IsInvocationTerminal(r) -> Goto(d, "observe") /\ UNCHANGED rows
           [] ~IsInvocationTerminal(r) /\ MayRecordCancellation(r, u.state, status) ->
                /\ Put(d, StoreWrite(r, CancellationRecorded(r, u.state, status, u.delivery)))
                /\ Goto(d, "observe")
           [] OTHER -> Finish(d) /\ UNCHANGED rows
      /\ UNCHANGED <<missionVars, available, invokes, agenda>>

(* reconcileInvocation up to the connector call. *)
Observe(d) ==
  LET r == Row(d)
      status == IF r.status = "failed" THEN "failed" ELSE "blocked"
      pending == ~IsInvocationTerminal(r) /\ r.delivery # "not_submitted" /\ r.recon = "pending"
  IN  /\ call[d].pc = "observe"
      /\ CASE ~pending -> Finish(d) /\ UNCHANGED <<rows, missionVars>>
           [] pending /\ ~r.desc.reconciles ->
                /\ MarkUncertain(d, "unsupported", status)
                /\ Finish(d)
                /\ mission' = Restored(status) /\ UNCHANGED resumeTo
           [] pending /\ r.desc.reconciles /\ ~available ->
                MarkUncertain(d, "pending", status) /\ Finish(d) /\ WaitForCapability
           [] OTHER -> Goto(d, "reconcile") /\ UNCHANGED <<rows, missionVars>>
      /\ UNCHANGED <<worldVars, agenda>>

ReconcileReturns(d) ==
  /\ call[d].pc = "reconcile"
  /\ \E res \in {r \in Results : ~r.handle} :
       /\ Honest(res, owner[EffectAt(d)])
       /\ IF ~res.usable \/ Unverified(res, Row(d).desc)
            THEN Goto(d, "remark")
            ELSE call' = [call EXCEPT ![d].pc = "record", ![d].todo = ReconciledTodoOf(res)]
  /\ UNCHANGED <<rows, missionVars, worldVars, agenda>>

-----------------------------------------------------------------------------
(* The operator, the owner, the clock, the host process.                   *)

(* cancelMission: one transaction over every invocation of the Mission. *)
CancelMission ==
  /\ mission # "cancelled"
  /\ rows' = [e \in Effects |->
                IF Minted(e) THEN StoreWrite(rows[e], CancelledByMission(rows[e])) ELSE NoRow]
  /\ mission' = "cancelled"
  /\ UNCHANGED <<resumeTo, worldVars, callVars>>

PauseMission ==
  /\ mission \notin {"cancelled", "paused"}
  /\ resumeTo' = mission
  /\ mission' = "paused"
  /\ UNCHANGED <<rows, worldVars, callVars>>

ResumeMission ==
  /\ mission = "paused"
  /\ mission' = resumeTo
  /\ UNCHANGED <<rows, resumeTo, worldVars, callVars>>

(* acceptPlan of a revision with the same steps: the way out of BLOCKED. *)
ReplanAccepted ==
  /\ mission = "blocked"
  /\ mission' = "ready"
  /\ UNCHANGED <<rows, resumeTo, worldVars, callVars>>

(* prepareInvocationRetry called with a positive backoffMs. *)
PrepareDelayedRetry(e) ==
  /\ Minted(e) /\ MayRetry(rows[e])
  /\ rows' = [rows EXCEPT ![e] = StoreWrite(@, Retried(@, TRUE))]
  /\ UNCHANGED <<missionVars, worldVars, callVars>>

BackoffElapses(e) ==
  /\ Minted(e) /\ ~rows[e].due
  /\ rows' = [rows EXCEPT ![e].due = TRUE]
  /\ UNCHANGED <<missionVars, worldVars, callVars>>

SetAvailability ==
  /\ available' = ~available
  /\ UNCHANGED <<rows, missionVars, owner, invokes, callVars>>

OwnerFinishes(e) ==
  /\ owner[e] = "running"
  /\ \E o \in {"performed", "not_performed"} : owner' = [owner EXCEPT ![e] = o]
  /\ UNCHANGED <<rows, missionVars, available, invokes, callVars>>

Crash ==
  /\ call' = [d \in Dispatchers |-> IdleCall]
  /\ agenda' = [d \in Dispatchers |-> {}]
  /\ UNCHANGED <<rows, missionVars, worldVars>>

-----------------------------------------------------------------------------
Dispatch(d) ==
  \/ ScanMission(d)
  \/ \E s \in Steps : GateStep(d, s)
  \/ EndScan(d)
  \/ Mint(d) \/ RejectInput(d) \/ Handoff(d) \/ Invoke(d) \/ InvokeReturns(d)
  \/ PersistHandle(d) \/ ReadForRecord(d) \/ WriteRecord(d) \/ Remark(d)
  \/ HandleDispatchError(d) \/ CheckPersisted(d)
  \/ \E e \in Effects : RestoreForDue(d, e) \/ PickDue(d, e) \/ PickActionable(d, e)
  \/ RequestCancel(d) \/ Observe(d) \/ ReconcileReturns(d)
  \/ \E answer \in {"completed", "failed", "running", "unknown"} : CancelReturns(d, answer)

Environment ==
  \/ CancelMission \/ PauseMission \/ ResumeMission \/ ReplanAccepted
  \/ SetAvailability \/ Crash
  \/ \E e \in Effects : PrepareDelayedRetry(e) \/ BackoffElapses(e) \/ OwnerFinishes(e)

Next == Environment \/ \E d \in Dispatchers : Dispatch(d)

Spec == Init /\ [][Next]_vars

-----------------------------------------------------------------------------
(* What the path promises about the effect outside.                        *)

(* A dispatcher between the mint and the last write about effect e.        *)
InFlight(e) == \E d \in Dispatchers : call[d].pc # "idle" /\ EffectAt(d) = e

(* Every call of connector.invoke() is paid for by an attempt of its own:  *)
(* no interleaving of crash, retry, pause, cancellation and refused write  *)
(* sends one attempt to the owner twice (the comment above                 *)
(* markInvocationHandoff in dispatchThroughSeam: "never blindly invoked a  *)
(* second time").                                                          *)
AttemptInvokedOnce ==
  \A e \in Effects : invokes[e] <= IF Minted(e) THEN Len(rows[e].attempts) ELSE 0

(* The owner is asked at most maxAttempts times for an idempotent          *)
(* capability and once for any other, whoever asks for the retries.        *)
InvokeBudget ==
  \A e \in Effects : invokes[e] > 1 =>
    rows[e].desc.idempotent /\ invokes[e] <= rows[e].desc.maxAttempts

(* The seam never invents terminality: a COMPLETED row means the owner did *)
(* perform the effect, and a FAILED row without an owner rejection means   *)
(* the effect neither happened nor is under way.                           *)
HonestRecord ==
  \A e \in Effects : Minted(e) =>
    /\ rows[e].status = "completed" => owner[e] = "performed"
    /\ rows[e].status = "failed" /\ rows[e].verdict # "rejected"
         => owner[e] \in {"idle", "not_performed"}

(* A replay needs an owner that does not hold the effect: invoke() is      *)
(* never called again while an earlier call may still be acting or has     *)
(* acted, unless the owner itself rejected the outcome.                    *)
NeverReplayed ==
  [][\A e \in Effects :
       invokes'[e] > invokes[e] => owner[e] \in {"idle", "not_performed"}]_vars

(* invoke() is called for a step only when the effect of every step it     *)
(* depends on has been performed, also when the mint, the handoff and the  *)
(* invoke happen in different lives of the process.                        *)
DependenciesFirst ==
  [][\A e \in Effects : invokes'[e] > invokes[e] =>
       \A t \in Deps[rows[e].step] : owner[EffectOf[t]] = "performed"]_vars

(* An effect the owner is acting on is never forgotten: some call still    *)
(* handles it, or the row is one the first part of a pass picks up, or the *)
(* row says that only an operator can settle it.                           *)
NothingForgotten ==
  \A e \in Effects : owner[e] = "running" =>
    \/ InFlight(e)
    \/ ActionableRow(rows[e])
    \/ rows[e].recon = "unsupported"
    \/ rows[e].status = "cancelled"

-----------------------------------------------------------------------------
(* What the code says of itself, and does not keep.                        *)

(* "cancelled invocations cannot cross the handoff boundary", says the     *)
(* refusal in markInvocationHandoff: invoke() is never called for a row    *)
(* that is already CANCELLED.                                              *)
CancelledNotInvoked ==
  [][\A e \in Effects : invokes'[e] > invokes[e] => rows[e].status # "cancelled"]_vars

(* A completed invocation is never repeated (MISSION_CONTRACT, Replay      *)
(* protection): invoke() is not called for an effect recorded COMPLETED.   *)
CompletedNotRepeated ==
  [][\A e \in Effects : invokes'[e] > invokes[e] => ~Completed(e)]_vars

(* No operation moves a Mission out of CANCELLED (MISSION_CONTRACT,        *)
(* Terminal state machine).                                                *)
CancelledIsFinal == [][mission = "cancelled" => mission' = "cancelled"]_vars

(* cancelMission persists a cancellation per invocation: once persisted,   *)
(* the request stays on the row until an answer to it is recorded.         *)
CancelRequestKept ==
  [][\A e \in Effects :
       Minted(e) /\ rows[e].cancelRequested => rows'[e].cancelRequested]_vars

-----------------------------------------------------------------------------
(* The rows read as a ledger of effects. *)

BudgetOf(desc) == IF desc.idempotent /\ desc.maxAttempts > 0 THEN desc.maxAttempts ELSE 1

AnswerOf(r) ==
  CASE r.status = "completed" -> "performed"
    [] r.status = "cancelled" -> "withdrawn"
    [] r.status = "failed" /\ r.verdict = "rejected" -> "rejected"
    [] r.status = "failed" /\ r.verdict # "rejected" -> "not_performed"
    [] OTHER -> "none"

Ledger == INSTANCE EffectLedger WITH
  Budgets <- {BudgetOf(desc) : desc \in Capabilities},
  budget  <- [e \in Effects |-> IF Minted(e) THEN BudgetOf(rows[e].desc) ELSE 0],
  opened  <- [e \in Effects |-> IF Minted(e) THEN Len(rows[e].attempts) ELSE 0],
  sent    <- invokes,
  answer  <- [e \in Effects |-> IF Minted(e) THEN AnswerOf(rows[e]) ELSE "none"]

(* The whole path implements the ledger: in particular a COMPLETED row is  *)
(* never reopened, an attempt is appended only after a definite failure,   *)
(* and no late write changes an answer that was already given.             *)
ImplementsLedger == Ledger!LedgerSpec
=============================================================================
