-------------------------- MODULE InvocationRules --------------------------
(***************************************************************************)
(* The durable capability invocation: the row of mission_invocations, the  *)
(* transitions its status may take, and what each engine write makes of    *)
(* it.  Only operators on rows are defined here; who applies them, and in  *)
(* which order, is the business of DispatchSeam.                           *)
(*                                                                         *)
(* A row keeps the fields control depends on.  Timestamps, texts, evidence *)
(* references, owner names and correlation ids are left out.  An attempt   *)
(* is represented by its state: attempt numbers are the positions in the   *)
(* sequence less one, because prepareInvocationRetry numbers an attempt    *)
(* one above the last one.  nextEligibleAt is represented by `due', which  *)
(* is FALSE while that instant lies ahead of the clock, and backoffMs by   *)
(* `backoff', TRUE when it is positive.                                    *)
(***************************************************************************)
EXTENDS Naturals, Sequences, SequencesExt

Statuses == {"pending", "dispatched", "running", "completed", "failed",
             "cancelled", "blocked"}

DeliveryStates == {"not_submitted", "submitted", "acknowledged", "running",
                   "failed", "uncertain"}

AttemptStates == {"prepared", "submitted", "acknowledged", "failed", "uncertain"}

CancelStates == {"not_requested", "requested", "acknowledged", "unsupported"}

ReconStates == {"not_required", "pending", "resolved", "unsupported"}

Outcomes == {"none", "performed", "not_performed", "unknown"}

(* The owner verification a row stores: none yet, or an attested verdict. *)
Verdicts == {"none", "verified", "rejected"}

(* What a descriptor fixes for every invocation minted under it. *)
Descriptors == [idempotent   : BOOLEAN,
                maxAttempts  : Nat,
                cancellation : {"none", "cooperative", "hard", "unsupported"},
                reconciles   : BOOLEAN,
                mustVerify   : BOOLEAN]

(* The rows of invocations of `steps' minted under `descs'. *)
Invocations(steps, descs) ==
  [step : steps, desc : descs, status : Statuses, delivery : DeliveryStates,
   handle : BOOLEAN, attempts : Seq(AttemptStates), retryAttempt : Nat,
   due : BOOLEAN, backoff : BOOLEAN, cancelRequested : BOOLEAN,
   cancelState : CancelStates, recon : ReconStates, outcome : Outcomes,
   verdict : Verdicts]

(* Statuses a row never leaves: FAILED is an attempt outcome, not one. *)
TerminalStatuses == {"completed", "cancelled"}

IsInvocationTerminal(r) == r.status \in TerminalStatuses

AllowedFrom(status) ==
  CASE status = "pending"    -> Statuses
    [] status = "dispatched" -> Statuses \ {"pending"}
    [] status = "running"    -> Statuses \ {"pending", "dispatched"}
    [] status = "failed"     -> {"failed", "pending"}
    [] status = "blocked"    -> Statuses \ {"pending", "dispatched"}
    [] OTHER                 -> {status}

IsInvocationUpdateAllowed(current, next) == next \in AllowedFrom(current)

HasUncertainDelivery(r) ==
  \/ r.delivery = "uncertain"
  \/ \E k \in DOMAIN r.attempts : r.attempts[k] = "uncertain"

IsInvocationDue(r) == r.due

(* Slip: one attempt more than the budget. *)
RetryEligibleOnceMore(r) ==
  /\ r.verdict # "rejected" /\ r.status = "failed"
  /\ r.retryAttempt <= r.desc.maxAttempts
  /\ r.desc.idempotent /\ ~HasUncertainDelivery(r) /\ IsInvocationDue(r)

IsSafeRetryEligible(r) ==
  /\ r.verdict # "rejected"
  /\ r.status = "failed"
  /\ r.retryAttempt < r.desc.maxAttempts
  /\ r.desc.idempotent
  /\ ~HasUncertainDelivery(r)
  /\ IsInvocationDue(r)

-----------------------------------------------------------------------------
(* What the store does with a write of `next' over the row `current'.      *)

(* The store refuses (throws) a transition the table forbids... *)
StoreAccepts(current, next) ==
  \/ IsInvocationTerminal(current)
  \/ IsInvocationUpdateAllowed(current.status, next.status)

(* Slip: the last writer wins. *)
StoreOverwrite(current, next) == next

(* ...and silently keeps a terminal row: the caller sees no error. *)
StoreWrite(current, next) ==
  IF ~IsInvocationTerminal(current) /\ StoreAccepts(current, next)
    THEN next ELSE current

-----------------------------------------------------------------------------
(* The rows the engine builds.                                             *)

NewInvocation(step, desc) ==
  [step |-> step, desc |-> desc, status |-> "dispatched",
   delivery |-> "not_submitted", handle |-> FALSE,
   attempts |-> <<"prepared">>, retryAttempt |-> 0, due |-> TRUE,
   backoff |-> FALSE, cancelRequested |-> FALSE,
   cancelState |-> "not_requested", recon |-> "not_required",
   outcome |-> "none", verdict |-> "none"]

SetLast(attempts, state) == [attempts EXCEPT ![Len(attempts)] = state]

UpdateAttempt(r, status) ==
  LET current == Last(r.attempts)
  IN  SetLast(r.attempts,
        CASE status = "failed"                   -> "failed"
          [] status \in {"completed", "cancelled"} -> "acknowledged"
          [] status = "blocked"                  -> "uncertain"
          [] status = "running" /\ current = "submitted" -> "acknowledged"
          [] OTHER                               -> current)

(* Slip: the status is stored as the delivery state. *)
DeliveryIsStatus(r, status) == status

UpdateDelivery(r, status) ==
  CASE status = "completed" -> "acknowledged"
    [] status = "running"   -> "running"
    [] status = "failed"    -> "failed"
    [] status = "blocked"   -> "uncertain"
    [] OTHER                -> r.delivery

IsHandoffDeliveryUpdateAllowed(current, next) ==
  \/ current = next
  \/ next = "uncertain" /\ current # "failed"
  \/ current = "not_submitted"
  \/ current = "submitted" /\ next \in {"acknowledged", "running"}

HandoffStatus(delivery) == IF delivery = "running" THEN "running" ELSE "dispatched"

(* The guards of markInvocationHandoff on a row that is not terminal. *)
MayHandOff(r, delivery) ==
  /\ ~r.cancelRequested
  /\ IsHandoffDeliveryUpdateAllowed(r.delivery, delivery)
  /\ IsInvocationUpdateAllowed(r.status, HandoffStatus(delivery))

(* Slip: the boundary is not persisted. *)
HandedOffUnmarked(r, delivery, handle) ==
  [r EXCEPT !.status = HandoffStatus(delivery), !.handle = r.handle \/ handle]

HandedOff(r, delivery, handle) ==
  [r EXCEPT
    !.status   = IF r.status = "running" THEN "running" ELSE HandoffStatus(delivery),
    !.delivery = delivery,
    !.handle   = r.handle \/ handle,
    !.attempts = IF Last(r.attempts) \in {"prepared", "submitted"}
                   THEN SetLast(r.attempts,
                          IF delivery \in {"acknowledged", "running"} THEN "acknowledged"
                          ELSE delivery)
                   ELSE r.attempts,
    !.recon    = IF delivery \in {"uncertain", "submitted"} THEN "pending" ELSE r.recon]

(* The status a result leads to: an owner rejection turns COMPLETED into FAILED. *)
StickyVerdict(r, claim) ==
  IF r.verdict = "rejected" \/ claim = "none" THEN r.verdict ELSE claim

EffectiveStatus(r, status, claim) ==
  IF StickyVerdict(r, claim) = "rejected" /\ status = "completed" THEN "failed" ELSE status

PreHandoffFailure(r, status) == status = "failed" /\ r.delivery = "not_submitted"

(* The guards of recordInvocationResult on a row that is not terminal;     *)
(* fromRecon distinguishes recordReconciledInvocationResult.               *)
MayRecord(r, status, claim, fromRecon) ==
  /\ fromRecon => r.recon = "pending" /\ r.delivery # "not_submitted"
  /\ ~fromRecon =>
       /\ \/ PreHandoffFailure(r, status)
          \/ r.delivery # "not_submitted" /\ r.status \in {"dispatched", "running"}
       /\ HasUncertainDelivery(r) => status = "blocked"
  /\ IsInvocationUpdateAllowed(r.status, EffectiveStatus(r, status, claim))

(* Slip: a running operation needs no reconciliation. *)
RecordedAsSettled(r, status, claim) ==
  LET eff == EffectiveStatus(r, status, claim)
  IN  [r EXCEPT !.status = eff, !.attempts = UpdateAttempt(r, eff),
                !.delivery = UpdateDelivery(r, eff), !.recon = "resolved",
                !.outcome = "unknown"]

Recorded(r, status, claim) ==
  LET eff == EffectiveStatus(r, status, claim)
  IN  [r EXCEPT
        !.status   = eff,
        !.verdict  = StickyVerdict(r, claim),
        !.attempts = UpdateAttempt(r, eff),
        !.delivery = UpdateDelivery(r, eff),
        !.recon    = IF eff \in {"completed", "failed"} THEN "resolved" ELSE "pending",
        !.outcome  = CASE eff = "completed" -> "performed"
                       [] eff = "failed"    -> "not_performed"
                       [] OTHER             -> "unknown",
        !.retryAttempt = IF eff = "failed" /\ r.retryAttempt < Len(r.attempts)
                           THEN Len(r.attempts) ELSE r.retryAttempt]

(* A second FAILED report that brings no new verdict: it is written only   *)
(* for the evidence it carries.                                            *)
IsDuplicateFailure(r, status, claim) ==
  /\ r.status = "failed"
  /\ EffectiveStatus(r, status, claim) = "failed"
  /\ StickyVerdict(r, claim) = r.verdict

(* markInvocationReconciliation with delivery uncertain and outcome unknown. *)
MayMark(r, status) ==
  /\ r.delivery # "not_submitted"
  /\ r.recon = "pending"
  /\ IsInvocationUpdateAllowed(r.status, status)

Marked(r, recon, status) ==
  [r EXCEPT !.status = status, !.delivery = "uncertain",
            !.attempts = UpdateAttempt(r, status),
            !.recon = recon, !.outcome = "unknown"]

(* Slip: the attempts are not counted. *)
MayRetryForever(r) ==
  /\ r.status = "failed" /\ r.desc.idempotent /\ ~HasUncertainDelivery(r)
  /\ Last(r.attempts) = "failed" /\ Len(r.attempts) < 4

(* The guards of prepareInvocationRetry, and the attempt it prepares. *)
MayRetry(r) ==
  /\ IsSafeRetryEligible(r)
  /\ r.delivery \in {"failed", "not_submitted"}
  /\ ~r.cancelRequested
  /\ Last(r.attempts) = "failed"

Retried(r, delay) ==
  [r EXCEPT !.status = "pending",
            !.retryAttempt = IF r.retryAttempt < Len(r.attempts)
                               THEN Len(r.attempts) ELSE r.retryAttempt,
            !.due = ~delay, !.backoff = delay,
            !.attempts = Append(r.attempts, "prepared"),
            !.delivery = "not_submitted", !.handle = FALSE,
            !.recon = "not_required", !.outcome = "none"]

(* What cancelMission makes of each invocation of the Mission. *)
CancelledByMission(r) ==
  CASE IsInvocationTerminal(r) -> r
    [] ~IsInvocationTerminal(r) /\ r.delivery = "not_submitted" ->
         [r EXCEPT !.status = "cancelled",
                   !.cancelRequested = TRUE, !.cancelState = "acknowledged",
                   !.attempts = [k \in DOMAIN r.attempts |->
                                   IF r.attempts[k] = "prepared" THEN "failed"
                                   ELSE r.attempts[k]]]
    [] OTHER ->
         [r EXCEPT !.cancelRequested = TRUE,
                   !.cancelState = IF r.desc.cancellation \in {"none", "unsupported"}
                                     THEN "unsupported" ELSE "requested",
                   !.recon = "pending"]

(* recordInvocationCancellationOutcome: only a hard cancellation the owner *)
(* acknowledged makes the row CANCELLED.                                   *)
MayRecordCancellation(r, state, status) ==
  /\ r.cancelRequested
  /\ \/ r.cancelState = state
     \/ r.cancelState = "requested" /\ state \in {"acknowledged", "unsupported"}
  /\ status \in {r.status, "cancelled"}
  /\ IsInvocationUpdateAllowed(r.status, status)
  /\ status = "cancelled" => r.desc.cancellation = "hard" /\ state = "acknowledged"

CancellationRecorded(r, state, status, delivery) ==
  [r EXCEPT !.status = status, !.delivery = delivery, !.cancelState = state,
            !.recon = IF status = "cancelled" THEN "resolved" ELSE "pending",
            !.outcome = IF status = "cancelled" THEN "not_performed" ELSE "unknown",
            !.attempts = UpdateAttempt(r, status)]
=============================================================================
