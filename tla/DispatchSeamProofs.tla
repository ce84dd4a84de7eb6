--------------------------- MODULE DispatchSeamProofs ---------------------------
(***************************************************************************)
(* Proofs about DispatchSeam, for every plan, set of capabilities and      *)
(* number of dispatch slots.                                               *)
(***************************************************************************)
EXTENDS DispatchSeam, SequenceTheorems, TLAPS

-----------------------------------------------------------------------------
(***************************************************************************)
(* What the engine's writes preserve of an invocation row, for any plan    *)
(* and any descriptors.                                                    *)
(***************************************************************************)
Unsent(r) == r.delivery = "not_submitted"

(* An attempt beyond the first is within the descriptor's budget; a FAILED *)
(* row has crossed the boundary or skipped it, counts its attempts, and    *)
(* waits for reconciliation only because its cancellation was requested; a *)
(* cancellation waits for the owner only beyond the boundary.              *)
Sound(r) ==
  /\ Len(r.attempts) > 0
  /\ Len(r.attempts) > 1 => r.desc.idempotent /\ Len(r.attempts) <= r.desc.maxAttempts
  /\ r.status = "failed" => /\ ~Unsent(r)
                            /\ Len(r.attempts) <= r.retryAttempt
                            /\ r.recon = "pending" => r.cancelRequested
  /\ r.cancelState = "requested" => r.cancelRequested /\ ~Unsent(r)

(* Same attempts, same step, and another state of the same effect. *)
SameAttempts(r, t) == t.step = r.step /\ Len(t.attempts) = Len(r.attempts)

(* SetLast changes no length: an attempt is settled, never added. *)
LEMMA SetLastType ==
  ASSUME NEW s \in Seq(AttemptStates), Len(s) > 0, NEW a \in AttemptStates
  PROVE  SetLast(s, a) \in Seq(AttemptStates) /\ Len(SetLast(s, a)) = Len(s)
BY ExceptSeq DEF SetLast

(* The last of some attempts is the state of an attempt. *)
LEMMA LastType ==
  ASSUME NEW s \in Seq(AttemptStates), Len(s) > 0
  PROVE  Last(s) \in AttemptStates
BY DEF Last

(* updateAttempt settles the last attempt and keeps the others. *)
LEMMA UpdateAttemptType ==
  ASSUME NEW r, NEW status, r.attempts \in Seq(AttemptStates), Len(r.attempts) > 0
  PROVE  /\ UpdateAttempt(r, status) \in Seq(AttemptStates)
         /\ Len(UpdateAttempt(r, status)) = Len(r.attempts)
<1> DEFINE a == CASE status = "failed"                   -> "failed"
                  [] status \in {"completed", "cancelled"} -> "acknowledged"
                  [] status = "blocked"                  -> "uncertain"
                  [] status = "running" /\ Last(r.attempts) = "submitted" -> "acknowledged"
                  [] OTHER                               -> Last(r.attempts)
<1>1. a \in AttemptStates
  BY LastType DEF AttemptStates
<1>2. UpdateAttempt(r, status) = SetLast(r.attempts, a)
  BY DEF UpdateAttempt
<1>3. QED
  BY <1>1, <1>2, SetLastType

(* The row dispatchStep mints is sound and has one unsent attempt. *)
LEMMA NewInvocationType ==
  ASSUME NEW steps, NEW descs, NEW s \in steps, NEW d \in descs,
         NEW r, r = NewInvocation(s, d)
  PROVE  /\ r \in Invocations(steps, descs)
         /\ Sound(r) /\ Unsent(r) /\ r.step = s /\ Len(r.attempts) = 1
         /\ r.status = "dispatched"
BY DEF NewInvocation, Invocations, Sound, Unsent, Statuses, DeliveryStates,
       AttemptStates, CancelStates, ReconStates, Outcomes, Verdicts

(* A handoff moves the attempt off "not_submitted" and adds none. *)
LEMMA HandedOffType ==
  ASSUME NEW steps, NEW descs, NEW r \in Invocations(steps, descs), Sound(r),
         NEW delivery \in DeliveryStates \ {"not_submitted"}, NEW handle \in BOOLEAN,
         NEW t, t = HandedOff(r, delivery, handle)
  PROVE  /\ t \in Invocations(steps, descs)
         /\ Sound(t) /\ ~Unsent(t) /\ SameAttempts(r, t)
         /\ t.status \in {"dispatched", "running"}
<1> DEFINE a == IF delivery \in {"acknowledged", "running"} THEN "acknowledged"
                ELSE delivery
<1>1. a \in AttemptStates
  BY DEF DeliveryStates, AttemptStates
<1>2. r.attempts \in Seq(AttemptStates) /\ Len(r.attempts) > 0
  BY DEF Invocations, Sound
<1>3. SetLast(r.attempts, a) \in Seq(AttemptStates)
      /\ Len(SetLast(r.attempts, a)) = Len(r.attempts)
  BY <1>1, <1>2, SetLastType
<1>4. t.attempts \in Seq(AttemptStates) /\ Len(t.attempts) = Len(r.attempts)
  BY <1>2, <1>3 DEF HandedOff, Invocations
<1> DEFINE h == r.handle \/ handle
<1>5. t \in Invocations(steps, descs)
  <2>1. h \in BOOLEAN
    BY DEF Invocations
  <2>2. t = [r EXCEPT !.status = t.status, !.delivery = delivery, !.handle = h,
                      !.attempts = t.attempts, !.recon = t.recon]
    BY DEF HandedOff, Invocations
  <2>3. t.status \in Statuses /\ t.recon \in ReconStates
    BY DEF HandedOff, HandoffStatus, Invocations, Statuses, ReconStates
  <2>4. QED
    <3> HIDE DEF h
    <3> QED
      BY <1>4, <2>1, <2>2, <2>3 DEF Invocations
<1>6. t.status \in {"dispatched", "running"} /\ t.delivery = delivery
      /\ t.step = r.step /\ t.desc = r.desc
      /\ t.cancelState = r.cancelState /\ t.cancelRequested = r.cancelRequested
  BY DEF HandedOff, HandoffStatus, Invocations
<1>7. QED
  BY <1>4, <1>5, <1>6 DEF Sound, Unsent, SameAttempts

(* A recorded result settles the attempt it was reported for. *)
LEMMA RecordedType ==
  ASSUME NEW steps, NEW descs, NEW r \in Invocations(steps, descs), Sound(r),
         NEW status \in {"completed", "failed", "running", "blocked"},
         NEW claim \in Verdicts,
         NEW t, t = Recorded(r, status, claim)
  PROVE  /\ t \in Invocations(steps, descs)
         /\ Sound(t) /\ ~Unsent(t) /\ SameAttempts(r, t)
<1> DEFINE eff == EffectiveStatus(r, status, claim)
<1>1. eff \in {"completed", "failed", "running", "blocked"}
  BY DEF EffectiveStatus
<1>2. r.attempts \in Seq(AttemptStates) /\ Len(r.attempts) > 0
  BY DEF Invocations, Sound
<1>3. /\ t.attempts \in Seq(AttemptStates) /\ Len(t.attempts) = Len(r.attempts)
      /\ Len(t.attempts) \in Nat
  BY <1>2, UpdateAttemptType DEF Recorded, Invocations
<1>4. t.delivery \in {"acknowledged", "failed", "running", "uncertain"}
  BY <1>1 DEF Recorded, UpdateDelivery, Invocations
<1>5. StickyVerdict(r, claim) \in Verdicts
  BY DEF StickyVerdict, Invocations, Verdicts
<1>6. /\ t.step = r.step /\ t.desc = r.desc /\ t.status = eff
      /\ t.cancelState = r.cancelState /\ t.cancelRequested = r.cancelRequested
      /\ eff = "failed" => t.recon = "resolved"
      /\ t.retryAttempt = IF eff = "failed" /\ r.retryAttempt < Len(r.attempts)
                            THEN Len(r.attempts) ELSE r.retryAttempt
  BY DEF Recorded, Invocations
<1>7. t \in Invocations(steps, descs)
  <2> DEFINE recon   == IF eff \in {"completed", "failed"} THEN "resolved" ELSE "pending"
             outcome == CASE eff = "completed" -> "performed"
                          [] eff = "failed"    -> "not_performed"
                          [] OTHER             -> "unknown"
             verdict == StickyVerdict(r, claim)
             a       == UpdateAttempt(r, eff)
             d       == UpdateDelivery(r, eff)
             n       == IF eff = "failed" /\ r.retryAttempt < Len(r.attempts)
                          THEN Len(r.attempts) ELSE r.retryAttempt
  <2>1. t = [r EXCEPT !.status = eff, !.verdict = verdict, !.attempts = a, !.delivery = d,
                      !.recon = recon, !.outcome = outcome, !.retryAttempt = n]
    BY DEF Recorded
  <2>2. n \in Nat
    BY <1>2 DEF Invocations
  <2>3. a = t.attempts /\ d = t.delivery
    BY <2>1 DEF Invocations
  <2>4. eff \in Statuses /\ recon \in ReconStates /\ outcome \in Outcomes
    BY <1>1 DEF Statuses, ReconStates, Outcomes
  <2>5. /\ a \in Seq(AttemptStates) /\ d \in DeliveryStates /\ verdict \in Verdicts
    BY <1>3, <1>4, <1>5, <2>3 DEF DeliveryStates
  <2> HIDE DEF eff, recon, outcome, verdict, a, d, n
  <2>6. t = [step |-> r.step, desc |-> r.desc, status |-> eff,
             delivery |-> d, handle |-> r.handle, attempts |-> a,
             retryAttempt |-> n, due |-> r.due, backoff |-> r.backoff,
             cancelRequested |-> r.cancelRequested, cancelState |-> r.cancelState,
             recon |-> recon, outcome |-> outcome, verdict |-> verdict]
    BY <2>1 DEF Invocations
  <2>7. /\ r.step \in steps /\ r.desc \in descs /\ r.handle \in BOOLEAN
        /\ r.due \in BOOLEAN /\ r.backoff \in BOOLEAN
        /\ r.cancelRequested \in BOOLEAN /\ r.cancelState \in CancelStates
    BY DEF Invocations
  <2>8. QED
    BY <2>2, <2>4, <2>5, <2>6, <2>7 DEF Invocations
<1>8. r.retryAttempt \in Nat
  BY DEF Invocations
<1>9. QED
  BY <1>2, <1>3, <1>4, <1>6, <1>7, <1>8 DEF Sound, Unsent, SameAttempts

(* Marking a row uncertain settles nothing and adds no attempt. *)
LEMMA MarkedType ==
  ASSUME NEW steps, NEW descs, NEW r \in Invocations(steps, descs), Sound(r),
         NEW recon \in ReconStates, NEW status \in {"failed", "blocked"},
         MayMark(r, status), status = "failed" => r.status = "failed",
         NEW t, t = Marked(r, recon, status)
  PROVE  /\ t \in Invocations(steps, descs)
         /\ Sound(t) /\ ~Unsent(t) /\ SameAttempts(r, t)
<1>1. r.attempts \in Seq(AttemptStates) /\ Len(r.attempts) > 0
  BY DEF Invocations, Sound
<1>2. t.attempts \in Seq(AttemptStates) /\ Len(t.attempts) = Len(r.attempts)
  BY <1>1, UpdateAttemptType DEF Marked, Invocations
<1>3. t \in Invocations(steps, descs)
  BY <1>2 DEF Marked, Invocations, Statuses, DeliveryStates, Outcomes
<1>4. /\ t.step = r.step /\ t.desc = r.desc /\ t.status = status
      /\ t.delivery = "uncertain" /\ t.retryAttempt = r.retryAttempt
      /\ t.cancelRequested = r.cancelRequested /\ t.cancelState = r.cancelState
  BY DEF Marked, Invocations
<1>5. QED
  BY <1>2, <1>3, <1>4 DEF Sound, Unsent, SameAttempts, MayMark

(* Only a failed, counted attempt is followed by another, within budget. *)
LEMMA RetriedType ==
  ASSUME NEW steps, NEW descs, descs \subseteq Descriptors,
         NEW r \in Invocations(steps, descs), Sound(r), MayRetry(r),
         NEW delay \in BOOLEAN,
         NEW t, t = Retried(r, delay)
  PROVE  /\ t \in Invocations(steps, descs)
         /\ Sound(t) /\ t.step = r.step /\ Len(t.attempts) = Len(r.attempts) + 1
         /\ t.status = "pending"
<1>1. /\ r.attempts \in Seq(AttemptStates) /\ Len(r.attempts) \in Nat
      /\ r.retryAttempt \in Nat /\ r.desc.maxAttempts \in Nat
  BY DEF Invocations, Descriptors
<1>2. t.attempts = Append(r.attempts, "prepared")
  BY DEF Retried, Invocations
<1>3. t.attempts \in Seq(AttemptStates) /\ Len(t.attempts) = Len(r.attempts) + 1
  BY <1>1, <1>2 DEF AttemptStates
<1>4. t \in Invocations(steps, descs)
  <2> DEFINE n == IF r.retryAttempt < Len(r.attempts) THEN Len(r.attempts) ELSE r.retryAttempt
             a == Append(r.attempts, "prepared")
             due == ~delay
  <2>1. n \in Nat /\ a \in Seq(AttemptStates) /\ due \in BOOLEAN
    BY <1>1, <1>2, <1>3
  <2>2. t = [r EXCEPT !.status = "pending", !.retryAttempt = n, !.due = due,
                      !.backoff = delay, !.attempts = a,
                      !.delivery = "not_submitted", !.handle = FALSE,
                      !.recon = "not_required", !.outcome = "none"]
    BY DEF Retried
  <2> HIDE DEF n, a, due
  <2>3. t = [step |-> r.step, desc |-> r.desc, status |-> "pending",
             delivery |-> "not_submitted", handle |-> FALSE, attempts |-> a,
             retryAttempt |-> n, due |-> due, backoff |-> delay,
             cancelRequested |-> r.cancelRequested, cancelState |-> r.cancelState,
             recon |-> "not_required", outcome |-> "none", verdict |-> r.verdict]
    BY <2>2, ZenonT(60) DEF Invocations
  <2>4. /\ r.step \in steps /\ r.desc \in descs /\ r.cancelRequested \in BOOLEAN
        /\ r.cancelState \in CancelStates /\ r.verdict \in Verdicts
    BY DEF Invocations
  <2>5. /\ "pending" \in Statuses /\ "not_submitted" \in DeliveryStates
        /\ "not_required" \in ReconStates /\ "none" \in Outcomes
    BY DEF Statuses, DeliveryStates, ReconStates, Outcomes
  <2>6. QED
    BY <2>1, <2>3, <2>4, <2>5 DEF Invocations
<1>5. /\ t.step = r.step /\ t.desc = r.desc /\ t.status = "pending"
      /\ t.cancelState = r.cancelState /\ ~r.cancelRequested
  BY DEF Retried, Invocations, MayRetry
<1>6. r.status = "failed" /\ r.desc.idempotent /\ r.retryAttempt < r.desc.maxAttempts
  BY DEF MayRetry, IsSafeRetryEligible
<1>7. QED
  BY <1>1, <1>3, <1>4, <1>5, <1>6 DEF Sound

(* cancelMission leaves every attempt where it is. *)
LEMMA CancelledByMissionType ==
  ASSUME NEW steps, NEW descs, NEW r \in Invocations(steps, descs), Sound(r),
         NEW t, t = CancelledByMission(r)
  PROVE  /\ t \in Invocations(steps, descs)
         /\ Sound(t) /\ SameAttempts(r, t) /\ t.delivery = r.delivery
         /\ t.status \in {r.status, "cancelled"}
         /\ r.cancelRequested => t.cancelRequested
<1>1. r.attempts \in Seq(AttemptStates) /\ Len(r.attempts) \in Nat
  BY DEF Invocations
<1>2. CASE IsInvocationTerminal(r)
  BY <1>2 DEF CancelledByMission, SameAttempts
<1>3. CASE ~IsInvocationTerminal(r) /\ r.delivery = "not_submitted"
  <2> DEFINE a == [k \in DOMAIN r.attempts |->
                     IF r.attempts[k] = "prepared" THEN "failed" ELSE r.attempts[k]]
  <2>1. a \in Seq(AttemptStates) /\ Len(a) = Len(r.attempts)
    BY <1>1 DEF AttemptStates
  <2>2. t = [r EXCEPT !.status = "cancelled", !.cancelRequested = TRUE,
                      !.cancelState = "acknowledged", !.attempts = a]
    BY <1>3 DEF CancelledByMission
  <2> HIDE DEF a
  <2>3. t \in Invocations(steps, descs)
    BY <2>1, <2>2 DEF Invocations, Statuses, CancelStates
  <2>4. /\ t.step = r.step /\ t.desc = r.desc /\ t.delivery = r.delivery
        /\ t.status = "cancelled" /\ t.cancelState = "acknowledged" /\ t.cancelRequested
        /\ t.retryAttempt = r.retryAttempt /\ Len(t.attempts) = Len(r.attempts)
    BY <2>1, <2>2 DEF Invocations
  <2>5. QED
    BY <2>3, <2>4 DEF Sound, Unsent, SameAttempts
<1>4. CASE ~IsInvocationTerminal(r) /\ r.delivery # "not_submitted"
  <2> DEFINE c == IF r.desc.cancellation \in {"none", "unsupported"}
                    THEN "unsupported" ELSE "requested"
  <2>1. t = [r EXCEPT !.cancelRequested = TRUE, !.cancelState = c, !.recon = "pending"]
    BY <1>4 DEF CancelledByMission
  <2> HIDE DEF c
  <2>2. t \in Invocations(steps, descs)
    BY <2>1 DEF Invocations, CancelStates, ReconStates, c
  <2>3. /\ t.step = r.step /\ t.desc = r.desc /\ t.delivery = r.delivery
        /\ t.status = r.status /\ t.cancelRequested /\ t.attempts = r.attempts
        /\ t.retryAttempt = r.retryAttempt
    BY <2>1 DEF Invocations
  <2>4. QED
    BY <1>4, <2>2, <2>3 DEF Sound, Unsent, SameAttempts
<1>5. QED
  BY <1>2, <1>3, <1>4

(* A cancellation outcome belongs to a requested cancellation. *)
LEMMA CancellationRecordedType ==
  ASSUME NEW steps, NEW descs, NEW r \in Invocations(steps, descs), Sound(r),
         r.cancelRequested, NEW state \in CancelStates,
         NEW status \in {r.status, "cancelled"},
         NEW delivery \in DeliveryStates \ {"not_submitted"},
         NEW t, t = CancellationRecorded(r, state, status, delivery)
  PROVE  /\ t \in Invocations(steps, descs)
         /\ Sound(t) /\ ~Unsent(t) /\ SameAttempts(r, t)
<1>1. r.attempts \in Seq(AttemptStates) /\ Len(r.attempts) > 0
  BY DEF Invocations, Sound
<1>2. t.attempts \in Seq(AttemptStates) /\ Len(t.attempts) = Len(r.attempts)
  BY <1>1, UpdateAttemptType DEF CancellationRecorded, Invocations
<1>3. t \in Invocations(steps, descs)
  BY <1>2 DEF CancellationRecorded, Invocations, Statuses, ReconStates, Outcomes
<1>4. /\ t.step = r.step /\ t.desc = r.desc /\ t.status = status
      /\ t.delivery = delivery /\ t.retryAttempt = r.retryAttempt
      /\ t.cancelRequested
  BY DEF CancellationRecorded, Invocations
<1>5. QED
  BY <1>2, <1>3, <1>4 DEF Sound, Unsent, SameAttempts

(* The store keeps the row or takes the whole new one. *)
LEMMA StoreWriteChoice ==
  ASSUME NEW r, NEW t
  PROVE  \/ StoreWrite(r, t) = r
         \/ StoreWrite(r, t) = t /\ ~IsInvocationTerminal(r)
BY DEF StoreWrite, StoreAccepts, IsInvocationTerminal, IsInvocationUpdateAllowed

-----------------------------------------------------------------------------
(***************************************************************************)
(* The invariant of the seam: good rows, good calls, and everything else   *)
(* in its range.                                                           *)
(***************************************************************************)

Invocation == Invocations(Steps, Capabilities)

RowsGood ==
  /\ rows \in [Effects -> StoredRows]
  /\ \A e \in Effects :
       rows[e] # NoRow => Sound(rows[e]) /\ EffectOf[rows[e].step] = e

(* A call that is past the mint is about a row that exists, it carries a   *)
(* result where one is recorded, and a row where it remembers one.         *)
CallGood(c, rs) ==
  /\ c.pc # "idle" => c.step \in Steps
  /\ c.pc \notin {"idle", "mint", "raised"} => rs[EffectOf[c.step]] # NoRow
  /\ c.pc \in {"handle", "record", "write"} => c.todo.status # "none"
  /\ c.pc = "handle" => c.todo.handle # "none"
  /\ c.pc \in {"write", "cancelwait"} => /\ c.snap # NoRow /\ Sound(c.snap)
                                         /\ EffectOf[c.snap.step] = EffectOf[c.step]
  /\ c.pc = "cancelwait" => ~Unsent(c.snap)

CallsGood ==
  /\ call \in [Dispatchers -> Calls]
  /\ \A d \in Dispatchers : CallGood(call[d], rows)

RestGood ==
  /\ mission \in MissionStates
  /\ resumeTo \in MissionStates \ {"paused", "cancelled"}
  /\ available \in BOOLEAN
  /\ owner \in [Effects -> OwnerStates]
  /\ invokes \in [Effects -> Nat]
  /\ agenda \in [Dispatchers -> SUBSET (Steps \cup {NoStep})]

SeamInv == RowsGood /\ CallsGood /\ RestGood

(* Rows stay good and none disappears. *)
RowsStep == RowsGood' /\ \A e \in Effects : rows[e] # NoRow => rows'[e] # NoRow

-----------------------------------------------------------------------------
(* A row that is there is an invocation. *)
LEMMA StoredRow ==
  ASSUME NEW r \in StoredRows, r # NoRow PROVE r \in Invocation
BY DEF StoredRows, Invocation

(* Writing a good row of an effect keeps the table good. *)
LEMMA PutRow ==
  ASSUME RowsGood, NEW e \in Effects, NEW t \in Invocation, Sound(t), EffectOf[t.step] = e,
         rows' = [rows EXCEPT ![e] = t]
  PROVE  RowsStep
<1>1. t # NoRow /\ t \in StoredRows
  BY NoRowAssumption DEF Invocation, StoredRows
<1>2. QED
  BY <1>1 DEF RowsGood, RowsStep

(* So does writing it through the store. *)
LEMMA PutStored ==
  ASSUME RowsGood, NEW e \in Effects, rows[e] # NoRow, NEW t \in Invocation, Sound(t),
         EffectOf[t.step] = e,
         rows' = [rows EXCEPT ![e] = StoreWrite(rows[e], t)]
  PROVE  RowsStep
<1>1. rows[e] \in Invocation /\ Sound(rows[e]) /\ EffectOf[rows[e].step] = e
  BY StoredRow DEF RowsGood
<1>2. StoreWrite(rows[e], t) = rows[e] \/ StoreWrite(rows[e], t) = t
  BY StoreWriteChoice
<1>3. QED
  BY <1>1, <1>2, PutRow

(* Rows that are left alone stay good. *)
LEMMA SameRows ==
  ASSUME RowsGood, rows' = rows PROVE RowsStep
BY DEF RowsGood, RowsStep

(* One dispatcher's new call is good, the other calls stay good. *)
LEMMA CallStep ==
  ASSUME CallsGood, RowsStep, NEW d \in Dispatchers, NEW c \in Calls,
         CallGood(c, rows'), call' = [call EXCEPT ![d] = c]
  PROVE  CallsGood'
<1>1. call' \in [Dispatchers -> Calls]
  BY DEF CallsGood
<1>2. ASSUME NEW b \in Dispatchers PROVE CallGood(call'[b], rows')
  <2>1. CASE b = d
    BY <2>1 DEF CallsGood
  <2>2. CASE b # d
    <3>1. call'[b] = call[b] /\ CallGood(call[b], rows) /\ call[b] \in Calls
      BY <2>2 DEF CallsGood
    <3>2. call[b].pc # "idle" => EffectOf[call[b].step] \in Effects
      BY <3>1, StepsAssumption DEF CallGood
    <3>3. QED
      BY <3>1, <3>2 DEF CallGood, RowsStep
  <2>3. QED
    BY <2>1, <2>2
<1>3. QED
  BY <1>1, <1>2 DEF CallsGood

(* Calls that are left alone stay good. *)
LEMMA SameCalls ==
  ASSUME CallsGood, RowsStep, call' = call PROVE CallsGood'
<1>1. ASSUME NEW b \in Dispatchers PROVE CallGood(call'[b], rows')
  <2>1. call'[b] = call[b] /\ CallGood(call[b], rows) /\ call[b] \in Calls
    BY DEF CallsGood
  <2>2. call[b].pc # "idle" => EffectOf[call[b].step] \in Effects
    BY <2>1, StepsAssumption DEF CallGood
  <2>3. QED
    BY <2>1, <2>2 DEF CallGood, RowsStep
<1>2. QED
  BY <1>1 DEF CallsGood

(* An idle call is good. *)
LEMMA IdleIsGood == IdleCall \in Calls /\ CallGood(IdleCall, rows')
BY DEF IdleCall, Calls, CallGood, StoredRows, NoTodo, Todos, PCs, Verdicts

(* The call returns. *)
LEMMA FinishStep ==
  ASSUME CallsGood, RowsStep, NEW d \in Dispatchers, Finish(d)
  PROVE  CallsGood'
BY IdleIsGood, CallStep DEF Finish

(* The call goes on, with what it knows. *)
LEMMA GotoStep ==
  ASSUME CallsGood, RowsStep, NEW d \in Dispatchers, NEW pc \in PCs,
         call' = [call EXCEPT ![d].pc = pc],
         CallGood([call[d] EXCEPT !.pc = pc], rows')
  PROVE  CallsGood'
<1> DEFINE c == [call[d] EXCEPT !.pc = pc]
<1>1. c \in Calls /\ call' = [call EXCEPT ![d] = c]
  BY DEF CallsGood, Calls
<1>2. QED
  BY <1>1, CallStep

(* What is known of a call that is past the mint. *)
LEMMA RunningCall ==
  ASSUME SeamInv, NEW d \in Dispatchers, call[d].pc \notin {"idle", "mint", "raised"}
  PROVE  /\ call[d] \in Calls /\ CallGood(call[d], rows) /\ call[d].step \in Steps
         /\ EffectAt(d) \in Effects
         /\ Row(d) \in Invocation /\ Row(d) # NoRow /\ Sound(Row(d))
         /\ EffectOf[Row(d).step] = EffectAt(d)
<1>1. call[d] \in Calls /\ CallGood(call[d], rows)
  BY DEF SeamInv, CallsGood
<1>2. call[d].step \in Steps /\ Row(d) # NoRow
  BY <1>1 DEF CallGood, Row, EffectAt
<1>3. EffectAt(d) \in Effects
  BY <1>2, StepsAssumption DEF EffectAt
<1>4. /\ Row(d) \in Invocation /\ Sound(Row(d))
      /\ EffectOf[Row(d).step] = EffectAt(d)
  BY <1>2, <1>3, StoredRow DEF SeamInv, RowsGood, Row
<1>5. QED
  BY <1>1, <1>2, <1>3, <1>4

(* A call that has a row goes on to a point that asks for no more. *)
LEMMA GoOn ==
  ASSUME SeamInv, RowsStep, NEW d \in Dispatchers,
         call[d].pc \notin {"idle", "mint", "raised"},
         NEW pc \in PCs \ {"write", "cancelwait", "handle", "record"}, Goto(d, pc)
  PROVE  CallsGood'
<1>1. call[d] \in Calls /\ call[d].step \in Steps /\ rows'[EffectOf[call[d].step]] # NoRow
  BY RunningCall DEF RowsStep, Row, EffectAt
<1>2. CallGood([call[d] EXCEPT !.pc = pc], rows')
  BY <1>1 DEF CallGood, Calls
<1>3. QED
  BY <1>2, GotoStep DEF SeamInv, Goto

(* A call raises, whatever it was doing. *)
LEMMA Raise ==
  ASSUME SeamInv, RowsStep, NEW d \in Dispatchers, call[d].pc # "idle",
         Goto(d, "raised")
  PROVE  CallsGood'
<1>1. call[d] \in Calls /\ call[d].step \in Steps
  BY DEF SeamInv, CallsGood, CallGood
<1>2. CallGood([call[d] EXCEPT !.pc = "raised"], rows')
  BY <1>1 DEF CallGood, Calls
<1>3. QED
  BY <1>2, GotoStep DEF SeamInv, Goto, PCs

(* A call starts: with the row of its step, unless it starts at the mint. *)
LEMMA StartStep ==
  ASSUME SeamInv, RowsStep, NEW d \in Dispatchers, NEW s \in Steps,
         NEW pc \in PCs \ {"idle", "write", "cancelwait", "handle", "record"},
         pc \in {"mint", "raised"} \/ rows'[EffectOf[s]] # NoRow, Start(d, pc, s)
  PROVE  CallsGood'
<1> DEFINE c == [IdleCall EXCEPT !.pc = pc, !.step = s]
<1>1. c \in Calls /\ CallGood(c, rows')
  BY IdleIsGood DEF IdleCall, Calls, CallGood
<1>2. QED
  BY <1>1, CallStep DEF SeamInv, Start

(* waitForCapability moves the Mission between its states. *)
LEMMA WaitStep ==
  ASSUME RestGood, WaitForCapability
  PROVE  mission' \in MissionStates /\ resumeTo' \in MissionStates \ {"paused", "cancelled"}
BY DEF RestGood, WaitForCapability, MissionStates

-----------------------------------------------------------------------------
(* The third part of a pass, up to the handoff. *)

(* Selecting work keeps the invariant. *)
LEMMA ScanMissionStep ==
  ASSUME SeamInv, NEW d \in Dispatchers, ScanMission(d) PROVE SeamInv'
<1>1. RowsStep /\ CallsGood'
  BY SameRows, SameCalls DEF SeamInv, ScanMission
<1>2. CASE available
  <2>1. PICK A \in SUBSET ReadySteps \ {{}} : agenda' = [agenda EXCEPT ![d] = A]
    BY <1>2 DEF ScanMission
  <2>2. agenda' \in [Dispatchers -> SUBSET (Steps \cup {NoStep})]
    BY <2>1 DEF SeamInv, RestGood, ReadySteps
  <2>3. QED
    BY <1>1, <1>2, <2>2 DEF ScanMission, SeamInv, RowsStep, RestGood, worldVars, MissionStates
<1>3. CASE ~available
  <2>1. WaitForCapability /\ agenda' = agenda
    BY <1>3 DEF ScanMission
  <2>2. QED
    BY <1>1, <2>1, WaitStep DEF ScanMission, SeamInv, RowsStep, RestGood, worldVars
<1>4. QED
  BY <1>2, <1>3

(* The gates keep the invariant. *)
LEMMA GateStepStep ==
  ASSUME SeamInv, NEW d \in Dispatchers, NEW s \in Steps, GateStep(d, s) PROVE SeamInv'
<1>1. RowsStep
  BY SameRows DEF SeamInv, GateStep
<1>2. agenda' \in [Dispatchers -> SUBSET (Steps \cup {NoStep})]
  BY DEF SeamInv, RestGood, GateStep
<1>3. CASE ~available
  <2>1. CallsGood'
    BY <1>1, <1>3, SameCalls DEF SeamInv, GateStep
  <2>2. QED
    BY <1>1, <1>2, <2>1 DEF GateStep, SeamInv, RowsStep, RestGood, worldVars, missionVars
<1>4. CASE available
  <2> DEFINE r == rows[EffectOf[s]]
             pc == CASE ~MissionRuns -> "raised"
                     [] MissionRuns /\ r = NoRow -> "mint"
                     [] MissionRuns /\ r # NoRow /\ r.step # s
                          /\ r.status = "completed" -> "handoff"
                     [] OTHER -> "raised"
  <2>1. Start(d, pc, s)
    BY <1>4 DEF GateStep
  <2>2. \/ pc \in {"raised", "mint"}
        \/ pc = "handoff" /\ rows'[EffectOf[s]] # NoRow
    BY DEF GateStep
  <2>3. CallsGood'
    <3> HIDE DEF pc
    <3>1. pc \in PCs \ {"idle", "write", "cancelwait", "handle", "record"}
      BY <2>2 DEF PCs
    <3>2. QED
      BY <1>1, <2>1, <2>2, <3>1, StartStep
  <2>4. QED
    BY <1>1, <1>2, <2>3 DEF GateStep, SeamInv, RowsStep, RestGood, worldVars, missionVars
<1>5. QED
  BY <1>3, <1>4

(* The wait at the end of the scan keeps the invariant. *)
LEMMA EndScanStep ==
  ASSUME SeamInv, NEW d \in Dispatchers, EndScan(d) PROVE SeamInv'
<1>1. RowsStep /\ CallsGood'
  BY SameRows, SameCalls DEF SeamInv, EndScan
<1>2. agenda' \in [Dispatchers -> SUBSET (Steps \cup {NoStep})]
  BY DEF EndScan, SeamInv, RestGood
<1>3. QED
  BY <1>1, <1>2, WaitStep DEF EndScan, SeamInv, RowsStep, RestGood, worldVars

(* The mint adds a good row, or goes on with the one it finds. *)
LEMMA MintStep ==
  ASSUME SeamInv, NEW d \in Dispatchers, Mint(d) PROVE SeamInv'
<1>1. call[d] \in Calls /\ call[d].step \in Steps /\ EffectAt(d) \in Effects
  BY StepsAssumption DEF SeamInv, CallsGood, CallGood, Mint, EffectAt
<1>2. CASE Row(d) = NoRow
  <2>1. PICK desc \in Capabilities : Put(d, NewInvocation(call[d].step, desc))
    BY <1>2 DEF Mint
  <2> DEFINE t == NewInvocation(call[d].step, desc)
  <2>2. t \in Invocation /\ Sound(t) /\ EffectOf[t.step] = EffectAt(d)
    BY <1>1, NewInvocationType DEF Invocation, EffectAt
  <2>3. rows' = [rows EXCEPT ![EffectAt(d)] = t]
    BY <2>1 DEF Put
  <2>4. RowsStep
    <3> HIDE DEF t
    <3> QED
      BY <1>1, <2>2, <2>3, PutRow DEF SeamInv
  <2>5. rows'[EffectAt(d)] # NoRow
    BY <1>1, <2>2, <2>3, NoRowAssumption DEF SeamInv, RowsGood, Invocation
  <2>6. CallGood([call[d] EXCEPT !.pc = "handoff"], rows')
    BY <1>1, <2>5 DEF CallGood, Calls, EffectAt
  <2>7. CallsGood'
    BY <1>2, <2>4, <2>6, GotoStep DEF SeamInv, Mint, Goto, PCs
  <2>8. QED
    BY <1>2, <2>4, <2>7 DEF Mint, SeamInv, RowsStep, RestGood, worldVars, MissionStates
<1>3. CASE Row(d) # NoRow
  <2>1. RowsStep
    BY <1>3, SameRows DEF SeamInv, Mint
  <2> DEFINE pc == IF Row(d).status = "completed" THEN "handoff" ELSE "raised"
  <2>2. CallGood([call[d] EXCEPT !.pc = pc], rows')
    BY <1>1, <1>3 DEF CallGood, Calls, EffectAt, Row, Mint
  <2>3. CallsGood'
    BY <1>3, <2>1, <2>2, GotoStep DEF SeamInv, Mint, Goto, PCs
  <2>4. QED
    BY <1>3, <2>1, <2>3 DEF Mint, SeamInv, RowsStep, RestGood, worldVars
<1>4. QED
  BY <1>2, <1>3

(* The refusal of an input is recorded like a failure. *)
LEMMA RejectInputStep ==
  ASSUME SeamInv, NEW d \in Dispatchers, RejectInput(d) PROVE SeamInv'
<1> DEFINE t == [NoTodo EXCEPT !.status = "failed", !.swallow = TRUE, !.raise = TRUE]
           c == [call[d] EXCEPT !.pc = "record", !.todo = t]
<1>1. RowsStep /\ rows' = rows
  BY SameRows DEF SeamInv, RejectInput
<1>2. call[d] \in Calls /\ call[d].step \in Steps /\ rows'[EffectOf[call[d].step]] # NoRow
  BY <1>1, RunningCall DEF RejectInput, Row, EffectAt
<1>3. t \in Todos /\ t.status = "failed"
  BY DEF NoTodo, Todos, Verdicts
<1>4. c \in Calls /\ CallGood(c, rows')
  <2> HIDE DEF t
  <2> QED
    BY <1>2, <1>3 DEF Calls, CallGood, PCs
<1>5. call' = [call EXCEPT ![d] = c]
  BY DEF RejectInput, SeamInv, CallsGood, Calls
<1>6. CallsGood'
  <2> HIDE DEF c
  <2> QED
    BY <1>1, <1>4, <1>5, CallStep DEF SeamInv
<1>7. QED
  BY <1>1, <1>6 DEF RejectInput, SeamInv, RowsStep, RestGood, missionVars, worldVars

-----------------------------------------------------------------------------
(* The boundary. *)

(* A handoff leaves a good table. *)
LEMMA HandoffToRows ==
  ASSUME SeamInv, NEW d \in Dispatchers, call[d].pc \notin {"idle", "mint", "raised"},
         NEW delivery \in DeliveryStates \ {"not_submitted"}, NEW handle \in BOOLEAN,
         NEW next, HandoffTo(d, delivery, handle, next)
  PROVE  RowsStep /\ (Goto(d, next) \/ Goto(d, "raised"))
<1>1. /\ EffectAt(d) \in Effects /\ Row(d) \in Invocation
      /\ Row(d) # NoRow /\ Sound(Row(d)) /\ EffectOf[Row(d).step] = EffectAt(d)
  BY RunningCall
<1>2. CASE rows' = rows
  BY <1>2, SameRows DEF HandoffTo, SeamInv
<1>3. CASE Put(d, StoreWrite(Row(d), HandedOff(Row(d), delivery, handle)))
  <2> DEFINE t == HandedOff(Row(d), delivery, handle)
  <2>1. t \in Invocation /\ Sound(t) /\ EffectOf[t.step] = EffectAt(d)
    BY <1>1, HandedOffType DEF Invocation, SameAttempts
  <2>2. rows' = [rows EXCEPT ![EffectAt(d)] = StoreWrite(rows[EffectAt(d)], t)]
    BY <1>3 DEF Put, Row
  <2>3. RowsStep
    <3> HIDE DEF t
    <3> QED
      BY <1>1, <2>1, <2>2, PutStored DEF SeamInv, Row
  <2>4. QED
    BY <2>3 DEF HandoffTo
<1>4. QED
  BY <1>2, <1>3 DEF HandoffTo

(* The handoff keeps the invariant. *)
LEMMA HandoffStep ==
  ASSUME SeamInv, NEW d \in Dispatchers, Handoff(d) PROVE SeamInv'
<1>1. RowsStep /\ (Goto(d, "invoke") \/ Goto(d, "raised"))
  BY HandoffToRows DEF Handoff, DeliveryStates
<1>2. CallsGood'
  BY <1>1, GoOn, Raise DEF Handoff, PCs
<1>3. QED
  BY <1>1, <1>2 DEF Handoff, SeamInv, RowsStep, RestGood, missionVars, worldVars

(* So does the persisting of the owner's reference. *)
LEMMA PersistHandleStep ==
  ASSUME SeamInv, NEW d \in Dispatchers, PersistHandle(d) PROVE SeamInv'
<1>1. /\ call[d] \in Calls /\ CallGood(call[d], rows) /\ call[d].step \in Steps
      /\ Row(d) # NoRow /\ EffectAt(d) \in Effects
  BY RunningCall DEF PersistHandle
<1>2. call[d].todo.handle \in DeliveryStates \ {"not_submitted"}
  BY <1>1 DEF PersistHandle, CallGood, Calls, Todos, DeliveryStates
<1>3. RowsStep /\ (Goto(d, "record") \/ Goto(d, "raised"))
  BY <1>2, HandoffToRows DEF PersistHandle
<1>4. CASE Goto(d, "record")
  <2>1. CallGood([call[d] EXCEPT !.pc = "record"], rows')
    BY <1>1, <1>3 DEF CallGood, Calls, RowsStep, Row, EffectAt, PersistHandle
  <2>2. CallsGood'
    BY <1>3, <1>4, <2>1, GotoStep DEF SeamInv, Goto, PCs
  <2>3. QED
    BY <1>3, <2>2 DEF PersistHandle, SeamInv, RowsStep, RestGood, missionVars, worldVars
<1>5. CASE Goto(d, "raised")
  <2>1. CallsGood'
    BY <1>3, <1>5, Raise DEF PersistHandle
  <2>2. QED
    BY <1>3, <2>1 DEF PersistHandle, SeamInv, RowsStep, RestGood, missionVars, worldVars
<1>6. QED
  BY <1>3, <1>4, <1>5

(* The call of the connector counts itself. *)
LEMMA InvokeStep ==
  ASSUME SeamInv, NEW d \in Dispatchers, Invoke(d) PROVE SeamInv'
<1>1. RowsStep /\ EffectAt(d) \in Effects
  BY SameRows, RunningCall DEF SeamInv, Invoke
<1>2. CallsGood'
  BY <1>1, GoOn DEF Invoke, PCs
<1>3. invokes' \in [Effects -> Nat] /\ owner' \in [Effects -> OwnerStates]
  BY <1>1 DEF Invoke, SeamInv, RestGood, OwnerStates
<1>4. QED
  BY <1>1, <1>2, <1>3 DEF Invoke, SeamInv, RowsStep, RestGood, missionVars

(* What the seam makes of an answer is something to record. *)
LEMMA TodoOfType ==
  ASSUME NEW res \in Results, NEW desc
  PROVE  TodoOf(res, desc) \in Todos /\ TodoOf(res, desc).status # "none"
<1> DEFINE h == HandleDelivery(res)
           b == CASE ~res.usable -> Uncertain(TRUE)
                  [] res.verdict = "rejected" ->
                       [NoTodo EXCEPT !.status = "failed", !.claim = "rejected"]
                  [] res.usable /\ Unverified(res, desc) -> Uncertain(FALSE)
                  [] OTHER ->
                       [NoTodo EXCEPT !.status = InvocationStatusFor(res),
                                      !.claim = IF res.verdict = "verified" THEN "verified" ELSE "none"]
<1>1. h \in {"none", "acknowledged", "running", "uncertain"}
  BY DEF HandleDelivery
<1>2. InvocationStatusFor(res) \in {"completed", "failed", "running", "blocked"}
  BY DEF InvocationStatusFor, Results
<1>3. b \in Todos /\ b.status # "none"
  BY <1>2 DEF Uncertain, NoTodo, Todos, Verdicts
<1>4. TodoOf(res, desc) = [b EXCEPT !.handle = h]
  BY DEF TodoOf
<1>5. QED
  <2> HIDE DEF b, h
  <2> QED
    BY <1>1, <1>3, <1>4 DEF Todos

(* An answer keeps the invariant. *)
LEMMA InvokeReturnsStep ==
  ASSUME SeamInv, NEW d \in Dispatchers, InvokeReturns(d) PROVE SeamInv'
<1>1. RowsStep /\ rows' = rows
  BY SameRows DEF SeamInv, InvokeReturns
<1>2. call[d] \in Calls /\ call[d].step \in Steps /\ rows'[EffectOf[call[d].step]] # NoRow
  BY <1>1, RunningCall DEF InvokeReturns, Row, EffectAt
<1>3. PICK res \in Results :
        LET todo == TodoOf(res, Row(d).desc)
        IN  call' = [call EXCEPT ![d].todo = todo,
                       ![d].pc = IF todo.handle = "none" THEN "record" ELSE "handle"]
  BY DEF InvokeReturns
<1> DEFINE t == TodoOf(res, Row(d).desc)
           pc == IF t.handle = "none" THEN "record" ELSE "handle"
           c == [call[d] EXCEPT !.todo = t, !.pc = pc]
<1>4. t \in Todos /\ t.status # "none"
  BY TodoOfType
<1>5. call' = [call EXCEPT ![d] = c]
  <2> HIDE DEF t
  <2> QED
    BY <1>3 DEF t, SeamInv, CallsGood, Calls
<1>6. c \in Calls /\ CallGood(c, rows')
  <2> HIDE DEF t
  <2> QED
    BY <1>2, <1>4 DEF Calls, CallGood, PCs
<1>7. CallsGood'
  <2> HIDE DEF c
  <2> QED
    BY <1>1, <1>5, <1>6, CallStep DEF SeamInv
<1>8. QED
  BY <1>1, <1>7 DEF InvokeReturns, SeamInv, RowsStep, RestGood, missionVars, worldVars

-----------------------------------------------------------------------------
(* Recording a result. *)

(* The first read of recordInvocationResult keeps the invariant. *)
LEMMA ReadForRecordStep ==
  ASSUME SeamInv, NEW d \in Dispatchers, ReadForRecord(d) PROVE SeamInv'
<1> DEFINE c == [call[d] EXCEPT !.pc = "write", !.snap = Row(d)]
<1>1. RowsStep /\ rows' = rows
  BY SameRows DEF SeamInv, ReadForRecord
<1>2. /\ call[d] \in Calls /\ CallGood(call[d], rows) /\ call[d].step \in Steps
      /\ Row(d) \in StoredRows /\ Row(d) # NoRow /\ Sound(Row(d))
      /\ EffectOf[Row(d).step] = EffectAt(d)
  BY RunningCall DEF ReadForRecord, StoredRows, Invocation
<1>3. c \in Calls /\ CallGood(c, rows')
  BY <1>1, <1>2 DEF Calls, CallGood, PCs, ReadForRecord, Row, EffectAt
<1>4. call' = [call EXCEPT ![d] = c]
  BY DEF ReadForRecord, SeamInv, CallsGood, Calls
<1>5. CallsGood'
  <2> HIDE DEF c
  <2> QED
    BY <1>1, <1>3, <1>4, CallStep DEF SeamInv
<1>6. QED
  BY <1>1, <1>5 DEF ReadForRecord, SeamInv, RowsStep, RestGood, missionVars, worldVars

(* After a refusal the seam records less, or nothing. *)
LEMMA AfterRefusalGood ==
  ASSUME NEW c \in Calls, c.pc = "write", CallGood(c, rows), RowsStep
  PROVE  AfterRefusal(c) \in Calls /\ CallGood(AfterRefusal(c), rows')
<1>1. /\ c.step \in Steps /\ EffectOf[c.step] \in Effects
      /\ rows'[EffectOf[c.step]] # NoRow /\ c.todo \in Todos /\ c.todo.status # "none"
  BY StepsAssumption DEF CallGood, RowsStep, Calls
<1> DEFINE bare == [c.todo EXCEPT !.claim = "none"]
<1>2. bare \in Todos /\ bare.status # "none"
  BY <1>1 DEF Todos, Verdicts
<1>3. Uncertain(FALSE) \in Todos /\ Uncertain(FALSE).status # "none"
  BY DEF Uncertain, NoTodo, Todos, Verdicts
<1> DEFINE supplementary == c.todo.claim = "verified" /\ ~c.snap.desc.mustVerify
<1>4. CASE supplementary
  <2>1. AfterRefusal(c) = [c EXCEPT !.pc = "record", !.todo = bare]
    BY <1>4 DEF AfterRefusal
  <2>2. QED
    <3> HIDE DEF bare
    <3> QED
      BY <1>1, <1>2, <2>1 DEF Calls, CallGood, PCs
<1>5. CASE ~supplementary /\ c.todo.recon
  <2>1. AfterRefusal(c) = [c EXCEPT !.pc = "remark"]
    BY <1>5 DEF AfterRefusal
  <2>2. QED
    BY <1>1, <2>1 DEF Calls, CallGood, PCs
<1>6. CASE ~supplementary /\ ~c.todo.recon /\ c.todo.claim # "none"
  <2>1. AfterRefusal(c) = [c EXCEPT !.pc = "record", !.todo = Uncertain(FALSE)]
    BY <1>6 DEF AfterRefusal
  <2>2. QED
    BY <1>1, <1>3, <2>1 DEF Calls, CallGood, PCs
<1>7. CASE ~supplementary /\ ~c.todo.recon /\ c.todo.claim = "none"
  <2>1. AfterRefusal(c) = IdleCall \/ AfterRefusal(c) = [c EXCEPT !.pc = "raised"]
    BY <1>7 DEF AfterRefusal
  <2>2. QED
    BY <1>1, <2>1, IdleIsGood DEF Calls, CallGood, PCs
<1>8. QED
  BY <1>4, <1>5, <1>6, <1>7

(* The write built from a read that may be stale keeps the table good. *)
LEMMA WriteRecordStep ==
  ASSUME SeamInv, NEW d \in Dispatchers, WriteRecord(d) PROVE SeamInv'
<1>1. /\ call[d] \in Calls /\ CallGood(call[d], rows) /\ call[d].step \in Steps
      /\ Row(d) # NoRow /\ EffectAt(d) \in Effects /\ call[d].pc = "write"
  BY RunningCall DEF WriteRecord
<1> DEFINE s == call[d].snap
           t == call[d].todo
<1>2. /\ s \in Invocation /\ Sound(s) /\ t.claim \in Verdicts
      /\ EffectOf[s.step] = EffectAt(d)
      /\ t.status \in {"completed", "failed", "running", "blocked"}
  BY <1>1, StoredRow DEF CallGood, Calls, Todos, EffectAt
<1>3. /\ Recording(d) \in Invocation /\ Sound(Recording(d))
      /\ EffectOf[Recording(d).step] = EffectAt(d)
  <2>1. Recording(d) = Recorded(s, t.status, t.claim)
    BY DEF Recording
  <2> HIDE DEF s, t
  <2>2. /\ Recording(d) \in Invocation /\ Sound(Recording(d))
        /\ SameAttempts(s, Recording(d))
    BY <1>2, <2>1, RecordedType DEF Invocation
  <2>3. QED
    BY <1>2, <2>2 DEF SameAttempts
<1>4. RowsStep
  <2>1. CASE rows' = rows
    BY <2>1, SameRows DEF SeamInv
  <2>2. CASE Put(d, StoreWrite(Row(d), Recording(d)))
    BY <1>1, <1>3, <2>2, PutStored DEF SeamInv, Put, Row
  <2>3. QED
    BY <2>1, <2>2 DEF WriteRecord
<1>5. CallsGood'
  <2>1. CASE Goto(d, "raised")
    BY <1>1, <1>4, <2>1, Raise
  <2>2. CASE Finish(d)
    BY <1>4, <2>2, FinishStep DEF SeamInv
  <2>3. CASE call' = [call EXCEPT ![d] = AfterRefusal(@)]
    <3>1. call' = [call EXCEPT ![d] = AfterRefusal(call[d])]
      BY <2>3 DEF SeamInv, CallsGood
    <3>2. AfterRefusal(call[d]) \in Calls /\ CallGood(AfterRefusal(call[d]), rows')
      BY <1>1, <1>4, AfterRefusalGood
    <3>3. QED
      BY <1>4, <3>1, <3>2, CallStep DEF SeamInv
  <2>4. QED
    BY <2>1, <2>2, <2>3 DEF WriteRecord
<1>6. mission' \in MissionStates
  BY DEF WriteRecord, ReadyAfterReconciliation, Restored, SeamInv, RestGood, MissionStates
<1>7. QED
  BY <1>4, <1>5, <1>6 DEF WriteRecord, SeamInv, RowsStep, RestGood, worldVars

(* Marking a row uncertain keeps the table good. *)
LEMMA MarkUncertainRows ==
  ASSUME SeamInv, NEW d \in Dispatchers, call[d].pc \notin {"idle", "mint", "raised"},
         NEW recon \in ReconStates, NEW status \in {"failed", "blocked"},
         status = "failed" => Row(d).status = "failed", MarkUncertain(d, recon, status)
  PROVE  RowsStep
<1>1. /\ EffectAt(d) \in Effects /\ Row(d) \in Invocation
      /\ Row(d) # NoRow /\ Sound(Row(d)) /\ EffectOf[Row(d).step] = EffectAt(d)
  BY RunningCall
<1> DEFINE t == Marked(Row(d), recon, status)
<1>2. CASE ~IsInvocationTerminal(Row(d)) /\ MayMark(Row(d), status)
  <2>1. t \in Invocation /\ Sound(t) /\ EffectOf[t.step] = EffectAt(d)
    BY <1>1, <1>2, MarkedType DEF Invocation, SameAttempts
  <2>2. rows' = [rows EXCEPT ![EffectAt(d)] = StoreWrite(rows[EffectAt(d)], t)]
    BY <1>2 DEF MarkUncertain, Put, Row
  <2>3. QED
    <3> HIDE DEF t
    <3> QED
      BY <1>1, <2>1, <2>2, PutStored DEF SeamInv, Row
<1>3. CASE ~(~IsInvocationTerminal(Row(d)) /\ MayMark(Row(d), status))
  BY <1>3, SameRows DEF MarkUncertain, SeamInv
<1>4. QED
  BY <1>2, <1>3

(* The conservative mark keeps the invariant. *)
LEMMA RemarkStep ==
  ASSUME SeamInv, NEW d \in Dispatchers, Remark(d) PROVE SeamInv'
<1>1. RowsStep
  BY MarkUncertainRows DEF Remark, ReconStates
<1>2. CallsGood'
  BY <1>1, FinishStep DEF SeamInv, Remark
<1>3. QED
  BY <1>1, <1>2 DEF Remark, SeamInv, RowsStep, RestGood, missionVars, worldVars

(* An error blocks the Mission and ends the pass's dispatches. *)
LEMMA HandleDispatchErrorStep ==
  ASSUME SeamInv, NEW d \in Dispatchers, HandleDispatchError(d) PROVE SeamInv'
<1>1. RowsStep
  BY SameRows DEF SeamInv, HandleDispatchError
<1>2. CallsGood'
  BY <1>1, FinishStep DEF SeamInv, HandleDispatchError
<1>3. mission' \in MissionStates /\ agenda' \in [Dispatchers -> SUBSET (Steps \cup {NoStep})]
  BY DEF HandleDispatchError, SeamInv, RestGood, MissionStates
<1>4. QED
  BY <1>1, <1>2, <1>3 DEF HandleDispatchError, SeamInv, RowsStep, RestGood, worldVars

-----------------------------------------------------------------------------
(* The second part of a pass. *)

(* The last look before a persisted dispatch keeps the invariant. *)
LEMMA CheckPersistedStep ==
  ASSUME SeamInv, NEW d \in Dispatchers, CheckPersisted(d) PROVE SeamInv'
<1>1. RowsStep
  BY SameRows DEF SeamInv, CheckPersisted
<1>2. CallsGood'
  <2>1. CASE Finish(d)
    BY <1>1, <2>1, FinishStep DEF SeamInv
  <2>2. CASE Goto(d, "handoff") \/ Goto(d, "raised")
    BY <1>1, <2>2, GoOn DEF CheckPersisted, PCs
  <2>3. QED
    BY <2>1, <2>2 DEF CheckPersisted
<1>3. mission' \in MissionStates /\ resumeTo' \in MissionStates \ {"paused", "cancelled"}
  BY WaitStep DEF CheckPersisted, SeamInv, RestGood, missionVars
<1>4. QED
  BY <1>1, <1>2, <1>3 DEF CheckPersisted, SeamInv, RowsStep, RestGood, worldVars

(* Bringing the Mission back for a due row keeps the invariant. *)
LEMMA RestoreForDueStep ==
  ASSUME SeamInv, NEW d \in Dispatchers, NEW e \in Effects, RestoreForDue(d, e)
  PROVE  SeamInv'
<1>1. RowsStep /\ CallsGood'
  BY SameRows, SameCalls DEF SeamInv, RestoreForDue, callVars
<1>2. QED
  BY <1>1 DEF RestoreForDue, SeamInv, RowsStep, RestGood, worldVars, callVars, MissionStates

(* prepareInvocationRetry keeps the table good. *)
LEMMA RetriedRows ==
  ASSUME SeamInv, NEW e \in Effects, rows[e] # NoRow, MayRetry(rows[e]),
         NEW delay \in BOOLEAN,
         rows' = [rows EXCEPT ![e] = StoreWrite(@, Retried(@, delay))]
  PROVE  RowsStep
<1> DEFINE t == Retried(rows[e], delay)
<1>1. rows[e] \in Invocation /\ Sound(rows[e]) /\ EffectOf[rows[e].step] = e
  BY StoredRow DEF SeamInv, RowsGood
<1>2. t \in Invocation /\ Sound(t) /\ EffectOf[t.step] = e
  BY <1>1, RetriedType, CapabilitiesAssumption DEF Invocation
<1>3. rows' = [rows EXCEPT ![e] = StoreWrite(rows[e], t)]
  BY DEF SeamInv, RowsGood
<1>4. QED
  <2> HIDE DEF t
  <2> QED
    BY <1>2, <1>3, PutStored DEF SeamInv

(* The step a stored row belongs to is a step of the plan. *)
LEMMA StepOfRow ==
  ASSUME SeamInv, NEW e \in Effects, rows[e] # NoRow
  PROVE  rows[e].step \in Steps /\ rows[e].backoff \in BOOLEAN
BY StoredRow DEF SeamInv, RowsGood, Invocation, Invocations

(* Picking a due row keeps the invariant. *)
LEMMA PickDueStep ==
  ASSUME SeamInv, NEW d \in Dispatchers, NEW e \in Effects, PickDue(d, e)
  PROVE  SeamInv'
<1>1. rows[e] # NoRow /\ rows[e].step \in Steps /\ rows[e].backoff \in BOOLEAN
  BY StepOfRow DEF PickDue, DueRow
<1>2. RowsStep
  BY <1>1, RetriedRows, SameRows DEF PickDue, SeamInv
<1>3. rows'[EffectOf[rows[e].step]] # NoRow
  BY <1>1, <1>2 DEF SeamInv, RowsGood, RowsStep
<1>4. CallsGood'
  BY <1>1, <1>2, <1>3, StartStep DEF PickDue, PCs
<1>5. QED
  BY <1>2, <1>4 DEF PickDue, SeamInv, RowsStep, RestGood, missionVars, worldVars

-----------------------------------------------------------------------------
(* The first part of a pass. *)

(* Picking an actionable row keeps the invariant. *)
LEMMA PickActionableStep ==
  ASSUME SeamInv, NEW d \in Dispatchers, NEW e \in Effects,
         PickActionable(d, e)
  PROVE  SeamInv'
<1>1. rows[e] # NoRow /\ rows[e].step \in Steps
  BY StepOfRow DEF PickActionable, ActionableRow
<1>2. RowsStep /\ rows'[EffectOf[rows[e].step]] # NoRow
  BY <1>1, SameRows DEF PickActionable, SeamInv, RowsGood
<1>3. CallsGood'
  BY <1>1, <1>2, StartStep DEF PickActionable, PCs
<1>4. QED
  BY <1>2, <1>3 DEF PickActionable, SeamInv, RowsStep, RestGood, missionVars, worldVars

(* A recorded cancellation outcome keeps the table good. *)
LEMMA CancellationRows ==
  ASSUME SeamInv, NEW d \in Dispatchers, call[d].pc \notin {"idle", "mint", "raised"},
         Row(d).cancelRequested, NEW state \in CancelStates,
         NEW status \in {Row(d).status, "cancelled"},
         NEW delivery \in DeliveryStates, delivery # "not_submitted",
         Put(d, StoreWrite(Row(d), CancellationRecorded(Row(d), state, status, delivery)))
  PROVE  RowsStep
<1> DEFINE t == CancellationRecorded(Row(d), state, status, delivery)
<1>1. /\ EffectAt(d) \in Effects /\ Row(d) \in Invocation
      /\ Row(d) # NoRow /\ Sound(Row(d)) /\ EffectOf[Row(d).step] = EffectAt(d)
  BY RunningCall
<1>2. t \in Invocation /\ Sound(t) /\ EffectOf[t.step] = EffectAt(d)
  BY <1>1, CancellationRecordedType DEF Invocation, SameAttempts
<1>3. rows' = [rows EXCEPT ![EffectAt(d)] = StoreWrite(rows[EffectAt(d)], t)]
  BY DEF Put, Row
<1>4. QED
  <2> HIDE DEF t
  <2> QED
    BY <1>1, <1>2, <1>3, PutStored DEF SeamInv, Row

(* The request to cancel keeps the invariant. *)
LEMMA RequestCancelStep ==
  ASSUME SeamInv, NEW d \in Dispatchers, RequestCancel(d) PROVE SeamInv'
<1>1. /\ call[d] \in Calls /\ CallGood(call[d], rows) /\ call[d].step \in Steps
      /\ EffectAt(d) \in Effects
      /\ Row(d) \in Invocation /\ Row(d) # NoRow /\ Sound(Row(d))
      /\ EffectOf[Row(d).step] = EffectAt(d) /\ call[d].pc = "cancelling"
  BY RunningCall DEF RequestCancel
<1> DEFINE r == Row(d)
           answered == IsInvocationTerminal(r) \/ (r.cancelRequested /\ r.cancelState # "requested")
           reachable == r.desc.cancellation \in {"cooperative", "hard"} /\ r.handle
<1>2. mission' \in MissionStates /\ resumeTo' \in MissionStates \ {"paused", "cancelled"}
  BY WaitStep DEF RequestCancel, SeamInv, RestGood, missionVars
<1>3. SUFFICES RowsStep /\ CallsGood'
  BY <1>2 DEF RequestCancel, SeamInv, RowsStep, RestGood, worldVars
<1>4. CASE rows' = rows /\ (Goto(d, "observe") \/ Finish(d))
  BY <1>1, <1>4, SameRows, GoOn, FinishStep DEF SeamInv, PCs
<1>5. CASE /\ Put(d, StoreWrite(r, CancellationRecorded(r, "unsupported", r.status, r.delivery)))
           /\ Goto(d, "observe") /\ CancelPending(r)
  <2>1. r.cancelRequested /\ ~Unsent(r) /\ r.delivery \in DeliveryStates
    BY <1>1, <1>5 DEF CancelPending, Sound, Invocation, Invocations
  <2>2. RowsStep
    BY <1>1, <1>5, <2>1, CancellationRows DEF CancelStates, Unsent
  <2>3. QED
    BY <1>1, <1>5, <2>2, GoOn DEF PCs
<1>6. CASE /\ rows' = rows /\ CancelPending(r)
           /\ call' = [call EXCEPT ![d].pc = "cancelwait", ![d].snap = r]
  <2> DEFINE c == [call[d] EXCEPT !.pc = "cancelwait", !.snap = r]
  <2>1. r \in StoredRows /\ ~Unsent(r) /\ EffectOf[r.step] = EffectOf[call[d].step]
    BY <1>1, <1>6 DEF CancelPending, Sound, StoredRows, Invocation, EffectAt
  <2>2. rows'[EffectOf[call[d].step]] # NoRow
    BY <1>1, <1>6 DEF Row, EffectAt
  <2>3. c \in Calls /\ CallGood(c, rows')
    <3> HIDE DEF r
    <3> QED
      BY <1>1, <2>1, <2>2 DEF Calls, CallGood, PCs, r
  <2>4. RowsStep /\ call' = [call EXCEPT ![d] = c]
    BY <1>6, SameRows DEF SeamInv, CallsGood, Calls
  <2>5. QED
    <3> HIDE DEF c
    <3> QED
      BY <2>3, <2>4, CallStep DEF SeamInv
<1>7. QED
  <2>1. CASE answered
    BY <1>4, <2>1 DEF RequestCancel, IsInvocationTerminal, CancelPending
  <2>2. CASE ~answered /\ ~r.cancelRequested
    BY <1>4, <2>2 DEF RequestCancel, IsInvocationTerminal, CancelPending
  <2>3. CASE ~answered /\ r.cancelRequested
    <3>1. CancelPending(r) /\ ~IsInvocationTerminal(r)
      BY <2>3 DEF CancelPending
    <3>2. CASE ~reachable
      BY <1>5, <3>1, <3>2 DEF RequestCancel
    <3>3. CASE reachable /\ ~available
      BY <1>4, <3>1, <3>3 DEF RequestCancel
    <3>4. CASE reachable /\ available
      BY <1>6, <2>3, <3>1, <3>4 DEF RequestCancel
    <3>5. QED
      BY <3>2, <3>3, <3>4
  <2>4. QED
    BY <2>1, <2>2, <2>3

(* The answer to it keeps the invariant. *)
LEMMA CancelReturnsStep ==
  ASSUME SeamInv, NEW d \in Dispatchers,
         NEW answer \in {"completed", "failed", "running", "unknown"},
         CancelReturns(d, answer)
  PROVE  SeamInv'
<1>1. /\ call[d] \in Calls /\ CallGood(call[d], rows) /\ call[d].pc = "cancelwait"
      /\ Row(d) \in Invocation /\ EffectAt(d) \in Effects
  BY RunningCall DEF CancelReturns
<1>2. call[d].snap \in Invocation /\ ~Unsent(call[d].snap)
  BY <1>1, StoredRow DEF CallGood, Calls
<1> DEFINE r == Row(d)
           s == call[d].snap
           u == CancelUpdate(answer, s)
           status == IF u.status = "same" THEN r.status ELSE u.status
<1>3. /\ u.state \in CancelStates
      /\ u.delivery \in DeliveryStates /\ u.delivery # "not_submitted"
  <2>1. s.delivery \in DeliveryStates /\ s.delivery # "not_submitted"
    BY <1>2 DEF Invocation, Invocations, Unsent
  <2>2. QED
    <3> HIDE DEF s
    <3> QED
      BY <2>1 DEF CancelUpdate, CancelStates, DeliveryStates
<1>4. RowsStep /\ (Goto(d, "observe") \/ Finish(d))
  <2>1. CASE rows' = rows /\ (Goto(d, "observe") \/ Finish(d))
    BY <2>1, SameRows DEF SeamInv
  <2>2. CASE /\ MayRecordCancellation(r, u.state, status)
             /\ Put(d, StoreWrite(r, CancellationRecorded(r, u.state, status, u.delivery)))
             /\ Goto(d, "observe")
    <3> HIDE DEF u, status
    <3>1. r.cancelRequested /\ status \in {r.status, "cancelled"}
      BY <2>2 DEF MayRecordCancellation
    <3>2. QED
      BY <1>1, <1>3, <2>2, <3>1, CancellationRows
  <2>3. QED
    BY <2>1, <2>2 DEF CancelReturns, IsInvocationTerminal
<1>5. CallsGood'
  BY <1>1, <1>4, GoOn, FinishStep DEF SeamInv, PCs
<1>6. owner' \in [Effects -> OwnerStates]
  BY DEF CancelReturns, SeamInv, RestGood, OwnerStates
<1>7. QED
  BY <1>4, <1>5, <1>6 DEF CancelReturns, SeamInv, RowsStep, RestGood, missionVars

(* Asking whether there is something to observe keeps the invariant. *)
LEMMA ObserveStep ==
  ASSUME SeamInv, NEW d \in Dispatchers, Observe(d) PROVE SeamInv'
<1>1. call[d].pc = "observe"
  BY DEF Observe
<1> DEFINE status == IF Row(d).status = "failed" THEN "failed" ELSE "blocked"
<1>2. mission' \in MissionStates /\ resumeTo' \in MissionStates \ {"paused", "cancelled"}
  BY WaitStep DEF Observe, Restored, SeamInv, RestGood, missionVars, MissionStates
<1>3. \/ rows' = rows
      \/ MarkUncertain(d, "unsupported", status) \/ MarkUncertain(d, "pending", status)
  BY DEF Observe
<1>4. RowsStep
  BY <1>1, <1>3, SameRows, MarkUncertainRows DEF SeamInv, ReconStates
<1>5. CallsGood'
  <2>1. Finish(d) \/ Goto(d, "reconcile")
    BY DEF Observe
  <2>2. QED
    BY <1>1, <1>4, <2>1, GoOn, FinishStep DEF SeamInv, PCs
<1>6. QED
  BY <1>2, <1>4, <1>5 DEF Observe, SeamInv, RowsStep, RestGood, worldVars

(* The owner's answer to reconcile() keeps the invariant. *)
LEMMA ReconcileReturnsStep ==
  ASSUME SeamInv, NEW d \in Dispatchers, ReconcileReturns(d) PROVE SeamInv'
<1>1. RowsStep /\ rows' = rows /\ call[d].pc = "reconcile"
  BY SameRows DEF SeamInv, ReconcileReturns
<1>2. call[d] \in Calls /\ call[d].step \in Steps /\ rows'[EffectOf[call[d].step]] # NoRow
  BY <1>1, RunningCall DEF Row, EffectAt
<1>3. CallsGood'
  <2>1. CASE Goto(d, "remark")
    BY <1>1, <2>1, GoOn DEF PCs
  <2>2. ASSUME NEW res \in Results,
               call' = [call EXCEPT ![d].pc = "record", ![d].todo = ReconciledTodoOf(res)]
        PROVE  CallsGood'
    <3> DEFINE t == ReconciledTodoOf(res)
               c == [call[d] EXCEPT !.pc = "record", !.todo = t]
    <3>1. t \in Todos /\ t.status # "none"
      BY DEF ReconciledTodoOf, InvocationStatusFor, NoTodo, Todos, Results, Verdicts
    <3>2. c \in Calls /\ CallGood(c, rows')
      <4> HIDE DEF t
      <4> QED
        BY <1>2, <3>1 DEF Calls, CallGood, PCs
    <3>3. call' = [call EXCEPT ![d] = c]
      BY <2>2 DEF SeamInv, CallsGood, Calls
    <3>4. QED
      <4> HIDE DEF c
      <4> QED
        BY <1>1, <3>2, <3>3, CallStep DEF SeamInv
  <2>3. QED
    BY <2>1, <2>2 DEF ReconcileReturns
<1>4. QED
  BY <1>1, <1>3 DEF ReconcileReturns, SeamInv, RowsStep, RestGood, missionVars, worldVars

-----------------------------------------------------------------------------
(* The operator, the owner, the clock, the host process. *)

(* cancelMission rewrites every row and leaves a good table. *)
LEMMA CancelMissionRows ==
  ASSUME SeamInv, CancelMission PROVE RowsStep
<1>1. ASSUME NEW e \in Effects, rows[e] # NoRow
      PROVE  /\ rows'[e] \in Invocation /\ rows'[e] # NoRow /\ Sound(rows'[e])
             /\ EffectOf[rows'[e].step] = e
  <2> DEFINE t == CancelledByMission(rows[e])
  <2>1. rows[e] \in Invocation /\ Sound(rows[e]) /\ EffectOf[rows[e].step] = e
    BY <1>1, StoredRow DEF SeamInv, RowsGood
  <2>2. t \in Invocation /\ Sound(t) /\ SameAttempts(rows[e], t)
    BY <2>1, CancelledByMissionType DEF Invocation
  <2>3. rows'[e] = StoreWrite(rows[e], t)
    BY <1>1 DEF CancelMission, Minted
  <2>4. rows'[e] = rows[e] \/ rows'[e] = t
    BY <2>3, StoreWriteChoice
  <2>5. QED
    <3> HIDE DEF t
    <3> QED
      BY <1>1, <2>1, <2>2, <2>4, NoRowAssumption DEF Invocation, SameAttempts
<1>2. ASSUME NEW e \in Effects, rows[e] = NoRow PROVE rows'[e] = NoRow
  BY <1>2 DEF CancelMission, Minted
<1>3. rows' \in [Effects -> StoredRows]
  BY <1>1, <1>2 DEF CancelMission, StoredRows, Invocation
<1>4. QED
  BY <1>1, <1>2, <1>3 DEF RowsGood, RowsStep

(* The instant of a retry passes; nothing else of the row changes. *)
LEMMA BackoffElapsesRows ==
  ASSUME SeamInv, NEW e \in Effects, BackoffElapses(e) PROVE RowsStep
<1> DEFINE t == [rows[e] EXCEPT !.due = TRUE]
<1>1. rows[e] \in Invocation /\ Sound(rows[e]) /\ EffectOf[rows[e].step] = e
  BY StoredRow DEF SeamInv, RowsGood, BackoffElapses, Minted
<1>2. t \in Invocation /\ Sound(t) /\ EffectOf[t.step] = e
  BY <1>1 DEF Invocation, Invocations, Sound, Unsent
<1>3. rows' = [rows EXCEPT ![e] = t]
  BY DEF BackoffElapses, SeamInv, RowsGood
<1>4. QED
  <2> HIDE DEF t
  <2> QED
    BY <1>2, <1>3, PutRow DEF SeamInv

(* The environment keeps the invariant. *)
LEMMA EnvironmentStep ==
  ASSUME SeamInv, Environment PROVE SeamInv'
<1>1. CASE CancelMission
  <2>1. RowsStep /\ CallsGood'
    BY <1>1, CancelMissionRows, SameCalls DEF SeamInv, CancelMission, callVars
  <2>2. QED
    BY <1>1, <2>1 DEF CancelMission, SeamInv, RowsStep, RestGood, worldVars, callVars, MissionStates
<1>2. CASE PauseMission \/ ResumeMission \/ ReplanAccepted
  <2>1. RowsStep /\ CallsGood'
    BY <1>2, SameRows, SameCalls
       DEF SeamInv, PauseMission, ResumeMission, ReplanAccepted, callVars
  <2>2. QED
    BY <1>2, <2>1 DEF PauseMission, ResumeMission, ReplanAccepted, SeamInv, RowsStep,
                      RestGood, worldVars, callVars, MissionStates
<1>3. CASE SetAvailability
  <2>1. RowsStep /\ CallsGood'
    BY <1>3, SameRows, SameCalls DEF SeamInv, SetAvailability, callVars
  <2>2. QED
    BY <1>3, <2>1 DEF SetAvailability, SeamInv, RowsStep, RestGood, missionVars, callVars
<1>4. CASE Crash
  <2>1. RowsStep
    BY <1>4, SameRows DEF SeamInv, Crash
  <2>2. CallsGood'
    BY <1>4, IdleIsGood DEF Crash, CallsGood
  <2>3. QED
    BY <1>4, <2>1, <2>2 DEF Crash, SeamInv, RowsStep, RestGood, missionVars, worldVars
<1>5. ASSUME NEW e \in Effects, PrepareDelayedRetry(e) PROVE SeamInv'
  <2>1. RowsStep
    BY <1>5, RetriedRows DEF PrepareDelayedRetry, Minted
  <2>2. CallsGood'
    BY <1>5, <2>1, SameCalls DEF SeamInv, PrepareDelayedRetry, callVars
  <2>3. QED
    BY <1>5, <2>1, <2>2 DEF PrepareDelayedRetry, SeamInv, RowsStep, RestGood,
                            missionVars, worldVars, callVars
<1>6. ASSUME NEW e \in Effects, BackoffElapses(e) PROVE SeamInv'
  <2>1. RowsStep
    BY <1>6, BackoffElapsesRows
  <2>2. CallsGood'
    BY <1>6, <2>1, SameCalls DEF SeamInv, BackoffElapses, callVars
  <2>3. QED
    BY <1>6, <2>1, <2>2 DEF BackoffElapses, SeamInv, RowsStep, RestGood,
                            missionVars, worldVars, callVars
<1>7. ASSUME NEW e \in Effects, OwnerFinishes(e) PROVE SeamInv'
  <2>1. RowsStep /\ CallsGood'
    BY <1>7, SameRows, SameCalls DEF SeamInv, OwnerFinishes, callVars
  <2>2. owner' \in [Effects -> OwnerStates]
    BY <1>7 DEF OwnerFinishes, SeamInv, RestGood, OwnerStates
  <2>3. QED
    BY <1>7, <2>1, <2>2 DEF OwnerFinishes, SeamInv, RowsStep, RestGood, missionVars, callVars
<1>8. QED
  BY <1>1, <1>2, <1>3, <1>4, <1>5, <1>6, <1>7 DEF Environment

-----------------------------------------------------------------------------
(* Every step of a dispatcher keeps the invariant. *)
LEMMA DispatchStep ==
  ASSUME SeamInv, NEW d \in Dispatchers, Dispatch(d) PROVE SeamInv'
BY ScanMissionStep, GateStepStep, EndScanStep, MintStep, RejectInputStep, HandoffStep, InvokeStep,
   InvokeReturnsStep, PersistHandleStep, ReadForRecordStep, WriteRecordStep, RemarkStep,
   HandleDispatchErrorStep, CheckPersistedStep, RestoreForDueStep, PickDueStep,
   PickActionableStep, RequestCancelStep, ObserveStep, ReconcileReturnsStep,
   CancelReturnsStep
DEF Dispatch

(* The invariant holds at the start. *)
LEMMA SeamInvInit == Init => SeamInv
<1> SUFFICES ASSUME Init PROVE SeamInv
  OBVIOUS
<1>1. RowsGood
  BY DEF Init, RowsGood, StoredRows
<1>2. CallsGood
  BY DEF Init, CallsGood, CallGood, Calls, IdleCall, StoredRows, NoTodo, Todos, PCs, Verdicts
<1>3. RestGood
  BY DEF Init, RestGood, MissionStates, OwnerStates
<1>4. QED
  BY <1>1, <1>2, <1>3 DEF SeamInv

(* Steps that change nothing keep it. *)
LEMMA SeamInvStutter == ASSUME SeamInv, UNCHANGED vars PROVE SeamInv'
<1>1. RowsStep /\ CallsGood'
  BY SameRows, SameCalls DEF SeamInv, vars
<1>2. QED
  BY <1>1 DEF SeamInv, RowsStep, RestGood, vars

(* The table and the calls fit together in every reachable state. *)
THEOREM SeamInvariant == Spec => []SeamInv
<1>1. SeamInv /\ [Next]_vars => SeamInv'
  BY DispatchStep, EnvironmentStep, SeamInvStutter DEF Next
<1>2. QED
  BY <1>1, SeamInvInit, PTL DEF Spec

(* Type correctness, for any number of concurrent dispatchers: no          *)
(* interleaving builds a row, a call or a result the code could not read.  *)
THEOREM TypeCorrect == Spec => []TypeOK
<1>1. SeamInv => TypeOK
  BY DEF SeamInv, RowsGood, CallsGood, RestGood, TypeOK
<1>2. QED
  BY <1>1, SeamInvariant, PTL
=============================================================================
