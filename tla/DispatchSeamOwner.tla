--------------------------- MODULE DispatchSeamOwner ---------------------------
(***************************************************************************)
(* What the rows say of the module owner is true, and stays true.  With    *)
(* one resident dispatcher and an effect for each step: a COMPLETED row    *)
(* means the owner performed the effect, a FAILED one that it did not,     *)
(* connector.invoke() is called only while the owner does not hold the     *)
(* effect, an effect the owner is acting on is never forgotten, and the    *)
(* rows keep the ledger of EffectLedger.                                   *)
(*                                                                         *)
(* The assumptions are those of DispatchSeamBudget.  A second dispatcher,  *)
(* or a second step with the same effect, hands over a row that is already *)
(* SUBMITTED, and the owner is asked again while it is acting.             *)
(***************************************************************************)
EXTENDS DispatchSeamBudget

(* The owner does not hold the effect. *)
Quiet(o) == o \in {"idle", "not_performed"}

(* What row r says of owner state o after n calls of the owner: an attempt *)
(* that never crossed the boundary has not reached the owner, a definite   *)
(* status is true of the owner, and a row whose effect is under way waits  *)
(* for reconciliation.                                                     *)
RowHonest(r, o, n) ==
  /\ ~Quiet(o) => n > 0
  /\ r = NoRow => Quiet(o)
  /\ r # NoRow =>
       /\ Unsent(r) /\ r.status # "cancelled" => Quiet(o)
       /\ r.status = "completed" => o = "performed"
       /\ r.status = "failed" => o # "running"
       /\ r.status = "failed" /\ r.verdict # "rejected" => Quiet(o)
       /\ o = "running" => \/ r.status = "cancelled"
                           \/ ~Unsent(r) /\ r.recon \in {"pending", "unsupported"}

(* A definite result the seam is about to record is true of the owner. *)
TodoHonest(t, o) ==
  /\ t.status = "completed" => o = "performed"
  /\ t.status = "failed" => IF t.claim = "rejected" THEN o # "running" ELSE Quiet(o)

(* A call that is about to invoke has an owner that does not hold the      *)
(* effect, one that is about to record has a true result, and what it read *)
(* of the row is still so.                                                 *)
CallHonest(c, r, o) ==
  /\ c.pc = "handoff" => Unsent(r) /\ r.status \in {"pending", "dispatched", "cancelled"}
  /\ c.pc = "invoke" =>
       \/ r.status = "cancelled"
       \/ ~Unsent(r) /\ r.recon = "pending" /\ r.status \in {"dispatched", "running"}
  /\ c.pc \in {"handoff", "invoke"} => Quiet(o)
  /\ c.pc \in {"handle", "record", "write"} => TodoHonest(c.todo, o)
  /\ c.pc = "write" => c.snap.desc = r.desc /\ c.snap.verdict = r.verdict

RowsHonest == \A e \in Effects : RowHonest(rows[e], owner[e], invokes[e])

CallsHonest ==
  \A d \in Dispatchers :
    CallHonest(call[d], rows[EffectOf[call[d].step]], owner[EffectOf[call[d].step]])

OwnerInv == RowsHonest /\ CallsHonest

Plan == OneResident /\ OwnEffects
Invs == SeamInv /\ BudgetInv /\ OwnerInv

(* How the recorded answer may change: given once, and what was recorded   *)
(* as not performed may still be rejected by the owner.                    *)
AnswerMoves(a, b, n) ==
  \/ b = a
  \/ a = "none" /\ b \in {"performed", "not_performed", "rejected", "withdrawn"}
     /\ (b = "performed" => n > 0)
  \/ a = "not_performed" /\ b = "rejected"

(* How a write may change a row, seen as an entry of the ledger. *)
Moves(r, t, n) ==
  /\ t.step = r.step /\ t.desc = r.desc
  /\ r.status = "completed" => t.status = "completed"
  /\ \/ Len(t.attempts) = Len(r.attempts) /\ AnswerMoves(AnswerOf(r), AnswerOf(t), n)
     \/ /\ Len(t.attempts) = Len(r.attempts) + 1
        /\ AnswerOf(r) = "not_performed" /\ AnswerOf(t) = "none"
        /\ Len(r.attempts) < BudgetOf(r.desc)

-----------------------------------------------------------------------------
(* The rows the engine builds. *)

(* A handoff of a row that may be handed off. *)
LEMMA HandedOffHonest ==
  ASSUME NEW r \in Invocation, Sound(r), NEW o, NEW n, RowHonest(r, o, n), r # NoRow,
         NEW delivery \in DeliveryStates \ {"not_submitted"}, NEW handle \in BOOLEAN,
         ~IsInvocationTerminal(r), MayHandOff(r, delivery),
         NEW t, t = HandedOff(r, delivery, handle)
  PROVE  t \in Invocation /\ RowHonest(t, o, n) /\ Moves(r, t, n)
<1>1. /\ t \in Invocation /\ ~Unsent(t) /\ SameAttempts(r, t)
      /\ t.status \in {"dispatched", "running"}
  BY HandedOffType DEF Invocation
<1>2. t.desc = r.desc /\ t.recon \in {"pending", r.recon}
  BY DEF HandedOff, Invocation, Invocations
<1>3. r.status \notin {"failed", "completed", "cancelled"}
  BY DEF MayHandOff, HandoffStatus, IsInvocationUpdateAllowed, AllowedFrom,
         IsInvocationTerminal, TerminalStatuses
<1>4. t # NoRow
  BY <1>1, NoRowAssumption DEF Invocation
<1>5. RowHonest(t, o, n)
  BY <1>1, <1>2, <1>3, <1>4 DEF RowHonest, Quiet
<1>6. AnswerOf(r) = "none" /\ AnswerOf(t) = "none"
  BY <1>1, <1>3 DEF AnswerOf
<1>7. QED
  BY <1>1, <1>2, <1>3, <1>5, <1>6 DEF Moves, AnswerMoves, SameAttempts

(* A recorded result, built from a read s that still agrees with the row. *)
LEMMA RecordedHonest ==
  ASSUME NEW r \in Invocation, NEW s \in Invocation, Sound(s), NEW o, NEW n,
         RowHonest(r, o, n), r # NoRow, ~IsInvocationTerminal(r),
         s.step = r.step, s.desc = r.desc, s.verdict = r.verdict,
         Len(s.attempts) = Len(r.attempts),
         NEW status \in {"completed", "failed", "running", "blocked"},
         NEW claim \in Verdicts,
         status = "completed" => o = "performed",
         status = "failed" => IF claim = "rejected" THEN o # "running" ELSE Quiet(o),
         NEW t, t = Recorded(s, status, claim), StoreAccepts(r, t)
  PROVE  t \in Invocation /\ RowHonest(t, o, n) /\ Moves(r, t, n)
<1> DEFINE eff == EffectiveStatus(s, status, claim)
           sticky == StickyVerdict(s, claim)
<1>1. t \in Invocation /\ ~Unsent(t) /\ SameAttempts(s, t)
  BY RecordedType DEF Invocation
<1>2. /\ t.status = eff /\ t.verdict = sticky /\ t.desc = s.desc
      /\ t.recon = IF eff \in {"completed", "failed"} THEN "resolved" ELSE "pending"
  BY DEF Recorded, Invocation, Invocations
<1>3. eff \in {"completed", "failed", "running", "blocked"}
  BY DEF EffectiveStatus
<1>4. /\ eff = "completed" => status = "completed" /\ sticky # "rejected"
      /\ eff = "failed" => \/ status = "failed" /\ (sticky # "rejected" => claim # "rejected")
                           \/ status = "completed" /\ sticky = "rejected"
      /\ r.verdict = "rejected" => sticky = "rejected"
  BY DEF EffectiveStatus, StickyVerdict
<1>5. t # NoRow
  BY <1>1, NoRowAssumption DEF Invocation
<1>6. t.status \in AllowedFrom(r.status)
  BY DEF StoreAccepts, IsInvocationUpdateAllowed
<1> HIDE DEF eff, sticky
<1>7. t.status = "completed" => o = "performed"
  BY <1>2, <1>4
<1>8. t.status = "failed" => o # "running" /\ (t.verdict # "rejected" => Quiet(o))
  BY <1>2, <1>4 DEF Quiet
<1>9. t.status \notin {"completed", "failed"} => t.recon = "pending"
  BY <1>2, <1>3
<1>10. RowHonest(t, o, n)
  BY <1>1, <1>5, <1>7, <1>8, <1>9 DEF RowHonest, Quiet
<1>11. AnswerMoves(AnswerOf(r), AnswerOf(t), n)
  <2>1. CASE r.status = "failed"
    <3>1. t.status = "failed"
      BY <1>2, <1>3, <1>6, <2>1 DEF AllowedFrom
    <3>2. r.verdict = "rejected" => t.verdict = "rejected"
      BY <1>2, <1>4
    <3>3. AnswerOf(r) = IF r.verdict = "rejected" THEN "rejected" ELSE "not_performed"
      BY <2>1 DEF AnswerOf
    <3>4. AnswerOf(t) = IF t.verdict = "rejected" THEN "rejected" ELSE "not_performed"
      BY <3>1 DEF AnswerOf
    <3>5. QED
      BY <3>2, <3>3, <3>4 DEF AnswerMoves
  <2>2. CASE r.status # "failed"
    <3>1. AnswerOf(r) = "none"
      BY <2>2 DEF AnswerOf, IsInvocationTerminal, TerminalStatuses
    <3>2. AnswerOf(t) \in {"none", "performed", "not_performed", "rejected"}
      BY <1>2, <1>3 DEF AnswerOf
    <3>3. AnswerOf(t) = "performed" => n > 0
      <4>1. AnswerOf(t) = "performed" => t.status = "completed"
        BY <1>2, <1>3 DEF AnswerOf
      <4>2. QED
        BY <1>7, <4>1 DEF RowHonest, Quiet
    <3>4. QED
      BY <3>1, <3>2, <3>3 DEF AnswerMoves
  <2>3. QED
    BY <2>1, <2>2
<1>12. QED
  BY <1>1, <1>2, <1>10, <1>11
     DEF Moves, SameAttempts, IsInvocationTerminal, TerminalStatuses

(* A row marked uncertain. *)
LEMMA MarkedHonest ==
  ASSUME NEW r \in Invocation, Sound(r), NEW o, NEW n, RowHonest(r, o, n), r # NoRow,
         ~IsInvocationTerminal(r),
         NEW recon \in {"pending", "unsupported"}, NEW status \in {"failed", "blocked"},
         MayMark(r, status), status = "failed" => r.status = "failed",
         NEW t, t = Marked(r, recon, status)
  PROVE  t \in Invocation /\ RowHonest(t, o, n) /\ Moves(r, t, n)
<1>1. t \in Invocation /\ ~Unsent(t) /\ SameAttempts(r, t)
  BY MarkedType DEF Invocation, ReconStates
<1>2. /\ t.desc = r.desc /\ t.recon = recon /\ t.status = status
      /\ t.verdict = r.verdict
  BY DEF Marked, Invocation, Invocations
<1>3. status = "blocked" => r.status \notin {"failed", "completed", "cancelled"}
  BY DEF MayMark, IsInvocationUpdateAllowed, AllowedFrom,
         IsInvocationTerminal, TerminalStatuses
<1>4. t # NoRow
  BY <1>1, NoRowAssumption DEF Invocation
<1>5. RowHonest(t, o, n)
  BY <1>1, <1>2, <1>4 DEF RowHonest, Quiet
<1>6. AnswerOf(t) = AnswerOf(r)
  BY <1>2, <1>3 DEF AnswerOf
<1>7. QED
  BY <1>1, <1>2, <1>5, <1>6
     DEF Moves, AnswerMoves, SameAttempts, IsInvocationTerminal, TerminalStatuses

(* A retried row: the owner did not perform the failed attempt. *)
LEMMA RetriedHonest ==
  ASSUME NEW r \in Invocation, Sound(r), NEW o, NEW n, RowHonest(r, o, n), r # NoRow,
         MayRetry(r), NEW delay \in BOOLEAN, NEW t, t = Retried(r, delay)
  PROVE  t \in Invocation /\ RowHonest(t, o, n) /\ Moves(r, t, n)
<1>1. /\ t \in Invocation /\ t.step = r.step /\ t.status = "pending"
      /\ Len(t.attempts) = Len(r.attempts) + 1
  BY CapabilitiesAssumption, RetriedType DEF Invocation
<1>2. t.desc = r.desc
  BY DEF Retried, Invocation, Invocations
<1>3. /\ r.status = "failed" /\ r.verdict # "rejected"
      /\ r.retryAttempt < r.desc.maxAttempts /\ r.desc.idempotent
  BY DEF MayRetry, IsSafeRetryEligible
<1>4. t # NoRow
  BY <1>1, NoRowAssumption DEF Invocation
<1>5. RowHonest(t, o, n)
  BY <1>1, <1>3, <1>4 DEF RowHonest, Quiet
<1>6. AnswerOf(r) = "not_performed" /\ AnswerOf(t) = "none"
  BY <1>1, <1>3 DEF AnswerOf
<1>7. Len(r.attempts) < BudgetOf(r.desc)
  <2>1. Len(r.attempts) \in Nat /\ r.retryAttempt \in Nat /\ r.desc.maxAttempts \in Nat
    BY CapabilitiesAssumption DEF Invocation, Invocations, Descriptors
  <2>2. Len(r.attempts) <= r.retryAttempt
    BY <1>3 DEF Sound
  <2>3. Len(r.attempts) < r.desc.maxAttempts /\ r.desc.maxAttempts > 0
    BY <1>3, <2>1, <2>2
  <2>4. BudgetOf(r.desc) = r.desc.maxAttempts
    BY <1>3, <2>3 DEF BudgetOf
  <2>5. QED
    BY <2>3, <2>4
<1>8. QED
  BY <1>1, <1>2, <1>3, <1>5, <1>6, <1>7 DEF Moves

(* What cancelMission makes of a row: it withdraws an attempt that never   *)
(* crossed the boundary and asks about any other.                          *)
LEMMA CancelledByMissionHonest ==
  ASSUME NEW r \in Invocation, Sound(r), NEW o, NEW n, RowHonest(r, o, n), r # NoRow,
         NEW t, t = CancelledByMission(r)
  PROVE  /\ t \in Invocation /\ RowHonest(t, o, n)
         /\ t.desc = r.desc /\ t.verdict = r.verdict
         /\ t.delivery = r.delivery
         /\ r.status \in {"completed", "cancelled"} => t.status = r.status
         /\ t.recon \in {r.recon, "pending"}
         /\ SameAttempts(r, t)
         /\ \/ t.status = r.status
            \/ t.status = "cancelled" /\ AnswerOf(r) = "none"
<1>1. /\ t \in Invocation /\ SameAttempts(r, t) /\ t.delivery = r.delivery
      /\ t.status \in {r.status, "cancelled"}
  BY CancelledByMissionType DEF Invocation
<1>2. /\ t.desc = r.desc /\ t.recon \in {r.recon, "pending"}
      /\ t.verdict = r.verdict
  BY DEF CancelledByMission, Invocation, Invocations
<1>3. /\ t.status # r.status => Unsent(r) /\ ~IsInvocationTerminal(r)
      /\ r.status \in {"completed", "cancelled"} => t.status = r.status
  BY DEF CancelledByMission, Invocation, Invocations, Unsent, IsInvocationTerminal,
         TerminalStatuses
<1>4. t # NoRow
  BY <1>1, NoRowAssumption DEF Invocation
<1>5. RowHonest(t, o, n)
  BY <1>1, <1>2, <1>3, <1>4 DEF RowHonest, Quiet, Unsent
<1>6. t.status # r.status => t.status = "cancelled" /\ AnswerOf(r) = "none"
  BY <1>1, <1>3 DEF AnswerOf, Sound, IsInvocationTerminal, TerminalStatuses
<1>7. QED
  BY <1>1, <1>2, <1>3, <1>5, <1>6

(* A recorded cancellation, true of the owner as it is now. *)
LEMMA CancellationRecordedHonest ==
  ASSUME NEW r \in Invocation, Sound(r), NEW o, NEW n, RowHonest(r, o, n), r # NoRow,
         ~IsInvocationTerminal(r), r.cancelRequested, NEW state \in CancelStates,
         NEW status \in {r.status, "cancelled"},
         IsInvocationUpdateAllowed(r.status, status),
         NEW delivery \in DeliveryStates \ {"not_submitted"},
         NEW t, t = CancellationRecorded(r, state, status, delivery)
  PROVE  t \in Invocation /\ RowHonest(t, o, n) /\ Moves(r, t, n)
<1>1. t \in Invocation /\ ~Unsent(t) /\ SameAttempts(r, t)
  BY CancellationRecordedType DEF Invocation
<1>2. /\ t.desc = r.desc /\ t.status = status /\ t.verdict = r.verdict
      /\ status # "cancelled" => t.recon = "pending"
  BY DEF CancellationRecorded, Invocation, Invocations
<1>3. status = "cancelled" => r.status \notin {"failed", "completed", "cancelled"}
  BY DEF IsInvocationUpdateAllowed, AllowedFrom, IsInvocationTerminal, TerminalStatuses
<1>4. t # NoRow
  BY <1>1, NoRowAssumption DEF Invocation
<1>5. RowHonest(t, o, n)
  BY <1>1, <1>2, <1>4 DEF RowHonest, Quiet
<1>6. AnswerMoves(AnswerOf(r), AnswerOf(t), n)
  <2>1. CASE status = "cancelled"
    <3>1. AnswerOf(r) = "none" /\ AnswerOf(t) = "withdrawn"
      BY <1>2, <1>3, <2>1 DEF AnswerOf
    <3>2. QED
      BY <3>1 DEF AnswerMoves
  <2>2. CASE status # "cancelled"
    <3>1. AnswerOf(t) = AnswerOf(r)
      BY <1>2, <2>2 DEF AnswerOf
    <3>2. QED
      BY <3>1 DEF AnswerMoves
  <2>3. QED
    BY <2>1, <2>2
<1>7. QED
  BY <1>1, <1>2, <1>5, <1>6 DEF Moves, SameAttempts, IsInvocationTerminal, TerminalStatuses

-----------------------------------------------------------------------------
(* What one step does to rows, owner and calls of the owner. *)

(* Nothing. *)
AtRest == rows' = rows /\ owner' = owner /\ invokes' = invokes

(* It moves the row of effect e, and may learn that the owner stopped it.  *)
RowMove(e) ==
  /\ rows[e] # NoRow
  /\ \E t \in Invocation : /\ rows' = [rows EXCEPT ![e] = t]
                           /\ RowHonest(t, owner'[e], invokes[e])
                           /\ Moves(rows[e], t, invokes[e])
  /\ invokes' = invokes
  /\ \A b \in Effects \ {e} : owner'[b] = owner[b]

(* A row that is left alone has moved too. *)
LEMMA SameMoves == ASSUME NEW r, NEW n PROVE Moves(r, r, n)
BY DEF Moves, AnswerMoves

(* A write through the store moves the row: the store keeps a terminal one. *)
LEMMA StoredMove ==
  ASSUME SeamInv, NEW e \in Effects, rows[e] # NoRow,
         RowHonest(rows[e], owner'[e], invokes[e]), NEW t,
         StoreWrite(rows[e], t) # rows[e] =>
           /\ t \in Invocation /\ RowHonest(t, owner'[e], invokes[e])
           /\ Moves(rows[e], t, invokes[e]),
         rows' = [rows EXCEPT ![e] = StoreWrite(rows[e], t)], invokes' = invokes,
         \A b \in Effects \ {e} : owner'[b] = owner[b]
  PROVE  RowMove(e)
<1>1. rows[e] \in Invocation
  BY RowNumbers
<1>2. CASE StoreWrite(rows[e], t) = rows[e]
  BY <1>1, <1>2, SameMoves DEF RowMove
<1>3. CASE StoreWrite(rows[e], t) # rows[e]
  <2>1. StoreWrite(rows[e], t) = t
    BY <1>3, StoreWriteChoice
  <2>2. QED
    BY <1>3, <2>1 DEF RowMove
<1>4. QED
  BY <1>2, <1>3

(* The store changes nothing but a row that is not terminal, and only to a *)
(* status its own allows.                                                  *)
LEMMA StoreChanges ==
  ASSUME NEW r, NEW t, StoreWrite(r, t) # r
  PROVE  ~IsInvocationTerminal(r) /\ StoreAccepts(r, t)
BY DEF StoreWrite

(* The rows stay honest when nothing happens, and when one row moves. *)
LEMMA RestHonest ==
  ASSUME OwnerInv, AtRest PROVE RowsHonest'
BY DEF OwnerInv, RowsHonest, AtRest

LEMMA MoveHonest ==
  ASSUME SeamInv, OwnerInv, NEW e \in Effects, RowMove(e) PROVE RowsHonest'
<1>1. PICK t : /\ rows' = [rows EXCEPT ![e] = t]
               /\ RowHonest(t, owner'[e], invokes[e])
  BY DEF RowMove
<1>2. ASSUME NEW b \in Effects PROVE RowHonest(rows'[b], owner'[b], invokes'[b])
  <2>1. CASE b = e
    <3>1. rows'[b] = t /\ invokes'[b] = invokes[e] /\ owner'[b] = owner'[e]
      BY <1>1, <2>1 DEF RowMove, SeamInv, RowsGood
    <3>2. QED
      BY <1>1, <3>1
  <2>2. CASE b # e
    <3>1. rows'[b] = rows[b] /\ invokes'[b] = invokes[b] /\ owner'[b] = owner[b]
      BY <1>1, <2>2 DEF RowMove, SeamInv, RowsGood
    <3>2. QED
      BY <3>1 DEF OwnerInv, RowsHonest
  <2>3. QED
    BY <2>1, <2>2
<1>3. QED
  BY <1>2 DEF RowsHonest

(* A write by the call of dispatcher d moves the row of its effect. *)
LEMMA PutMove ==
  ASSUME Invs, NEW d \in Dispatchers, call[d].pc \notin {"idle", "mint", "raised"},
         NEW t,
         StoreWrite(Row(d), t) # Row(d) =>
           /\ t \in Invocation /\ RowHonest(t, owner[EffectAt(d)], invokes[EffectAt(d)])
           /\ Moves(Row(d), t, invokes[EffectAt(d)]),
         Put(d, StoreWrite(Row(d), t)), invokes' = invokes, owner' = owner
  PROVE  RowMove(EffectAt(d))
<1>1. EffectAt(d) \in Effects /\ Row(d) # NoRow
  BY RunningCall DEF Invs
<1>2. RowHonest(rows[EffectAt(d)], owner'[EffectAt(d)], invokes[EffectAt(d)])
  BY <1>1 DEF Invs, OwnerInv, RowsHonest
<1>3. rows' = [rows EXCEPT ![EffectAt(d)] = StoreWrite(rows[EffectAt(d)], t)]
  BY DEF Put, Row
<1>4. QED
  BY <1>1, <1>2, <1>3, StoredMove DEF Invs, Row

(* What is known of the row of a call that has one. *)
LEMMA HonestCall ==
  ASSUME Invs, NEW d \in Dispatchers, call[d].pc \notin {"idle", "mint", "raised"}
  PROVE  /\ call[d] \in Calls /\ CallGood(call[d], rows) /\ EffectAt(d) \in Effects
         /\ Row(d) \in Invocation /\ Row(d) # NoRow /\ Sound(Row(d))
         /\ RowHonest(Row(d), owner[EffectAt(d)], invokes[EffectAt(d)])
         /\ CallHonest(call[d], Row(d), owner[EffectAt(d)])
         /\ CallPaid(call[d], rows, invokes)
<1>1. /\ call[d] \in Calls /\ CallGood(call[d], rows) /\ EffectAt(d) \in Effects
      /\ Row(d) \in Invocation /\ Row(d) # NoRow /\ Sound(Row(d))
  BY RunningCall DEF Invs
<1>2. RowHonest(Row(d), owner[EffectAt(d)], invokes[EffectAt(d)])
  BY <1>1 DEF Invs, OwnerInv, RowsHonest, Row
<1>3. CallHonest(call[d], Row(d), owner[EffectAt(d)]) /\ CallPaid(call[d], rows, invokes)
  BY DEF Invs, OwnerInv, CallsHonest, BudgetInv, Row, EffectAt
<1>4. QED
  BY <1>1, <1>2, <1>3

(* A handoff moves the row or leaves it. *)
LEMMA HandoffToMoves ==
  ASSUME Invs, NEW d \in Dispatchers, call[d].pc \notin {"idle", "mint", "raised"},
         NEW delivery \in DeliveryStates \ {"not_submitted"}, NEW handle \in BOOLEAN,
         NEW next, HandoffTo(d, delivery, handle, next),
         invokes' = invokes, owner' = owner
  PROVE  AtRest \/ RowMove(EffectAt(d))
<1>1. CASE rows' = rows
  BY <1>1 DEF AtRest
<1>2. CASE /\ ~IsInvocationTerminal(Row(d)) /\ MayHandOff(Row(d), delivery)
           /\ Put(d, StoreWrite(Row(d), HandedOff(Row(d), delivery, handle)))
  <2>1. PICK t : t = HandedOff(Row(d), delivery, handle)
    OBVIOUS
  <2>2. /\ t \in Invocation /\ RowHonest(t, owner[EffectAt(d)], invokes[EffectAt(d)])
        /\ Moves(Row(d), t, invokes[EffectAt(d)])
    BY <1>2, <2>1, HonestCall, HandedOffHonest
  <2>3. QED
    BY <1>2, <2>1, <2>2, PutMove
<1>3. QED
  BY <1>1, <1>2 DEF HandoffTo

(* So does marking a row uncertain. *)
LEMMA MarkUncertainMoves ==
  ASSUME Invs, NEW d \in Dispatchers, call[d].pc \notin {"idle", "mint", "raised"},
         NEW recon \in {"pending", "unsupported"}, NEW status \in {"failed", "blocked"},
         status = "failed" => Row(d).status = "failed",
         MarkUncertain(d, recon, status), invokes' = invokes, owner' = owner
  PROVE  AtRest \/ RowMove(EffectAt(d))
<1>1. CASE rows' = rows
  BY <1>1 DEF AtRest
<1>2. CASE /\ ~IsInvocationTerminal(Row(d)) /\ MayMark(Row(d), status)
           /\ Put(d, StoreWrite(Row(d), Marked(Row(d), recon, status)))
  <2>1. PICK t : t = Marked(Row(d), recon, status)
    OBVIOUS
  <2>2. /\ t \in Invocation /\ RowHonest(t, owner[EffectAt(d)], invokes[EffectAt(d)])
        /\ Moves(Row(d), t, invokes[EffectAt(d)])
    BY <1>2, <2>1, HonestCall, MarkedHonest
  <2>3. QED
    BY <1>2, <2>1, <2>2, PutMove
<1>3. QED
  BY <1>1, <1>2 DEF MarkUncertain

(* Recording a result: the read that the record is built from still agrees *)
(* with the row in all that the record keeps of it.                        *)
LEMMA WriteRecordMoves ==
  ASSUME Invs, Plan, NEW d \in Dispatchers, WriteRecord(d)
  PROVE  AtRest \/ RowMove(EffectAt(d))
<1>1. call[d].pc = "write" /\ invokes' = invokes /\ owner' = owner
  BY DEF WriteRecord, worldVars
<1>2. PICK attested \in BOOLEAN, news \in BOOLEAN :
        \/ rows' = rows
        \/ /\ RecordAccepted(d, attested, news) /\ ~WritesNothing(d, news)
           /\ Put(d, StoreWrite(Row(d), Recording(d)))
  BY DEF WriteRecord
<1>3. CASE rows' = rows
  BY <1>1, <1>3 DEF AtRest
<1>4. CASE /\ RecordAccepted(d, attested, news) /\ ~WritesNothing(d, news)
           /\ Put(d, StoreWrite(Row(d), Recording(d)))
  <2>1. PICK s, td, t : /\ s = call[d].snap /\ td = call[d].todo
                        /\ t = Recorded(s, td.status, td.claim)
    OBVIOUS
  <2>2. /\ s \in Invocation /\ Sound(s) /\ td.claim \in Verdicts
        /\ td.status \in {"completed", "failed", "running", "blocked"}
        /\ EffectOf[s.step] = EffectAt(d)
    BY <1>1, <2>1, HonestCall, StoredRow DEF CallGood, Calls, Todos, EffectAt
  <2>3. s.step = Row(d).step
    <3>1. /\ EffectOf[Row(d).step] = EffectAt(d)
          /\ s.step \in Steps /\ Row(d).step \in Steps
      BY <1>1, <2>2, RunningCall DEF Invs, Invocation, Invocations
    <3>2. QED
      BY <2>2, <3>1 DEF Plan, OwnEffects
  <2>4. s.desc = Row(d).desc /\ s.verdict = Row(d).verdict
    BY <1>1, <2>1, HonestCall DEF CallHonest
  <2>5. Len(s.attempts) = Len(Row(d).attempts)
    BY <1>1, <1>4, <2>1, FreshAttempts DEF Invs
  <2>6. TodoHonest(td, owner[EffectAt(d)])
    BY <1>1, <2>1, HonestCall DEF CallHonest
  <2>7. ASSUME StoreWrite(Row(d), t) # Row(d)
        PROVE  /\ t \in Invocation
               /\ RowHonest(t, owner[EffectAt(d)], invokes[EffectAt(d)])
               /\ Moves(Row(d), t, invokes[EffectAt(d)])
    <3>1. ~IsInvocationTerminal(Row(d)) /\ StoreAccepts(Row(d), t)
      BY <2>7, StoreChanges
    <3>2. /\ Row(d) \in Invocation /\ Row(d) # NoRow
          /\ RowHonest(Row(d), owner[EffectAt(d)], invokes[EffectAt(d)])
      BY <1>1, HonestCall
    <3>3. QED
      BY <2>1, <2>2, <2>3, <2>4, <2>5, <2>6, <3>1, <3>2, RecordedHonest DEF TodoHonest
  <2>8. Put(d, StoreWrite(Row(d), t))
    BY <1>4, <2>1 DEF Recording
  <2>9. QED
    BY <1>1, <2>7, <2>8, PutMove
<1>5. QED
  BY <1>2, <1>3, <1>4

(* A cancellation the capability does not support. *)
LEMMA RequestCancelMoves ==
  ASSUME Invs, NEW d \in Dispatchers, RequestCancel(d)
  PROVE  AtRest \/ RowMove(EffectAt(d))
<1>1. call[d].pc = "cancelling" /\ invokes' = invokes /\ owner' = owner
  BY DEF RequestCancel, worldVars
<1>2. PICK t : t = CancellationRecorded(Row(d), "unsupported", Row(d).status, Row(d).delivery)
  OBVIOUS
<1>3. \/ rows' = rows
      \/ /\ ~IsInvocationTerminal(Row(d)) /\ CancelPending(Row(d))
         /\ Put(d, StoreWrite(Row(d), t))
  BY <1>2 DEF RequestCancel
<1>4. CASE rows' = rows
  BY <1>1, <1>4 DEF AtRest
<1>5. CASE /\ ~IsInvocationTerminal(Row(d)) /\ CancelPending(Row(d))
           /\ Put(d, StoreWrite(Row(d), t))
  <2>1. /\ Row(d) \in Invocation /\ Sound(Row(d)) /\ Row(d) # NoRow
        /\ RowHonest(Row(d), owner[EffectAt(d)], invokes[EffectAt(d)])
    BY <1>1, HonestCall
  <2>2. /\ Row(d).cancelRequested
        /\ Row(d).delivery \in DeliveryStates \ {"not_submitted"}
    BY <1>5, <2>1 DEF CancelPending, Sound, Unsent, Invocation, Invocations
  <2>3. IsInvocationUpdateAllowed(Row(d).status, Row(d).status)
    BY <2>1 DEF IsInvocationUpdateAllowed, AllowedFrom, Invocation, Invocations, Statuses
  <2>4. /\ t \in Invocation /\ RowHonest(t, owner[EffectAt(d)], invokes[EffectAt(d)])
        /\ Moves(Row(d), t, invokes[EffectAt(d)])
    BY <1>2, <1>5, <2>1, <2>2, <2>3, CancellationRecordedHonest DEF CancelStates
  <2>5. QED
    BY <1>1, <1>5, <2>4, PutMove
<1>6. QED
  BY <1>3, <1>4, <1>5

(* The owner's answer to a cancellation, and what the owner did. *)
LEMMA CancelReturnsMoves ==
  ASSUME Invs, NEW d \in Dispatchers,
         NEW answer \in {"completed", "failed", "running", "unknown"},
         CancelReturns(d, answer)
  PROVE  RowMove(EffectAt(d))
<1> DEFINE e == EffectAt(d)
<1>1. call[d].pc = "cancelwait" /\ invokes' = invokes
  BY DEF CancelReturns
<1>2. /\ call[d] \in Calls /\ CallGood(call[d], rows) /\ e \in Effects
      /\ Row(d) \in Invocation /\ Row(d) # NoRow /\ Sound(Row(d))
      /\ RowHonest(Row(d), owner[e], invokes[e])
  BY <1>1, HonestCall
<1>3. owner'[e] = owner[e] \/ (owner[e] # "performed" /\ owner'[e] = "not_performed")
  BY <1>2 DEF CancelReturns, Invs, SeamInv, RestGood
<1>4. RowHonest(Row(d), owner'[e], invokes[e])
  BY <1>2, <1>3 DEF RowHonest, Quiet
<1>5. \A b \in Effects \ {e} : owner'[b] = owner[b]
  BY <1>2 DEF CancelReturns, Invs, SeamInv, RestGood
<1>6. PICK u, status : /\ u = CancelUpdate(answer, call[d].snap)
                       /\ status = IF u.status = "same" THEN Row(d).status ELSE u.status
  OBVIOUS
<1>7. PICK t : t = CancellationRecorded(Row(d), u.state, status, u.delivery)
  OBVIOUS
<1>8. \/ rows' = rows
      \/ /\ ~IsInvocationTerminal(Row(d)) /\ MayRecordCancellation(Row(d), u.state, status)
         /\ Put(d, StoreWrite(Row(d), t))
  BY <1>6, <1>7 DEF CancelReturns
<1>9. CASE rows' = rows
  <2>1. rows' = [rows EXCEPT ![e] = rows[e]]
    BY <1>9 DEF Invs, SeamInv, RowsGood
  <2>2. QED
    BY <1>1, <1>2, <1>4, <1>5, <2>1, SameMoves DEF RowMove, Row
<1>10. CASE /\ ~IsInvocationTerminal(Row(d)) /\ MayRecordCancellation(Row(d), u.state, status)
            /\ Put(d, StoreWrite(Row(d), t))
  <2>1. /\ u.state \in CancelStates
        /\ u.delivery \in DeliveryStates \ {"not_submitted"}
    <3>1. PICK s : s = call[d].snap
      OBVIOUS
    <3>2. s \in Invocation /\ ~Unsent(s)
      BY <1>1, <1>2, <3>1, StoredRow DEF CallGood, Calls
    <3>3. s.delivery \in DeliveryStates \ {"not_submitted"}
      BY <3>2 DEF Invocation, Invocations, Unsent
    <3>4. u = CancelUpdate(answer, s)
      BY <1>6, <3>1
    <3>5. QED
      BY <3>3, <3>4 DEF CancelUpdate, CancelStates, DeliveryStates
  <2>2. /\ Row(d).cancelRequested /\ status \in {Row(d).status, "cancelled"}
        /\ IsInvocationUpdateAllowed(Row(d).status, status)
    BY <1>10 DEF MayRecordCancellation
  <2>3. /\ t \in Invocation /\ RowHonest(t, owner'[e], invokes[e])
        /\ Moves(Row(d), t, invokes[e])
    BY <1>2, <1>4, <1>7, <1>10, <2>1, <2>2, CancellationRecordedHonest
  <2>4. rows' = [rows EXCEPT ![e] = StoreWrite(rows[e], t)]
    BY <1>10 DEF Put, Row
  <2>5. QED
    BY <1>1, <1>2, <1>4, <1>5, <2>3, <2>4, StoredMove DEF Invs, Row
<1>11. QED
  BY <1>8, <1>9, <1>10

(* A retry, the scheduler's or the operator's. *)
LEMMA RetriedMoves ==
  ASSUME Invs, NEW e \in Effects, rows[e] # NoRow, MayRetry(rows[e]),
         NEW delay \in BOOLEAN,
         rows' = [rows EXCEPT ![e] = StoreWrite(@, Retried(@, delay))],
         invokes' = invokes, owner' = owner
  PROVE  RowMove(e)
<1>1. PICK t : t = Retried(rows[e], delay)
  OBVIOUS
<1>2. rows[e] \in Invocation /\ Sound(rows[e])
  BY RowNumbers DEF Invs
<1>3. RowHonest(rows[e], owner[e], invokes[e])
  BY DEF Invs, OwnerInv, RowsHonest
<1>4. t \in Invocation /\ RowHonest(t, owner[e], invokes[e]) /\ Moves(rows[e], t, invokes[e])
  BY <1>1, <1>2, <1>3, RetriedHonest
<1>5. rows' = [rows EXCEPT ![e] = StoreWrite(rows[e], t)]
  BY <1>1
<1>6. QED
  BY <1>3, <1>4, <1>5, StoredMove DEF Invs

(* The clock moves a row, too. *)
LEMMA BackoffMoves ==
  ASSUME Invs, NEW e \in Effects, BackoffElapses(e)
  PROVE  RowMove(e)
<1>1. /\ rows[e] # NoRow /\ invokes' = invokes /\ owner' = owner
      /\ rows' = [rows EXCEPT ![e].due = TRUE]
  BY DEF BackoffElapses, Minted, worldVars
<1>2. PICK t : t = [rows[e] EXCEPT !.due = TRUE]
  OBVIOUS
<1>3. rows[e] \in Invocation /\ RowHonest(rows[e], owner[e], invokes[e])
  BY <1>1, RowNumbers DEF Invs, OwnerInv, RowsHonest
<1>4. /\ t \in Invocation
      /\ t.step = rows[e].step /\ t.desc = rows[e].desc /\ t.status = rows[e].status
      /\ t.attempts = rows[e].attempts /\ t.verdict = rows[e].verdict
      /\ t.delivery = rows[e].delivery /\ t.recon = rows[e].recon
  BY <1>2, <1>3 DEF Invocation, Invocations
<1>5. t # NoRow
  BY <1>4, NoRowAssumption DEF Invocation
<1>6. RowHonest(t, owner[e], invokes[e])
  BY <1>1, <1>3, <1>4, <1>5 DEF RowHonest, Unsent
<1>7. Moves(rows[e], t, invokes[e])
  BY <1>4 DEF Moves, AnswerMoves, AnswerOf
<1>8. QED
  BY <1>1, <1>2, <1>4, <1>6, <1>7 DEF RowMove

-----------------------------------------------------------------------------
(* The call of the dispatcher after its step. *)

(* Calls at these points claim nothing of the owner. *)
Calm == PCs \ {"handoff", "invoke", "handle", "record", "write"}

(* With one dispatcher, its own call is all there is to say of the calls. *)
LEMMA HonestStep ==
  ASSUME Plan, RowsHonest', NEW d \in Dispatchers, NEW c, call'[d] = c,
         CallHonest(c, rows'[EffectOf[c.step]], owner'[EffectOf[c.step]])
  PROVE  OwnerInv'
<1>1. ASSUME NEW b \in Dispatchers
      PROVE  CallHonest(call'[b], rows'[EffectOf[call'[b].step]],
                        owner'[EffectOf[call'[b].step]])
  BY DEF Plan, OneResident
<1>2. QED
  BY <1>1 DEF OwnerInv, CallsHonest

LEMMA CalmStep ==
  ASSUME Plan, RowsHonest', NEW d \in Dispatchers, call'[d].pc \in Calm
  PROVE  OwnerInv'
<1>1. PICK c : c = call'[d]
  OBVIOUS
<1>2. CallHonest(c, rows'[EffectOf[c.step]], owner'[EffectOf[c.step]])
  BY <1>1 DEF CallHonest, Calm
<1>3. QED
  BY <1>1, <1>2, HonestStep

(* Where Goto, Start and Finish lead. *)
LEMMA PcNext ==
  ASSUME Invs, NEW d \in Dispatchers
  PROVE  /\ \A pc \in PCs : Goto(d, pc) => /\ call'[d] = [call[d] EXCEPT !.pc = pc]
                                           /\ call'[d].pc = pc
                                           /\ call'[d].step = call[d].step
                                           /\ call'[d].todo = call[d].todo
         /\ \A pc \in PCs, s \in Steps : Start(d, pc, s) => call'[d].pc = pc
         /\ Finish(d) => call'[d].pc = "idle"
<1>1. call \in [Dispatchers -> Calls]
  BY DEF Invs, SeamInv, CallsGood
<1>2. ASSUME NEW pc \in PCs, Goto(d, pc)
      PROVE  /\ call'[d] = [call[d] EXCEPT !.pc = pc]
             /\ call'[d].pc = pc /\ call'[d].step = call[d].step
             /\ call'[d].todo = call[d].todo
  BY <1>1, <1>2 DEF Goto, Calls
<1>3. ASSUME NEW pc \in PCs, NEW s \in Steps, Start(d, pc, s) PROVE call'[d].pc = pc
  BY <1>1, <1>3 DEF Start, IdleCall
<1>4. Finish(d) => call'[d].pc = "idle"
  BY <1>1 DEF Finish, IdleCall
<1>5. QED
  BY <1>2, <1>3, <1>4

(* A call that goes on to a calm point, or returns. *)
LEMMA GotoCalm ==
  ASSUME Invs, Plan, RowsHonest', NEW d \in Dispatchers, NEW pc \in Calm,
         Goto(d, pc) \/ Finish(d)
  PROVE  OwnerInv'
BY PcNext, CalmStep DEF Calm, PCs

(* A call that goes on with a result that is true of its owner. *)
LEMMA TodoStep ==
  ASSUME Plan, RowsHonest', NEW d \in Dispatchers, NEW c, call'[d] = c,
         c.pc \in {"record", "handle"}, TodoHonest(c.todo, owner'[EffectOf[c.step]])
  PROVE  OwnerInv'
<1>1. CallHonest(c, rows'[EffectOf[c.step]], owner'[EffectOf[c.step]])
  BY DEF CallHonest
<1>2. QED
  BY <1>1, HonestStep

(* What the seam makes of an honest answer is true of the owner. *)
LEMMA AnswersAreHonest ==
  ASSUME NEW res \in Results, NEW desc, NEW o, Honest(res, o)
  PROVE  TodoHonest(TodoOf(res, desc), o) /\ TodoHonest(ReconciledTodoOf(res), o)
<1> DEFINE h == HandleDelivery(res)
           x == [NoTodo EXCEPT !.status = "failed", !.claim = "rejected"]
           v == [NoTodo EXCEPT !.status = InvocationStatusFor(res),
                   !.claim = IF res.verdict = "verified" THEN "verified" ELSE "none"]
           w == CASE ~res.usable -> Uncertain(TRUE)
                  [] res.verdict = "rejected" -> x
                  [] res.usable /\ Unverified(res, desc) -> Uncertain(FALSE)
                  [] OTHER -> v
           t == TodoOf(res, desc)
<1>1. \/ t = [Uncertain(TRUE) EXCEPT !.handle = h]
      \/ res.verdict = "rejected" /\ t = [x EXCEPT !.handle = h]
      \/ t = [Uncertain(FALSE) EXCEPT !.handle = h]
      \/ t = [v EXCEPT !.handle = h]
  <2>1. t = [w EXCEPT !.handle = h]
    BY DEF TodoOf
  <2>2. \/ w \in {Uncertain(TRUE), Uncertain(FALSE), v}
        \/ res.verdict = "rejected" /\ w = x
    <3> HIDE DEF x, v
    <3>1. res.usable \in BOOLEAN
      BY DEF Results
    <3>2. CASE ~res.usable
      BY <3>1, <3>2 DEF Results
    <3>3. CASE res.usable /\ res.verdict = "rejected"
      BY <3>1, <3>3
    <3>4. CASE res.usable /\ res.verdict # "rejected"
      BY <3>1, <3>4
    <3>5. QED
      BY <3>1, <3>2, <3>3, <3>4
  <2> HIDE DEF x, v, w, t, h
  <2>3. QED
    BY <2>1, <2>2
<1> HIDE DEF h
<1>2. \/ t.status = "blocked"
      \/ res.verdict = "rejected" /\ t.status = "failed" /\ t.claim = "rejected"
      \/ t.status = InvocationStatusFor(res) /\ t.claim # "rejected"
  <2> HIDE DEF t
  <2> QED
    BY <1>1 DEF Uncertain, NoTodo
<1>3. TodoHonest(t, o)
  <2> HIDE DEF t
  <2> QED
    BY <1>2 DEF Honest, TodoHonest, InvocationStatusFor, Quiet
<1>4. /\ ReconciledTodoOf(res).status = InvocationStatusFor(res)
      /\ ReconciledTodoOf(res).claim = IF res.verdict \in {"verified", "rejected"}
                                         THEN res.verdict ELSE "none"
  BY DEF ReconciledTodoOf, NoTodo
<1>5. TodoHonest(ReconciledTodoOf(res), o)
  BY <1>4 DEF Honest, TodoHonest, InvocationStatusFor, Quiet
<1>6. QED
  BY <1>3, <1>5

-----------------------------------------------------------------------------
(* The life of an attempt. *)

(* A pass, an error and a pick end at calm points and change no row. *)
LEMMA CalmSteps ==
  ASSUME Invs, Plan, NEW d \in Dispatchers,
         \/ ScanMission(d) \/ EndScan(d) \/ HandleDispatchError(d)
         \/ \E s \in Steps : GateStep(d, s)
         \/ \E e \in Effects : RestoreForDue(d, e) \/ PickActionable(d, e)
  PROVE  AtRest /\ OwnerInv'
<1>1. AtRest
  BY DEF ScanMission, EndScan, HandleDispatchError, GateStep, RestoreForDue,
         PickActionable, worldVars, AtRest
<1>2. RowsHonest'
  BY <1>1, RestHonest DEF Invs
<1>3. CASE \/ ScanMission(d) \/ EndScan(d) \/ \E e \in Effects : RestoreForDue(d, e)
  <2>1. call'[d].pc = "idle"
    BY <1>3 DEF ScanMission, EndScan, RestoreForDue, Free, callVars
  <2>2. QED
    BY <1>1, <1>2, <2>1, CalmStep DEF Calm, PCs
<1>4. CASE HandleDispatchError(d)
  BY <1>1, <1>2, <1>4, PcNext, CalmStep DEF HandleDispatchError, Calm, PCs
<1>5. ASSUME NEW s \in Steps, GateStep(d, s) PROVE OwnerInv'
  <2> DEFINE r == rows[EffectOf[s]]
             pc == CASE ~MissionRuns -> "raised"
                     [] MissionRuns /\ r = NoRow -> "mint"
                     [] MissionRuns /\ r # NoRow /\ r.step # s
                          /\ r.status = "completed" -> "handoff"
                     [] OTHER -> "raised"
  <2>1. r # NoRow => r.step = s
    BY StepsAssumption, StepOfRow DEF Invs, SeamInv, RowsGood, Plan, OwnEffects
  <2>2. pc \in {"raised", "mint"}
    BY <2>1
  <2>3. (call' = call /\ call[d].pc = "idle") \/ Start(d, pc, s)
    BY <1>5 DEF GateStep
  <2> HIDE DEF pc
  <2>4. call'[d].pc \in {"idle", "raised", "mint"}
    BY <2>2, <2>3, PcNext DEF PCs
  <2>5. QED
    BY <1>2, <2>4, CalmStep DEF Calm, PCs
<1>6. ASSUME NEW e \in Effects, PickActionable(d, e) PROVE OwnerInv'
  <2>1. call'[d].pc \in {"cancelling", "observe"}
    BY <1>6 DEF PickActionable, Start, IdleCall, Invs, SeamInv, CallsGood
  <2>2. QED
    BY <1>2, <2>1, CalmStep DEF Calm, PCs
<1>7. QED
  BY <1>1, <1>3, <1>4, <1>5, <1>6

(* A refused input was never given to the owner. *)
LEMMA RejectInputHonest ==
  ASSUME Invs, Plan, NEW d \in Dispatchers, RejectInput(d)
  PROVE  AtRest /\ OwnerInv'
<1>1. AtRest
  BY DEF RejectInput, worldVars, AtRest
<1>2. RowsHonest'
  BY <1>1, RestHonest DEF Invs
<1>3. call[d] \in Calls /\ CallHonest(call[d], Row(d), owner[EffectAt(d)])
  BY HonestCall DEF RejectInput
<1>4. PICK td : td = [NoTodo EXCEPT !.status = "failed", !.swallow = TRUE, !.raise = TRUE]
  OBVIOUS
<1>5. td.status = "failed" /\ td.claim = "none"
  BY <1>4 DEF NoTodo
<1>6. /\ call'[d].pc = "record" /\ call'[d].step = call[d].step
      /\ call'[d].todo = td
  BY <1>3, <1>4 DEF RejectInput, Invs, SeamInv, CallsGood, Calls
<1>7. Quiet(owner[EffectAt(d)])
  BY <1>3 DEF RejectInput, CallHonest
<1>8. TodoHonest(td, owner'[EffectOf[call'[d].step]])
  BY <1>1, <1>5, <1>6, <1>7 DEF TodoHonest, EffectAt, AtRest
<1>9. QED
  BY <1>1, <1>2, <1>6, <1>8, TodoStep

(* The answer to invoke(). *)
LEMMA InvokeReturnsHonest ==
  ASSUME Invs, Plan, NEW d \in Dispatchers, InvokeReturns(d)
  PROVE  AtRest /\ OwnerInv'
<1>1. AtRest
  BY DEF InvokeReturns, worldVars, AtRest
<1>2. RowsHonest'
  BY <1>1, RestHonest DEF Invs
<1>3. PICK res \in Results :
        /\ Honest(res, owner[EffectAt(d)])
        /\ LET todo == TodoOf(res, Row(d).desc)
           IN  call' = [call EXCEPT ![d].todo = todo,
                          ![d].pc = IF todo.handle = "none" THEN "record" ELSE "handle"]
  BY DEF InvokeReturns
<1>4. PICK td : td = TodoOf(res, Row(d).desc)
  OBVIOUS
<1>5. call' = [call EXCEPT ![d].todo = td,
                 ![d].pc = IF td.handle = "none" THEN "record" ELSE "handle"]
  BY <1>3, <1>4
<1>6. /\ call'[d].pc \in {"record", "handle"} /\ call'[d].step = call[d].step
      /\ call'[d].todo = td
  BY <1>5 DEF Invs, SeamInv, CallsGood, Calls
<1>7. TodoHonest(td, owner'[EffectOf[call'[d].step]])
  BY <1>1, <1>3, <1>4, <1>6, AnswersAreHonest DEF AtRest, EffectAt
<1>8. QED
  BY <1>1, <1>2, <1>6, <1>7, TodoStep

(* The answer to reconcile(). *)
LEMMA ReconcileReturnsHonest ==
  ASSUME Invs, Plan, NEW d \in Dispatchers, ReconcileReturns(d)
  PROVE  AtRest /\ OwnerInv'
<1>1. AtRest
  BY DEF ReconcileReturns, worldVars, AtRest
<1>2. RowsHonest'
  BY <1>1, RestHonest DEF Invs
<1>3. PICK res \in Results :
        /\ Honest(res, owner[EffectAt(d)])
        /\ \/ Goto(d, "remark")
           \/ call' = [call EXCEPT ![d].pc = "record", ![d].todo = ReconciledTodoOf(res)]
  BY DEF ReconcileReturns
<1>4. CASE Goto(d, "remark")
  BY <1>1, <1>2, <1>4, GotoCalm DEF Calm, PCs
<1>5. CASE call' = [call EXCEPT ![d].pc = "record", ![d].todo = ReconciledTodoOf(res)]
  <2>1. PICK td : td = ReconciledTodoOf(res)
    OBVIOUS
  <2>2. /\ call'[d].pc = "record" /\ call'[d].step = call[d].step
        /\ call'[d].todo = td
    BY <1>5, <2>1 DEF Invs, SeamInv, CallsGood, Calls
  <2>3. TodoHonest(td, owner'[EffectOf[call'[d].step]])
    BY <1>1, <1>3, <2>1, <2>2, AnswersAreHonest DEF AtRest, EffectAt
  <2>4. QED
    BY <1>1, <1>2, <2>2, <2>3, TodoStep
<1>6. QED
  BY <1>3, <1>4, <1>5

(* The mint gives the effect the row of the step that is dispatched. *)
MintMove(e) ==
  /\ rows[e] = NoRow
  /\ \E d \in Dispatchers, desc \in Capabilities :
       /\ call[d].pc = "mint" /\ call[d].step \in Steps
       /\ rows' = [rows EXCEPT ![e] = NewInvocation(call[d].step, desc)]
  /\ UNCHANGED <<owner, invokes>>

(* invoke() asks an owner that does not hold the effect, for a row that is *)
(* handed over or was cancelled meanwhile, with an attempt that pays.      *)
InvokeMove(e) ==
  /\ rows[e] # NoRow /\ rows[e].status \in {"dispatched", "running", "cancelled"}
  /\ invokes[e] < Len(rows[e].attempts)
  /\ Quiet(owner[e])
  /\ owner' = [owner EXCEPT ![e] = "running"]
  /\ invokes' = [invokes EXCEPT ![e] = @ + 1]
  /\ UNCHANGED rows

(* The new row says nothing of the owner that is not so. *)
LEMMA MintHonest ==
  ASSUME Invs, Plan, NEW d \in Dispatchers, Mint(d)
  PROVE  MintMove(EffectAt(d)) /\ OwnerInv'
<1>1. /\ call[d] \in Calls /\ call[d].step \in Steps /\ call[d].pc = "mint"
      /\ EffectAt(d) \in Effects
  BY StepsAssumption DEF Invs, SeamInv, CallsGood, CallGood, Mint, EffectAt
<1>2. Row(d) = NoRow
  BY <1>1 DEF Invs, BudgetInv, CallPaid, Row, EffectAt
<1>3. PICK desc \in Capabilities : Put(d, NewInvocation(call[d].step, desc))
  BY <1>2 DEF Mint
<1>4. PICK t : t = NewInvocation(call[d].step, desc)
  OBVIOUS
<1>5. /\ t \in Invocation /\ Unsent(t) /\ t.status = "dispatched"
      /\ t.recon = "not_required"
  BY <1>1, <1>4, NewInvocationType DEF Invocation, NewInvocation
<1>6. t # NoRow
  BY <1>5, NoRowAssumption DEF Invocation
<1>7. rows' = [rows EXCEPT ![EffectAt(d)] = t] /\ owner' = owner /\ invokes' = invokes
  BY <1>3, <1>4 DEF Put, Mint, worldVars
<1>8. RowHonest(NoRow, owner[EffectAt(d)], invokes[EffectAt(d)])
  BY <1>1, <1>2 DEF Invs, OwnerInv, RowsHonest, Row
<1>9. Quiet(owner[EffectAt(d)])
  BY <1>8 DEF RowHonest
<1>10. RowHonest(t, owner[EffectAt(d)], invokes[EffectAt(d)])
  BY <1>5, <1>6, <1>9 DEF RowHonest, Quiet
<1>11. ASSUME NEW b \in Effects PROVE RowHonest(rows'[b], owner'[b], invokes'[b])
  BY <1>1, <1>7, <1>10 DEF Invs, SeamInv, RowsGood, OwnerInv, RowsHonest
<1>12. RowsHonest'
  BY <1>11 DEF RowsHonest
<1>13. Goto(d, "handoff")
  BY <1>2 DEF Mint
<1>14. PICK c : c = call'[d]
  OBVIOUS
<1>15. c.pc = "handoff" /\ EffectOf[c.step] = EffectAt(d)
  BY <1>13, <1>14, PcNext DEF PCs, EffectAt
<1>16. rows'[EffectAt(d)] = t
  BY <1>1, <1>7 DEF Invs, SeamInv, RowsGood
<1>17. CallHonest(c, rows'[EffectOf[c.step]], owner'[EffectOf[c.step]])
  BY <1>5, <1>7, <1>9, <1>15, <1>16 DEF CallHonest
<1>18. OwnerInv'
  BY <1>12, <1>14, <1>17, HonestStep
<1>19. MintMove(EffectAt(d))
  BY <1>1, <1>2, <1>4, <1>7 DEF MintMove, Row
<1>20. QED
  BY <1>18, <1>19

(* A handoff brings the call to invoke() with the owner as it was. *)
LEMMA HandoffHonest ==
  ASSUME Invs, Plan, NEW d \in Dispatchers, Handoff(d)
  PROVE  (AtRest \/ RowMove(EffectAt(d))) /\ OwnerInv'
<1>1. /\ call[d].pc = "handoff" /\ invokes' = invokes /\ owner' = owner
      /\ HandoffTo(d, "submitted", FALSE, "invoke")
  BY DEF Handoff, worldVars
<1>2. AtRest \/ RowMove(EffectAt(d))
  BY <1>1, HandoffToMoves DEF DeliveryStates
<1>3. /\ call[d] \in Calls /\ Row(d) \in Invocation /\ Sound(Row(d))
      /\ EffectAt(d) \in Effects
      /\ CallHonest(call[d], Row(d), owner[EffectAt(d)])
  BY <1>1, HonestCall
<1>4. RowsHonest'
  BY <1>2, <1>3, RestHonest, MoveHonest DEF Invs
<1>5. /\ Quiet(owner[EffectAt(d)]) /\ Unsent(Row(d))
      /\ Row(d).status \in {"pending", "dispatched", "cancelled"}
  BY <1>1, <1>3 DEF CallHonest
<1>6. CASE Goto(d, "raised")
  BY <1>2, <1>4, <1>6, GotoCalm DEF Calm, PCs
<1>7. CASE Goto(d, "invoke") /\ ~Goto(d, "raised")
  <2>1. PICK u : u = rows'[EffectAt(d)]
    OBVIOUS
  <2>2. \/ u.status = "cancelled"
        \/ ~Unsent(u) /\ u.recon = "pending" /\ u.status \in {"dispatched", "running"}
    <3>1. CASE IsInvocationTerminal(Row(d)) /\ rows' = rows
      BY <1>5, <2>1, <3>1 DEF IsInvocationTerminal, TerminalStatuses, Row
    <3>2. CASE /\ ~IsInvocationTerminal(Row(d)) /\ MayHandOff(Row(d), "submitted")
               /\ Put(d, StoreWrite(Row(d), HandedOff(Row(d), "submitted", FALSE)))
      <4>1. PICK t : t = HandedOff(Row(d), "submitted", FALSE)
        OBVIOUS
      <4>2. ~Unsent(t) /\ t.status \in {"dispatched", "running"}
        BY <1>3, <4>1, HandedOffType DEF Invocation, DeliveryStates
      <4>3. t.recon = "pending"
        BY <1>3, <4>1 DEF HandedOff, Invocation, Invocations
      <4>4. IsInvocationUpdateAllowed(Row(d).status, t.status)
        BY <1>5, <3>2, <4>2 DEF IsInvocationUpdateAllowed, AllowedFrom, Statuses,
                                IsInvocationTerminal, TerminalStatuses
      <4>5. StoreWrite(Row(d), t) = t
        BY <3>2, <4>4 DEF StoreWrite, StoreAccepts
      <4>6. rows'[EffectAt(d)] = t
        BY <1>3, <3>2, <4>1, <4>5 DEF Put, Invs, SeamInv, RowsGood
      <4>7. QED
        BY <2>1, <4>2, <4>3, <4>6
    <3>3. QED
      BY <1>1, <1>7, <3>1, <3>2 DEF HandoffTo
  <2>3. PICK c : c = call'[d]
    OBVIOUS
  <2>4. c.pc = "invoke" /\ EffectOf[c.step] = EffectAt(d)
    BY <1>7, <2>3, PcNext DEF PCs, EffectAt
  <2>5. CallHonest(c, rows'[EffectOf[c.step]], owner'[EffectOf[c.step]])
    BY <1>1, <1>5, <2>1, <2>2, <2>4 DEF CallHonest
  <2>6. QED
    BY <1>2, <1>4, <2>3, <2>5, HonestStep
<1>8. QED
  BY <1>1, <1>2, <1>6, <1>7 DEF HandoffTo

(* The owner is asked while it does not hold the effect. *)
LEMMA InvokeHonest ==
  ASSUME Invs, Plan, NEW d \in Dispatchers, Invoke(d)
  PROVE  InvokeMove(EffectAt(d)) /\ OwnerInv'
<1> DEFINE e == EffectAt(d)
<1>1. /\ call[d].pc = "invoke" /\ rows' = rows /\ Goto(d, "invoked")
      /\ owner' = [owner EXCEPT ![e] = "running"]
      /\ invokes' = [invokes EXCEPT ![e] = @ + 1]
  BY DEF Invoke
<1>2. /\ e \in Effects /\ Row(d) # NoRow /\ Row(d) \in Invocation
      /\ RowHonest(Row(d), owner[e], invokes[e])
      /\ CallHonest(call[d], Row(d), owner[e]) /\ CallPaid(call[d], rows, invokes)
  BY <1>1, HonestCall
<1>3. invokes[e] < Len(Row(d).attempts)
  BY <1>1, <1>2 DEF CallPaid, Row, EffectAt
<1>4. /\ Quiet(owner[e])
      /\ \/ Row(d).status = "cancelled"
         \/ /\ ~Unsent(Row(d)) /\ Row(d).recon = "pending"
            /\ Row(d).status \in {"dispatched", "running"}
  BY <1>1, <1>2 DEF CallHonest
<1>5. InvokeMove(e)
  BY <1>1, <1>2, <1>3, <1>4 DEF InvokeMove, Row
<1>6. invokes[e] \in Nat /\ owner'[e] = "running" /\ invokes'[e] = invokes[e] + 1
  BY <1>1, <1>2 DEF Invs, SeamInv, RestGood
<1>7. RowHonest(Row(d), owner'[e], invokes'[e])
  <2>1. invokes'[e] > 0
    BY <1>6
  <2>2. QED
    BY <1>2, <1>4, <1>6, <2>1 DEF RowHonest
<1>8. ASSUME NEW b \in Effects PROVE RowHonest(rows'[b], owner'[b], invokes'[b])
  <2>1. CASE b = e
    BY <1>1, <1>7, <2>1 DEF Row
  <2>2. CASE b # e
    BY <1>1, <2>2 DEF Invs, SeamInv, RestGood, OwnerInv, RowsHonest
  <2>3. QED
    BY <2>1, <2>2
<1>9. RowsHonest'
  BY <1>8 DEF RowsHonest
<1>10. QED
  BY <1>1, <1>5, <1>9, GotoCalm DEF Calm, PCs

(* Persisting the operation's reference leaves the result true. *)
LEMMA PersistHandleHonest ==
  ASSUME Invs, Plan, NEW d \in Dispatchers, PersistHandle(d)
  PROVE  (AtRest \/ RowMove(EffectAt(d))) /\ OwnerInv'
<1>1. /\ call[d].pc = "handle" /\ invokes' = invokes /\ owner' = owner
      /\ HandoffTo(d, call[d].todo.handle, TRUE, "record")
  BY DEF PersistHandle, worldVars
<1>2. /\ call[d] \in Calls /\ CallGood(call[d], rows) /\ EffectAt(d) \in Effects
      /\ CallHonest(call[d], Row(d), owner[EffectAt(d)])
  BY <1>1, HonestCall
<1>3. call[d].todo.handle \in DeliveryStates \ {"not_submitted"}
  BY <1>1, <1>2 DEF CallGood, Calls, Todos, DeliveryStates
<1>4. AtRest \/ RowMove(EffectAt(d))
  BY <1>1, <1>3, HandoffToMoves
<1>5. RowsHonest'
  BY <1>2, <1>4, RestHonest, MoveHonest DEF Invs
<1>6. CASE Goto(d, "raised")
  BY <1>4, <1>5, <1>6, GotoCalm DEF Calm, PCs
<1>7. CASE Goto(d, "record")
  <2>1. PICK c : c = call'[d]
    OBVIOUS
  <2>2. c.pc = "record" /\ c.todo = call[d].todo /\ EffectOf[c.step] = EffectAt(d)
    BY <1>7, <2>1, PcNext DEF PCs, EffectAt
  <2>3. TodoHonest(c.todo, owner'[EffectOf[c.step]])
    BY <1>1, <1>2, <2>2 DEF CallHonest
  <2>4. QED
    BY <1>4, <1>5, <2>1, <2>2, <2>3, TodoStep
<1>8. QED
  BY <1>1, <1>6, <1>7 DEF HandoffTo

(* The read that a record is built from agrees with the row. *)
LEMMA ReadForRecordHonest ==
  ASSUME Invs, Plan, NEW d \in Dispatchers, ReadForRecord(d)
  PROVE  AtRest /\ OwnerInv'
<1>1. AtRest
  BY DEF ReadForRecord, worldVars, AtRest
<1>2. RowsHonest'
  BY <1>1, RestHonest DEF Invs
<1>3. /\ call[d] \in Calls /\ call[d].pc = "record"
      /\ CallHonest(call[d], Row(d), owner[EffectAt(d)])
  BY HonestCall DEF ReadForRecord
<1>4. PICK c : c = call'[d]
  OBVIOUS
<1>5. /\ c.pc = "write" /\ c.snap = Row(d) /\ c.todo = call[d].todo
      /\ EffectOf[c.step] = EffectAt(d)
  BY <1>3, <1>4 DEF ReadForRecord, Invs, SeamInv, CallsGood, Calls, EffectAt
<1>6. CallHonest(c, rows'[EffectOf[c.step]], owner'[EffectOf[c.step]])
  BY <1>1, <1>3, <1>5 DEF CallHonest, AtRest, Row
<1>7. QED
  BY <1>1, <1>2, <1>4, <1>6, HonestStep

(* A refused record goes on with a claim less, or with an uncertain one. *)
LEMMA RefusalIsHonest ==
  ASSUME NEW c \in Calls, NEW o, c.pc = "write", TodoHonest(c.todo, o)
  PROVE  \/ AfterRefusal(c).pc \in Calm
         \/ /\ AfterRefusal(c).pc = "record" /\ AfterRefusal(c).step = c.step
            /\ TodoHonest(AfterRefusal(c).todo, o)
<1> DEFINE t == c.todo
           bare == [t EXCEPT !.claim = "none"]
<1>1. CASE t.claim = "verified" /\ ~c.snap.desc.mustVerify
  <2>1. AfterRefusal(c) = [c EXCEPT !.pc = "record", !.todo = bare]
    BY <1>1 DEF AfterRefusal
  <2>2. /\ AfterRefusal(c).pc = "record" /\ AfterRefusal(c).step = c.step
        /\ AfterRefusal(c).todo = bare
    BY <2>1 DEF Calls
  <2>3. bare.status = t.status /\ bare.claim = "none"
    BY DEF Calls, Todos
  <2>4. TodoHonest(bare, o)
    BY <1>1, <2>3 DEF TodoHonest
  <2>5. QED
    BY <2>2, <2>4
<1>2. CASE ~(t.claim = "verified" /\ ~c.snap.desc.mustVerify)
  <2>1. CASE t.recon
    <3>1. AfterRefusal(c) = [c EXCEPT !.pc = "remark"]
      BY <1>2, <2>1 DEF AfterRefusal
    <3>2. QED
      BY <3>1 DEF Calls, Calm, PCs
  <2>2. CASE ~t.recon /\ t.claim # "none"
    <3>1. AfterRefusal(c) = [c EXCEPT !.pc = "record", !.todo = Uncertain(FALSE)]
      BY <1>2, <2>2 DEF AfterRefusal
    <3>2. /\ AfterRefusal(c).pc = "record" /\ AfterRefusal(c).step = c.step
          /\ AfterRefusal(c).todo = Uncertain(FALSE)
      BY <3>1 DEF Calls
    <3>3. Uncertain(FALSE).status = "blocked"
      BY DEF Uncertain, NoTodo
    <3>4. QED
      BY <3>2, <3>3 DEF TodoHonest
  <2>3. CASE ~t.recon /\ t.claim = "none"
    <3>1. AfterRefusal(c) \in {IdleCall, [c EXCEPT !.pc = "raised"]}
      BY <1>2, <2>3 DEF AfterRefusal
    <3>2. QED
      BY <3>1 DEF Calls, Calm, PCs, IdleCall
  <2>4. QED
    BY <2>1, <2>2, <2>3
<1>3. QED
  BY <1>1, <1>2

LEMMA WriteRecordHonest ==
  ASSUME Invs, Plan, NEW d \in Dispatchers, WriteRecord(d)
  PROVE  (AtRest \/ RowMove(EffectAt(d))) /\ OwnerInv'
<1>1. call[d].pc = "write" /\ owner' = owner
  BY DEF WriteRecord, worldVars
<1>2. AtRest \/ RowMove(EffectAt(d))
  BY WriteRecordMoves
<1>3. /\ call[d] \in Calls /\ EffectAt(d) \in Effects
      /\ CallHonest(call[d], Row(d), owner[EffectAt(d)])
  BY <1>1, HonestCall
<1>4. RowsHonest'
  BY <1>2, <1>3, RestHonest, MoveHonest DEF Invs
<1>5. \/ Goto(d, "raised") \/ Finish(d)
      \/ call' = [call EXCEPT ![d] = AfterRefusal(@)]
  BY DEF WriteRecord
<1>6. CASE Goto(d, "raised") \/ Finish(d)
  BY <1>2, <1>4, <1>6, GotoCalm DEF Calm, PCs
<1>7. CASE call' = [call EXCEPT ![d] = AfterRefusal(@)]
  <2>1. PICK c : c = AfterRefusal(call[d])
    OBVIOUS
  <2>2. call'[d] = c
    BY <1>7, <2>1 DEF Invs, SeamInv, CallsGood
  <2>3. \/ c.pc \in Calm
        \/ /\ c.pc = "record" /\ c.step = call[d].step
           /\ TodoHonest(c.todo, owner[EffectAt(d)])
    BY <1>1, <1>3, <2>1, RefusalIsHonest DEF CallHonest
  <2>4. CASE c.pc \in Calm
    BY <1>2, <1>4, <2>2, <2>4, CalmStep
  <2>5. CASE /\ c.pc = "record" /\ c.step = call[d].step
             /\ TodoHonest(c.todo, owner[EffectAt(d)])
    <3>1. TodoHonest(c.todo, owner'[EffectOf[c.step]])
      BY <1>1, <2>5 DEF EffectAt
    <3>2. QED
      BY <1>2, <1>4, <2>2, <2>5, <3>1, TodoStep
  <2>6. QED
    BY <2>3, <2>4, <2>5
<1>8. QED
  BY <1>5, <1>6, <1>7

(* The steps that write and end at a calm point. *)
LEMMA CalmWrites ==
  ASSUME Invs, Plan, NEW d \in Dispatchers,
         \/ Remark(d) \/ RequestCancel(d) \/ Observe(d)
         \/ \E answer \in {"completed", "failed", "running", "unknown"} :
              CancelReturns(d, answer)
  PROVE  (AtRest \/ RowMove(EffectAt(d))) /\ OwnerInv'
<1>1. call[d].pc \notin {"idle", "mint", "raised"}
  BY DEF Remark, RequestCancel, Observe, CancelReturns
<1>2. EffectAt(d) \in Effects /\ call[d] \in Calls
  BY <1>1, HonestCall
<1>3. AtRest \/ RowMove(EffectAt(d))
  <2>1. CASE Remark(d)
    BY <1>1, <2>1, MarkUncertainMoves DEF Remark, worldVars
  <2>2. CASE Observe(d)
    <3>1. PICK status : status = IF Row(d).status = "failed" THEN "failed" ELSE "blocked"
      OBVIOUS
    <3>2. \/ rows' = rows
          \/ MarkUncertain(d, "unsupported", status) \/ MarkUncertain(d, "pending", status)
      BY <2>2, <3>1 DEF Observe
    <3>3. invokes' = invokes /\ owner' = owner
      BY <2>2 DEF Observe, worldVars
    <3>4. CASE rows' = rows
      BY <3>3, <3>4 DEF AtRest
    <3>5. QED
      BY <1>1, <3>1, <3>2, <3>3, <3>4, MarkUncertainMoves
  <2>3. QED
    BY <2>1, <2>2, RequestCancelMoves, CancelReturnsMoves
<1>4. RowsHonest'
  BY <1>2, <1>3, RestHonest, MoveHonest DEF Invs
<1>5. CASE Remark(d)
  BY <1>3, <1>4, <1>5, GotoCalm DEF Remark, Calm, PCs
<1>6. CASE Observe(d)
  <2>1. Finish(d) \/ Goto(d, "reconcile")
    BY <1>6 DEF Observe
  <2>2. QED
    BY <1>3, <1>4, <2>1, GotoCalm DEF Calm, PCs
<1>7. CASE RequestCancel(d)
  <2>1. \/ Goto(d, "observe") \/ Finish(d)
        \/ call' = [call EXCEPT ![d].pc = "cancelwait", ![d].snap = Row(d)]
    BY <1>7 DEF RequestCancel
  <2>2. CASE Goto(d, "observe") \/ Finish(d)
    BY <1>3, <1>4, <2>2, GotoCalm DEF Calm, PCs
  <2>3. CASE call' = [call EXCEPT ![d].pc = "cancelwait", ![d].snap = Row(d)]
    <3>1. call'[d].pc = "cancelwait"
      BY <1>2, <2>3 DEF Invs, SeamInv, CallsGood, Calls
    <3>2. QED
      BY <1>3, <1>4, <3>1, CalmStep DEF Calm, PCs
  <2>4. QED
    BY <2>1, <2>2, <2>3
<1>8. ASSUME NEW answer \in {"completed", "failed", "running", "unknown"},
             CancelReturns(d, answer)
      PROVE  OwnerInv'
  <2>1. Goto(d, "observe") \/ Finish(d)
    BY <1>8 DEF CancelReturns
  <2>2. QED
    BY <1>4, <2>1, GotoCalm DEF Calm, PCs
<1>9. QED
  BY <1>3, <1>5, <1>6, <1>7, <1>8

(* Only a row whose attempt never reached the owner is dispatched again. *)
LEMMA CheckPersistedHonest ==
  ASSUME Invs, Plan, NEW d \in Dispatchers, CheckPersisted(d)
  PROVE  AtRest /\ OwnerInv'
<1>1. AtRest
  BY DEF CheckPersisted, worldVars, AtRest
<1>2. RowsHonest'
  BY <1>1, RestHonest DEF Invs
<1>3. CASE Goto(d, "raised") \/ Finish(d)
  BY <1>1, <1>2, <1>3, GotoCalm DEF Calm, PCs
<1>4. CASE Goto(d, "handoff") /\ PersistedDispatchable(Row(d))
  <2>1. RowHonest(Row(d), owner[EffectAt(d)], invokes[EffectAt(d)]) /\ Row(d) # NoRow
    BY HonestCall DEF CheckPersisted
  <2>2. /\ Unsent(Row(d)) /\ Row(d).status \in {"pending", "dispatched"}
        /\ Quiet(owner[EffectAt(d)])
    BY <1>4, <2>1 DEF PersistedDispatchable, RowHonest, Unsent
  <2>3. PICK c : c = call'[d]
    OBVIOUS
  <2>4. c.pc = "handoff" /\ EffectOf[c.step] = EffectAt(d)
    BY <1>4, <2>3, PcNext DEF PCs, EffectAt
  <2>5. CallHonest(c, rows'[EffectOf[c.step]], owner'[EffectOf[c.step]])
    BY <1>1, <2>2, <2>4 DEF CallHonest, AtRest, Row
  <2>6. QED
    BY <1>1, <1>2, <2>3, <2>5, HonestStep
<1>5. QED
  BY <1>3, <1>4 DEF CheckPersisted

(* Picking a due row may open another attempt. *)
LEMMA PickDueHonest ==
  ASSUME Invs, Plan, NEW d \in Dispatchers, NEW e \in Effects, PickDue(d, e)
  PROVE  (AtRest \/ RowMove(e)) /\ OwnerInv'
<1>1. rows[e] # NoRow /\ invokes' = invokes /\ owner' = owner
  BY DEF PickDue, DueRow, worldVars
<1>2. rows[e].step \in Steps /\ rows[e].backoff \in BOOLEAN
  BY <1>1, StepOfRow DEF Invs
<1>5. AtRest \/ RowMove(e)
  <2>1. CASE rows' = rows
    BY <1>1, <2>1 DEF AtRest
  <2>2. CASE /\ MayRetry(rows[e])
             /\ rows' = [rows EXCEPT ![e] = StoreWrite(@, Retried(@, rows[e].backoff))]
    BY <1>1, <1>2, <2>2, RetriedMoves
  <2>3. QED
    BY <2>1, <2>2 DEF PickDue
<1>6. RowsHonest'
  BY <1>5, RestHonest, MoveHonest DEF Invs
<1>7. call'[d].pc = "persisted"
  <2>1. Start(d, "persisted", rows[e].step)
    BY DEF PickDue
  <2>2. QED
    BY <1>2, <2>1, PcNext DEF PCs
<1>8. QED
  BY <1>5, <1>6, <1>7, CalmStep DEF Calm, PCs

(* The row of one effect is all that a step of the dispatcher moves. *)
Move(e) == RowMove(e) \/ MintMove(e) \/ InvokeMove(e)

(* Every step of the dispatcher. *)
LEMMA DispatchHonest ==
  ASSUME Invs, Plan, NEW d \in Dispatchers, Dispatch(d)
  PROVE  OwnerInv' /\ (AtRest \/ \E e \in Effects : Move(e))
<1>1. CASE call[d].pc = "idle"
  <2>1. \/ ScanMission(d) \/ EndScan(d)
        \/ \E s \in Steps : GateStep(d, s)
        \/ \E e \in Effects : RestoreForDue(d, e) \/ PickDue(d, e) \/ PickActionable(d, e)
    BY <1>1 DEF Dispatch, Mint, RejectInput, Handoff, Invoke, InvokeReturns, PersistHandle,
                ReadForRecord, WriteRecord, Remark, HandleDispatchError, CheckPersisted,
                RequestCancel, Observe, ReconcileReturns, CancelReturns
  <2>2. QED
    BY <2>1, CalmSteps, PickDueHonest DEF Move
<1>2. CASE call[d].pc # "idle"
  <2>1. EffectAt(d) \in Effects
    BY <1>2, StepsAssumption DEF Invs, SeamInv, CallsGood, CallGood, EffectAt
  <2>2. OwnerInv' /\ (AtRest \/ Move(EffectAt(d)) \/ \E e \in Effects : Move(e))
    BY CalmSteps, RejectInputHonest, InvokeReturnsHonest, ReconcileReturnsHonest,
       MintHonest, HandoffHonest, InvokeHonest, PersistHandleHonest, ReadForRecordHonest,
       WriteRecordHonest, CalmWrites, CheckPersistedHonest, PickDueHonest
    DEF Dispatch, Move
  <2>3. QED
    BY <2>1, <2>2
<1>3. QED
  BY <1>1, <1>2

-----------------------------------------------------------------------------
(* The operator, the owner, the clock, the host process. *)

(* What they may do to a row that a call counts on. *)
CallKept(r, t) ==
  /\ t.desc = r.desc /\ t.verdict = r.verdict
  /\ r.status # "failed" => /\ t.delivery = r.delivery
                            /\ t.status \in {r.status, "cancelled"}
                            /\ t.recon \in {r.recon, "pending"}

(* Only an owner that is acting changes by itself, and the rows allow it. *)
LEMMA EnvironmentHonestStep ==
  ASSUME Invs, RowsHonest', call' = call,
         \A e \in Effects : rows[e] # NoRow => CallKept(rows[e], rows'[e]),
         \A e \in Effects : owner[e] # "running" => owner'[e] = owner[e]
  PROVE  OwnerInv'
<1>1. ASSUME NEW d \in Dispatchers
      PROVE  CallHonest(call'[d], rows'[EffectOf[call'[d].step]],
                        owner'[EffectOf[call'[d].step]])
  <2>1. PICK c, e : c = call[d] /\ e = EffectOf[c.step]
    OBVIOUS
  <2>2. CallGood(c, rows) /\ CallHonest(c, rows[e], owner[e])
    BY <2>1 DEF Invs, SeamInv, CallsGood, OwnerInv, CallsHonest
  <2>3. CASE c.pc \in {"handoff", "invoke", "handle", "record", "write"}
    <3>1. e \in Effects /\ rows[e] # NoRow
      BY <2>1, <2>2, <2>3, StepsAssumption DEF CallGood
    <3>2. CallKept(rows[e], rows'[e]) /\ (owner[e] # "running" => owner'[e] = owner[e])
      BY <3>1
    <3>3. TodoHonest(c.todo, owner[e]) => TodoHonest(c.todo, owner'[e])
      BY <3>2 DEF TodoHonest, Quiet
    <3>4. CallHonest(c, rows'[e], owner'[e])
      BY <2>2, <3>2, <3>3 DEF CallHonest, CallKept, Unsent, Quiet
    <3>5. QED
      BY <2>1, <3>4
  <2>4. CASE c.pc \notin {"handoff", "invoke", "handle", "record", "write"}
    BY <2>1, <2>4 DEF CallHonest
  <2>5. QED
    BY <2>3, <2>4
<1>2. QED
  BY <1>1 DEF OwnerInv, CallsHonest

(* A cancelled Mission withdraws what never crossed the boundary. *)
LEMMA CancelMissionHonest ==
  ASSUME Invs, CancelMission PROVE OwnerInv'
<1>1. owner' = owner /\ invokes' = invokes /\ call' = call
  BY DEF CancelMission, worldVars, callVars
<1>2. ASSUME NEW e \in Effects
      PROVE  /\ RowHonest(rows'[e], owner[e], invokes[e])
             /\ rows[e] # NoRow => CallKept(rows[e], rows'[e])
  <2>1. RowHonest(rows[e], owner[e], invokes[e])
    BY DEF Invs, OwnerInv, RowsHonest
  <2>2. CASE rows[e] = NoRow
    BY <2>1, <2>2 DEF CancelMission, Minted
  <2>3. CASE rows[e] # NoRow
    <3>1. PICK t : t = CancelledByMission(rows[e])
      OBVIOUS
    <3>2. rows[e] \in Invocation /\ Sound(rows[e])
      BY <2>3, RowNumbers DEF Invs
    <3>3. /\ RowHonest(t, owner[e], invokes[e])
          /\ t.desc = rows[e].desc /\ t.verdict = rows[e].verdict
          /\ t.delivery = rows[e].delivery /\ t.recon \in {rows[e].recon, "pending"}
          /\ t.status \in {rows[e].status, "cancelled"}
      BY <2>1, <2>3, <3>1, <3>2, CancelledByMissionHonest
    <3>4. rows'[e] = rows[e] \/ rows'[e] = t
      BY <2>3, <3>1, StoreWriteChoice DEF CancelMission, Minted
    <3>5. QED
      BY <2>1, <3>3, <3>4 DEF CallKept
  <2>4. QED
    BY <2>2, <2>3
<1>3. RowsHonest'
  BY <1>1, <1>2 DEF RowsHonest
<1>4. QED
  BY <1>1, <1>2, <1>3, EnvironmentHonestStep

(* A retry asked for by the operator, and the clock, move one row. *)
LEMMA OneRowHonest ==
  ASSUME Invs, NEW e \in Effects, PrepareDelayedRetry(e) \/ BackoffElapses(e)
  PROVE  RowMove(e) /\ OwnerInv'
<1>1. /\ rows[e] # NoRow /\ owner' = owner /\ invokes' = invokes /\ call' = call
      /\ rows[e] \in Invocation
  BY RowNumbers DEF PrepareDelayedRetry, BackoffElapses, Minted, worldVars, callVars, Invs
<1>2. RowMove(e)
  BY <1>1, RetriedMoves, BackoffMoves DEF PrepareDelayedRetry
<1>3. RowsHonest'
  BY <1>2, MoveHonest DEF Invs
<1>4. CallKept(rows[e], rows'[e])
  <2>1. CASE PrepareDelayedRetry(e)
    <3>1. PICK t : t = Retried(rows[e], TRUE)
      OBVIOUS
    <3>2. t.desc = rows[e].desc /\ t.verdict = rows[e].verdict
      BY <1>1, <3>1 DEF Retried, Invocation, Invocations
    <3>3. rows'[e] = StoreWrite(rows[e], t)
      BY <2>1, <3>1 DEF PrepareDelayedRetry, Invs, SeamInv, RowsGood
    <3>4. rows'[e] \in {rows[e], t} /\ rows[e].status = "failed"
      BY <2>1, <3>3, StoreWriteChoice DEF PrepareDelayedRetry, MayRetry, IsSafeRetryEligible
    <3>5. QED
      BY <3>2, <3>4 DEF CallKept
  <2>2. CASE BackoffElapses(e)
    <3>1. rows'[e] = [rows[e] EXCEPT !.due = TRUE]
      BY <2>2 DEF BackoffElapses, Invs, SeamInv, RowsGood
    <3>2. QED
      BY <1>1, <3>1 DEF CallKept, Invocation, Invocations
  <2>3. QED
    BY <2>1, <2>2
<1>5. \A b \in Effects \ {e} : rows'[b] = rows[b]
  BY DEF PrepareDelayedRetry, BackoffElapses, Invs, SeamInv, RowsGood
<1>6. \A b \in Effects : CallKept(rows[b], rows'[b])
  BY <1>4, <1>5 DEF CallKept
<1>7. QED
  BY <1>1, <1>2, <1>3, <1>6, EnvironmentHonestStep

(* The owner finishes: performed or not, no record was made of it yet. *)
LEMMA OwnerFinishesHonest ==
  ASSUME Invs, NEW e \in Effects, OwnerFinishes(e)
  PROVE  OwnerInv'
<1>1. rows' = rows /\ invokes' = invokes /\ call' = call /\ owner[e] = "running"
  BY DEF OwnerFinishes, callVars
<1>2. PICK o \in {"performed", "not_performed"} : owner' = [owner EXCEPT ![e] = o]
  BY DEF OwnerFinishes
<1>3. \A b \in Effects : owner'[b] = IF b = e THEN o ELSE owner[b]
  BY <1>2 DEF Invs, SeamInv, RestGood
<1>4. RowHonest(rows[e], owner[e], invokes[e])
  BY DEF Invs, OwnerInv, RowsHonest
<1>5. RowHonest(rows[e], o, invokes[e])
  BY <1>1, <1>2, <1>4 DEF RowHonest, Quiet
<1>6. RowsHonest'
  BY <1>1, <1>3, <1>5 DEF RowsHonest, Invs, OwnerInv
<1>7. \A b \in Effects : rows[b] # NoRow => CallKept(rows[b], rows'[b])
  BY <1>1 DEF CallKept
<1>8. QED
  BY <1>1, <1>3, <1>6, <1>7, EnvironmentHonestStep

(* A crash forgets the calls. *)
LEMMA CrashHonest ==
  ASSUME Invs, Crash PROVE AtRest /\ OwnerInv'
<1>1. AtRest
  BY DEF Crash, worldVars, AtRest
<1>2. RowsHonest'
  BY <1>1, RestHonest DEF Invs
<1>3. ASSUME NEW d \in Dispatchers
      PROVE  CallHonest(call'[d], rows'[EffectOf[call'[d].step]],
                        owner'[EffectOf[call'[d].step]])
  <2>1. call'[d].pc = "idle"
    BY DEF Crash, IdleCall
  <2>2. PICK c : c = call'[d]
    OBVIOUS
  <2>3. QED
    BY <2>1, <2>2 DEF CallHonest
<1>4. QED
  BY <1>1, <1>2, <1>3 DEF OwnerInv, CallsHonest

(* Missions pause, resume and are replanned, capabilities come and go. *)
LEMMA ElsewhereHonest ==
  ASSUME Invs, PauseMission \/ ResumeMission \/ ReplanAccepted \/ SetAvailability
  PROVE  AtRest /\ OwnerInv'
BY DEF PauseMission, ResumeMission, ReplanAccepted, SetAvailability, worldVars, callVars,
       AtRest, Invs, OwnerInv, RowsHonest, CallsHonest

-----------------------------------------------------------------------------
(* The whole path. *)

(* At the start nothing is minted and no owner is asked. *)
LEMMA OwnerInvInit == Init => OwnerInv
<1>1. ASSUME Init, NEW d \in Dispatchers
      PROVE  CallHonest(call[d], rows[EffectOf[call[d].step]], owner[EffectOf[call[d].step]])
  <2>1. PICK c : c = call[d]
    OBVIOUS
  <2>2. c.pc = "idle"
    BY <1>1, <2>1 DEF Init, IdleCall
  <2>3. QED
    BY <2>1, <2>2 DEF CallHonest
<1>2. QED
  BY <1>1 DEF Init, OwnerInv, RowsHonest, RowHonest, Quiet, CallsHonest

(* What a step may do to the rows and to the calls of the owner. *)
LEMMA NextMoves ==
  ASSUME Invs, Plan, Next
  PROVE  /\ OwnerInv'
         /\ \/ rows' = rows /\ invokes' = invokes
            \/ \E e \in Effects : Move(e)
            \/ CancelMission
<1>1. ASSUME NEW d \in Dispatchers, Dispatch(d)
      PROVE  OwnerInv' /\ (AtRest \/ \E e \in Effects : Move(e))
  BY <1>1, DispatchHonest
<1>2. ASSUME Environment
      PROVE  /\ OwnerInv'
             /\ \/ rows' = rows /\ invokes' = invokes
                \/ \E e \in Effects : Move(e)
                \/ CancelMission
  <2>1. CASE CancelMission
    BY <2>1, CancelMissionHonest
  <2>2. CASE Crash \/ PauseMission \/ ResumeMission \/ ReplanAccepted \/ SetAvailability
    BY <2>2, CrashHonest, ElsewhereHonest DEF AtRest
  <2>3. ASSUME NEW e \in Effects, PrepareDelayedRetry(e) \/ BackoffElapses(e)
        PROVE  OwnerInv' /\ Move(e)
    BY <2>3, OneRowHonest DEF Move
  <2>4. ASSUME NEW e \in Effects, OwnerFinishes(e)
        PROVE  OwnerInv' /\ rows' = rows /\ invokes' = invokes
    BY <2>4, OwnerFinishesHonest DEF OwnerFinishes
  <2>5. QED
    BY <1>2, <2>1, <2>2, <2>3, <2>4 DEF Environment
<1>3. QED
  BY <1>1, <1>2 DEF Next, AtRest

(* The rows are honest, and the calls know it: the inductive invariant,    *)
(* beside those of the rows and of the budget.                             *)
THEOREM OwnerInvariant ==
  ASSUME OneResident, OwnEffects PROVE Spec => [](SeamInv /\ BudgetInv /\ OwnerInv)
<1>1. SeamInv /\ BudgetInv /\ OwnerInv /\ [Next]_vars => OwnerInv'
  <2>1. OwnerInv /\ UNCHANGED vars => OwnerInv'
    BY DEF vars, OwnerInv, RowsHonest, CallsHonest
  <2>2. QED
    BY <2>1, NextMoves DEF Invs, Plan
<1>2. QED
  BY <1>1, OwnerInvInit, SeamInvariant, BudgetInvariant, PTL DEF Spec

(* recordInvocationResult and recordReconciledInvocationResult never       *)
(* invent an outcome: a COMPLETED row was performed by the owner, a FAILED *)
(* one was not, unless the owner rejected it.                              *)
THEOREM RecordsAreHonest ==
  ASSUME OneResident, OwnEffects PROVE Spec => []HonestRecord
<1>1. OwnerInv => HonestRecord
  BY DEF OwnerInv, RowsHonest, RowHonest, Quiet, HonestRecord, Minted
<1>2. QED
  BY <1>1, OwnerInvariant, PTL

(* An effect under way is always in the row: the first part of a pass      *)
(* reconciles it, or only an operator can, or it was cancelled.            *)
THEOREM EffectsAreRemembered ==
  ASSUME OneResident, OwnEffects PROVE Spec => []NothingForgotten
<1>1. SeamInv /\ OwnerInv => NothingForgotten
  <2> SUFFICES ASSUME SeamInv, OwnerInv, NEW e \in Effects, owner[e] = "running"
               PROVE  \/ ActionableRow(rows[e]) \/ rows[e].recon = "unsupported"
                      \/ rows[e].status = "cancelled"
    BY DEF NothingForgotten
  <2>1. RowHonest(rows[e], owner[e], invokes[e])
    BY DEF OwnerInv, RowsHonest
  <2>2. rows[e] # NoRow /\ rows[e].status # "completed"
    BY <2>1 DEF RowHonest, Quiet
  <2>3. \/ rows[e].status = "cancelled"
        \/ ~Unsent(rows[e]) /\ rows[e].recon \in {"pending", "unsupported"}
    BY <2>1, <2>2 DEF RowHonest
  <2>4. QED
    BY <2>2, <2>3 DEF ActionableRow, IsInvocationTerminal, TerminalStatuses, Unsent
<1>2. QED
  BY <1>1, OwnerInvariant, PTL

(* dispatchThroughSeam never calls invoke() for an effect the owner is     *)
(* acting on or has performed.                                             *)
THEOREM InvokedWhileQuiet ==
  ASSUME OneResident, OwnEffects PROVE Spec => NeverReplayed
<1> DEFINE A == \A e \in Effects :
                  invokes'[e] > invokes[e] => owner[e] \in {"idle", "not_performed"}
<1>1. SeamInv /\ BudgetInv /\ OwnerInv /\ [Next]_vars => [A]_vars
  <2> SUFFICES ASSUME Invs, Next, NEW e \in Effects, invokes'[e] > invokes[e]
               PROVE  Quiet(owner[e])
    BY DEF Invs, Quiet
  <2>1. invokes \in [Effects -> Nat]
    BY DEF Invs, SeamInv, RestGood
  <2>2. invokes' # invokes
    BY <2>1
  <2>3. PICK b \in Effects : InvokeMove(b)
    BY <2>2, NextMoves DEF Plan, Move, RowMove, MintMove, CancelMission, worldVars
  <2>4. b = e
    BY <2>1, <2>3 DEF InvokeMove
  <2>5. QED
    BY <2>3, <2>4 DEF InvokeMove
<1>2. QED
  BY <1>1, OwnerInvariant, PTL DEF Spec, NeverReplayed

-----------------------------------------------------------------------------
(* The rows keep the ledger of effects. *)

(* No effect has an entry at the start. *)
LEMMA LedgerStarts == Init => Ledger!LedgerInit
BY DEF Init, Ledger!LedgerInit, Minted

(* The entries are those of the rows and of the calls of the owner. *)
LEMMA LedgerStays ==
  ASSUME rows' = rows, invokes' = invokes PROVE UNCHANGED Ledger!ledgerVars
BY DEF Ledger!ledgerVars, Minted

(* The mint opens the effect's first attempt. *)
LEMMA LedgerOpens ==
  ASSUME Invs, NEW e \in Effects, MintMove(e) PROVE Ledger!LedgerNext
<1>1. PICK s \in Steps, desc \in Capabilities :
        rows' = [rows EXCEPT ![e] = NewInvocation(s, desc)]
  BY DEF MintMove
<1>2. PICK t : t = NewInvocation(s, desc)
  OBVIOUS
<1>3. /\ t \in Invocation /\ Len(t.attempts) = 1 /\ t.status = "dispatched"
      /\ t.desc = desc
  BY <1>2, NewInvocationType DEF Invocation, NewInvocation
<1>4. t # NoRow
  BY <1>3, NoRowAssumption DEF Invocation
<1>5. \A b \in Effects : rows'[b] = IF b = e THEN t ELSE rows[b]
  BY <1>1, <1>2 DEF Invs, SeamInv, RowsGood
<1>6. rows[e] = NoRow /\ invokes' = invokes
  BY DEF MintMove
<1>7. AnswerOf(t) = "none"
  BY <1>3 DEF AnswerOf
<1>8. BudgetOf(desc) \in {BudgetOf(x) : x \in Capabilities}
  OBVIOUS
<1>9. Ledger!Open(e)
  BY <1>3, <1>4, <1>5, <1>6, <1>7, <1>8 DEF Ledger!Open, Minted
<1>10. QED
  BY <1>9 DEF Ledger!LedgerNext

(* invoke() sends it. *)
LEMMA LedgerSends ==
  ASSUME Invs, NEW e \in Effects, InvokeMove(e) PROVE Ledger!LedgerNext
<1>1. AnswerOf(rows[e]) \in {"none", "withdrawn"}
  BY DEF InvokeMove, AnswerOf
<1>2. Ledger!Send(e)
  BY <1>1 DEF InvokeMove, Ledger!Send, Minted
<1>3. QED
  BY <1>2 DEF Ledger!LedgerNext

(* A row that moves settles its effect, turns what was not performed into  *)
(* a rejection, or opens another attempt.                                  *)
LEMMA LedgerMoves ==
  ASSUME Invs, NEW e \in Effects, RowMove(e)
  PROVE  Ledger!LedgerNext \/ UNCHANGED Ledger!ledgerVars
<1>1. PICK t \in Invocation : /\ rows' = [rows EXCEPT ![e] = t]
                              /\ Moves(rows[e], t, invokes[e])
  BY DEF RowMove
<1>2. t # NoRow /\ rows[e] # NoRow /\ invokes' = invokes
  BY <1>1, NoRowAssumption DEF Invocation, RowMove
<1>3. \A b \in Effects : rows'[b] = IF b = e THEN t ELSE rows[b]
  BY <1>1 DEF Invs, SeamInv, RowsGood
<1>4. PICK r : r = rows[e]
  OBVIOUS
<1>5. Len(r.attempts) \in Nat /\ Len(r.attempts) > 0 /\ t.desc = r.desc
  BY <1>1, <1>2, <1>4, RowNumbers DEF Invs, Sound, Moves
<1>6. CASE Len(t.attempts) = Len(r.attempts) /\ AnswerOf(t) = AnswerOf(r)
  BY <1>2, <1>3, <1>4, <1>5, <1>6 DEF Ledger!ledgerVars, Minted
<1>7. CASE /\ Len(t.attempts) = Len(r.attempts)
           /\ AnswerOf(r) = "none"
           /\ AnswerOf(t) \in {"performed", "not_performed", "rejected", "withdrawn"}
           /\ AnswerOf(t) = "performed" => invokes[e] > 0
  <2>1. Ledger!Settle(e, AnswerOf(t))
    BY <1>2, <1>3, <1>4, <1>5, <1>7 DEF Ledger!Settle, Minted
  <2>2. AnswerOf(t) \in Ledger!Answers \ {"none"}
    BY <1>7 DEF Ledger!Answers
  <2>3. QED
    BY <2>1, <2>2 DEF Ledger!LedgerNext
<1>8. CASE /\ Len(t.attempts) = Len(r.attempts)
           /\ AnswerOf(r) = "not_performed" /\ AnswerOf(t) = "rejected"
  <2>1. Ledger!Reject(e)
    BY <1>2, <1>3, <1>4, <1>5, <1>8 DEF Ledger!Reject, Minted
  <2>2. QED
    BY <2>1 DEF Ledger!LedgerNext
<1>9. CASE /\ Len(t.attempts) = Len(r.attempts) + 1
           /\ AnswerOf(r) = "not_performed" /\ AnswerOf(t) = "none"
           /\ Len(r.attempts) < BudgetOf(r.desc)
  <2>1. Ledger!Reopen(e)
    BY <1>2, <1>3, <1>4, <1>5, <1>9 DEF Ledger!Reopen, Minted
  <2>2. QED
    BY <2>1 DEF Ledger!LedgerNext
<1>10. QED
  BY <1>1, <1>4, <1>6, <1>7, <1>8, <1>9 DEF Moves, AnswerMoves

(* What cancelMission makes of one row of the ledger. *)
LEMMA CancelledEntry ==
  ASSUME Invs, CancelMission, NEW e \in Effects, rows[e] # NoRow
  PROVE  /\ rows'[e] # NoRow /\ rows'[e].desc = rows[e].desc
         /\ rows'[e].step = rows[e].step
         /\ rows[e].status = "completed" => rows'[e].status = "completed"
         /\ Len(rows'[e].attempts) = Len(rows[e].attempts)
         /\ \/ AnswerOf(rows'[e]) = AnswerOf(rows[e])
            \/ AnswerOf(rows[e]) = "none" /\ AnswerOf(rows'[e]) = "withdrawn"
<1>1. PICK r, t : r = rows[e] /\ t = CancelledByMission(r)
  OBVIOUS
<1>2. r \in Invocation /\ Sound(r) /\ RowHonest(r, owner[e], invokes[e])
  BY <1>1, RowNumbers DEF Invs, OwnerInv, RowsHonest
<1>3. /\ t \in Invocation /\ t.desc = r.desc /\ t.verdict = r.verdict
      /\ r.status \in {"completed", "cancelled"} => t.status = r.status
      /\ SameAttempts(r, t)
      /\ \/ t.status = r.status
         \/ t.status = "cancelled" /\ AnswerOf(r) = "none"
  BY <1>1, <1>2, CancelledByMissionHonest
<1>4. t # NoRow
  BY <1>3, NoRowAssumption DEF Invocation
<1>5. \/ AnswerOf(t) = AnswerOf(r)
      \/ AnswerOf(r) = "none" /\ AnswerOf(t) = "withdrawn"
  BY <1>3 DEF AnswerOf
<1>6. rows'[e] = r \/ rows'[e] = t
  BY <1>1, StoreWriteChoice DEF CancelMission, Minted
<1>7. QED
  BY <1>1, <1>3, <1>4, <1>5, <1>6 DEF SameAttempts

(* cancelMission withdraws, at once, every attempt that never crossed the  *)
(* boundary.                                                               *)
LEMMA LedgerWithdraws ==
  ASSUME Invs, CancelMission PROVE Ledger!LedgerNext
<1> DEFINE W == {e \in Effects : /\ rows[e] # NoRow /\ AnswerOf(rows[e]) = "none"
                                 /\ AnswerOf(rows'[e]) = "withdrawn"}
<1>1. \A e \in Effects : rows[e] = NoRow => rows'[e] = NoRow
  BY DEF CancelMission, Minted
<1>2. \A e \in W : Len(rows[e].attempts) > 0
  BY RowNumbers DEF Invs, Sound
<1>3. invokes' = invokes
  BY DEF CancelMission, worldVars
<1>4. \A e \in Effects : rows[e] # NoRow =>
        /\ rows'[e] # NoRow /\ rows'[e].desc = rows[e].desc
        /\ Len(rows'[e].attempts) = Len(rows[e].attempts)
        /\ AnswerOf(rows'[e]) = IF e \in W THEN "withdrawn" ELSE AnswerOf(rows[e])
  BY CancelledEntry
<1>5. Ledger!Withdraw(W)
  <2> HIDE DEF W
  <2>1. \A e \in W : e \in Effects /\ rows[e] # NoRow /\ AnswerOf(rows[e]) = "none"
    BY DEF W
  <2>2. QED
    BY <1>1, <1>2, <1>3, <1>4, <2>1 DEF Ledger!Withdraw, Minted
<1>6. QED
  BY <1>5 DEF Ledger!LedgerNext

(* The path from the scheduler to the record implements the ledger: an     *)
(* effect is opened once per attempt, sent at most once per opening,       *)
(* answered once, and reopened only when its owner did not perform it.     *)
THEOREM KeepsLedger ==
  ASSUME OneResident, OwnEffects PROVE Spec => ImplementsLedger
<1>1. SeamInv /\ BudgetInv /\ OwnerInv /\ [Next]_vars
        => [Ledger!LedgerNext]_(Ledger!ledgerVars)
  <2>1. UNCHANGED vars => UNCHANGED Ledger!ledgerVars
    BY LedgerStays DEF vars
  <2>2. ASSUME Invs, Next PROVE Ledger!LedgerNext \/ UNCHANGED Ledger!ledgerVars
    BY <2>2, NextMoves, LedgerStays, LedgerOpens, LedgerSends, LedgerMoves, LedgerWithdraws
    DEF Plan, Move
  <2>3. QED
    BY <2>1, <2>2 DEF Invs
<1>2. QED
  BY <1>1, LedgerStarts, OwnerInvariant, PTL DEF Spec, ImplementsLedger, Ledger!LedgerSpec

-----------------------------------------------------------------------------
(* Dependencies. *)

(* Every step that step s depends on has completed. *)
DepsDone(s, rs) ==
  \A t \in Deps[s] : rs[EffectOf[t]] # NoRow /\ rs[EffectOf[t]].status = "completed"

(* A step is dispatched, and has a row, once its dependencies completed:   *)
(* known when the pass selected it, and so ever after.                     *)
DepsInv ==
  /\ \A e \in Effects : rows[e] # NoRow => DepsDone(rows[e].step, rows)
  /\ \A d \in Dispatchers :
       /\ \A s \in agenda[d] \ {NoStep} : DepsDone(s, rows)
       /\ call[d].pc = "mint" => DepsDone(call[d].step, rows)

(* A row stays a row of its step, and COMPLETED is for ever. *)
LEMMA RowsLast ==
  ASSUME Invs, Plan, Next, NEW e \in Effects, rows[e] # NoRow
  PROVE  /\ rows'[e] # NoRow /\ rows'[e].step = rows[e].step
         /\ rows[e].status = "completed" => rows'[e].status = "completed"
<1>1. CASE rows' = rows
  BY <1>1
<1>2. CASE CancelMission
  BY <1>2, CancelledEntry
<1>3. ASSUME NEW b \in Effects, RowMove(b)
      PROVE  /\ rows'[e] # NoRow /\ rows'[e].step = rows[e].step
             /\ rows[e].status = "completed" => rows'[e].status = "completed"
  <2>1. PICK t \in Invocation : /\ rows' = [rows EXCEPT ![b] = t]
                                /\ Moves(rows[b], t, invokes[b])
    BY <1>3 DEF RowMove
  <2>2. t # NoRow
    BY NoRowAssumption DEF Invocation
  <2>3. rows'[e] = IF e = b THEN t ELSE rows[e]
    BY <2>1 DEF Invs, SeamInv, RowsGood
  <2>4. QED
    BY <2>1, <2>2, <2>3 DEF Moves
<1>4. ASSUME NEW b \in Effects, MintMove(b) PROVE rows'[e] = rows[e]
  BY <1>4 DEF MintMove, Invs, SeamInv, RowsGood
<1>5. ASSUME NEW b \in Effects, InvokeMove(b) PROVE rows' = rows
  BY <1>5 DEF InvokeMove
<1>6. QED
  BY <1>1, <1>2, <1>3, <1>4, <1>5, NextMoves DEF Move

(* So dependencies that are done stay done. *)
LEMMA DepsLast ==
  ASSUME Invs, Plan, Next, NEW s \in Steps, DepsDone(s, rows)
  PROVE  DepsDone(s, rows')
<1>1. ASSUME NEW t \in Deps[s]
      PROVE  rows'[EffectOf[t]] # NoRow /\ rows'[EffectOf[t]].status = "completed"
  <2>1. EffectOf[t] \in Effects
    BY StepsAssumption
  <2>2. rows[EffectOf[t]] # NoRow /\ rows[EffectOf[t]].status = "completed"
    BY DEF DepsDone
  <2>3. QED
    BY <2>1, <2>2, RowsLast
<1>2. QED
  BY <1>1 DEF DepsDone

(* A pass takes up only steps that are ready. *)
LEMMA AgendaStep ==
  ASSUME Invs, Plan, Next, NEW d \in Dispatchers, NEW s \in agenda'[d] \ {NoStep}
  PROVE  s \in agenda[d] \/ s \in ReadySteps
<1>1. agenda \in [Dispatchers -> SUBSET (Steps \cup {NoStep})]
  BY DEF Invs, SeamInv, RestGood
<1>2. CASE Environment
  BY <1>1, <1>2 DEF Environment, CancelMission, PauseMission, ResumeMission, ReplanAccepted,
                    SetAvailability, Crash, PrepareDelayedRetry, BackoffElapses,
                    OwnerFinishes, callVars
<1>3. CASE Dispatch(d)
  <2>1. CASE ScanMission(d)
    BY <1>1, <2>1 DEF ScanMission
  <2>2. ASSUME NEW t \in Steps, GateStep(d, t) PROVE s \in agenda[d]
    BY <1>1, <2>2 DEF GateStep
  <2>3. CASE EndScan(d) \/ HandleDispatchError(d)
    BY <1>1, <2>3 DEF EndScan, HandleDispatchError
  <2>4. QED
    BY <1>3, <2>1, <2>2, <2>3
    DEF Dispatch, Mint, RejectInput, Handoff, Invoke, InvokeReturns, PersistHandle,
        ReadForRecord, WriteRecord, Remark, CheckPersisted, RestoreForDue, PickDue,
        PickActionable, RequestCancel, Observe, ReconcileReturns, CancelReturns, callVars
<1>4. QED
  BY <1>2, <1>3 DEF Next, Plan, OneResident

(* A call arrives at the mint from the agenda of its pass. *)
LEMMA MintStarts ==
  ASSUME Invs, Plan, Next, NEW d \in Dispatchers, call'[d].pc = "mint"
  PROVE  \/ call'[d] = call[d]
         \/ call'[d].step \in agenda[d] /\ call'[d].step \in Steps
<1>1. call \in [Dispatchers -> Calls]
  BY DEF Invs, SeamInv, CallsGood
<1>2. CASE Environment
  <2>1. call' = call \/ Crash
    BY <1>2 DEF Environment, CancelMission, PauseMission, ResumeMission, ReplanAccepted,
                SetAvailability, PrepareDelayedRetry, BackoffElapses, OwnerFinishes, callVars
  <2>2. CASE call' = call
    BY <2>2
  <2>3. CASE Crash
    <3>1. call'[d].pc = "idle"
      BY <2>3 DEF Crash, IdleCall
    <3>2. QED
      BY <3>1
  <2>4. QED
    BY <2>1, <2>2, <2>3
<1>3. CASE Dispatch(d)
  <2>1. ASSUME NEW s \in Steps, GateStep(d, s)
        PROVE  call'[d] = call[d] \/ (call'[d].step \in agenda[d] /\ call'[d].step \in Steps)
    <3>1. ASSUME NEW pc, Start(d, pc, s) PROVE call'[d].step = s
      BY <1>1, <3>1 DEF Start, IdleCall
    <3>2. QED
      BY <2>1, <3>1 DEF GateStep
  <2>2. ASSUME NEW pc \in PCs \ {"mint"}, Goto(d, pc) \/ Finish(d) PROVE FALSE
    BY <2>2, PcNext DEF PCs
  <2>3. CASE ScanMission(d) \/ EndScan(d) \/ \E e \in Effects : RestoreForDue(d, e)
    BY <2>3 DEF ScanMission, EndScan, RestoreForDue, callVars
  <2>4. ~(Mint(d) \/ Handoff(d) \/ Invoke(d) \/ PersistHandle(d) \/ Remark(d)
          \/ HandleDispatchError(d) \/ CheckPersisted(d) \/ Observe(d))
    BY <2>2 DEF Mint, Handoff, Invoke, PersistHandle, HandoffTo, Remark, HandleDispatchError,
                CheckPersisted, Observe, PCs
  <2>5. ~(RejectInput(d) \/ ReadForRecord(d))
    BY <1>1 DEF RejectInput, ReadForRecord, Calls
  <2>6. ~InvokeReturns(d)
    <3>1. ASSUME NEW todo,
                 call' = [call EXCEPT ![d].todo = todo,
                            ![d].pc = IF todo.handle = "none" THEN "record" ELSE "handle"]
          PROVE  FALSE
      BY <1>1, <3>1 DEF Calls
    <3>2. QED
      BY <3>1 DEF InvokeReturns
  <2>7. ~ReconcileReturns(d)
    <3>1. ASSUME NEW todo, call' = [call EXCEPT ![d].pc = "record", ![d].todo = todo]
          PROVE  FALSE
      BY <1>1, <3>1 DEF Calls
    <3>2. QED
      BY <2>2, <3>1 DEF ReconcileReturns, PCs
  <2>8. ~WriteRecord(d)
    <3>1. ASSUME WriteRecord(d), call' = [call EXCEPT ![d] = AfterRefusal(@)] PROVE FALSE
      <4>1. call'[d] = AfterRefusal(call[d]) /\ call[d] \in Calls
        BY <1>1, <3>1
      <4>2. CallHonest(call[d], Row(d), owner[EffectAt(d)]) /\ call[d].pc = "write"
        BY <3>1, HonestCall DEF WriteRecord
      <4>3. TodoHonest(call[d].todo, owner[EffectAt(d)])
        BY <4>2 DEF CallHonest
      <4>4. AfterRefusal(call[d]).pc # "mint"
        BY <4>1, <4>2, <4>3 DEF AfterRefusal, Calls, IdleCall
      <4>5. QED
        BY <4>1, <4>4
    <3>2. QED
      BY <2>2, <3>1 DEF WriteRecord, PCs
  <2>9. ASSUME NEW e \in Effects, PickDue(d, e) \/ PickActionable(d, e) PROVE FALSE
    <3>1. ASSUME NEW pc, NEW s, Start(d, pc, s) PROVE call'[d].pc = pc
      BY <1>1, <3>1 DEF Start, IdleCall
    <3>2. QED
      BY <2>9, <3>1 DEF PickDue, PickActionable
  <2>10. ~RequestCancel(d)
    <3>1. ASSUME call' = [call EXCEPT ![d].pc = "cancelwait", ![d].snap = Row(d)] PROVE FALSE
      BY <1>1, <3>1 DEF Calls
    <3>2. QED
      BY <2>2, <3>1 DEF RequestCancel, PCs
  <2>11. ASSUME NEW answer \in {"completed", "failed", "running", "unknown"},
                CancelReturns(d, answer)
         PROVE  FALSE
    BY <2>2, <2>11 DEF CancelReturns, PCs
  <2>12. QED
    BY <1>3, <2>1, <2>3, <2>4, <2>5, <2>6, <2>7, <2>8, <2>9, <2>10, <2>11 DEF Dispatch
<1>4. QED
  BY <1>2, <1>3 DEF Next, Plan, OneResident

(* Dependencies are done before the first row, and stay done. *)
LEMMA DepsStep ==
  ASSUME Invs, Plan, DepsInv, Next PROVE DepsInv'
<1>1. ASSUME NEW e \in Effects, rows'[e] # NoRow PROVE DepsDone(rows'[e].step, rows')
  <2>1. CASE rows[e] # NoRow
    <3>1. PICK s \in Steps : s = rows[e].step
      BY <2>1, StepOfRow DEF Invs
    <3>2. DepsDone(s, rows') /\ rows'[e].step = s
      BY <2>1, <3>1, DepsLast, RowsLast DEF DepsInv
    <3>3. QED
      BY <3>2
  <2>2. CASE rows[e] = NoRow
    <3>1. PICK b \in Effects : MintMove(b)
      <4>1. ASSUME NEW b \in Effects, RowMove(b) PROVE FALSE
        BY <1>1, <2>2, <4>1 DEF RowMove, Invs, SeamInv, RowsGood
      <4>2. ~CancelMission
        BY <1>1, <2>2 DEF CancelMission, Minted
      <4>3. QED
        BY <1>1, <2>2, <4>1, <4>2, NextMoves DEF Move, InvokeMove
    <3>2. PICK d \in Dispatchers, desc \in Capabilities :
            /\ call[d].pc = "mint" /\ call[d].step \in Steps
            /\ rows' = [rows EXCEPT ![b] = NewInvocation(call[d].step, desc)]
      BY <3>1 DEF MintMove
    <3>3. PICK s \in Steps : s = call[d].step
      BY <3>2
    <3>4. rows'[e] = NewInvocation(s, desc)
      BY <1>1, <2>2, <3>2, <3>3 DEF Invs, SeamInv, RowsGood
    <3>5. rows'[e].step = s
      BY <3>4 DEF NewInvocation
    <3>6. DepsDone(s, rows')
      BY <3>2, <3>3, DepsLast DEF DepsInv
    <3>7. QED
      BY <3>5, <3>6
  <2>3. QED
    BY <2>1, <2>2
<1>2. ASSUME NEW d \in Dispatchers, NEW s \in agenda'[d] \ {NoStep} PROVE DepsDone(s, rows')
  <2>1. s \in agenda[d] \/ s \in ReadySteps
    BY <1>2, AgendaStep
  <2>2. s \in Steps /\ DepsDone(s, rows)
    BY <2>1 DEF DepsInv, ReadySteps, DepsDone, Completed, Minted, Invs, SeamInv, RestGood
  <2>3. QED
    BY <2>2, DepsLast
<1>3. ASSUME NEW d \in Dispatchers, call'[d].pc = "mint" PROVE DepsDone(call'[d].step, rows')
  <2>1. PICK s : s = call'[d].step
    OBVIOUS
  <2>2. s \in Steps /\ DepsDone(s, rows)
    <3>1. CASE call'[d] = call[d]
      BY <1>3, <2>1, <3>1 DEF DepsInv, Invs, SeamInv, CallsGood, CallGood
    <3>2. CASE call'[d].step \in agenda[d] /\ call'[d].step \in Steps
      BY <2>1, <3>2, StepsAssumption DEF DepsInv
    <3>3. QED
      BY <1>3, <3>1, <3>2, MintStarts
  <2>3. DepsDone(s, rows')
    BY <2>2, DepsLast
  <2>4. QED
    BY <2>1, <2>3
<1>4. QED
  BY <1>1, <1>2, <1>3 DEF DepsInv

LEMMA DepsInit == Init => DepsInv
BY DEF Init, DepsInv, IdleCall

(* invoke() is called for a step only after the owner performed the effect *)
(* of every step it depends on, whatever crashes and retries lie between.  *)
THEOREM DependenciesPerformed ==
  ASSUME OneResident, OwnEffects PROVE Spec => DependenciesFirst
<1> DEFINE A == \A e \in Effects : invokes'[e] > invokes[e] =>
                  \A t \in Deps[rows[e].step] : owner[EffectOf[t]] = "performed"
<1>1. SeamInv /\ BudgetInv /\ OwnerInv /\ DepsInv /\ [Next]_vars => DepsInv'
  <2>1. DepsInv /\ UNCHANGED vars => DepsInv'
    BY DEF vars, DepsInv
  <2>2. QED
    BY <2>1, DepsStep DEF Invs, Plan
<1>2. SeamInv /\ BudgetInv /\ OwnerInv /\ DepsInv /\ [Next]_vars => [A]_vars
  <2> SUFFICES ASSUME Invs, DepsInv, Next, NEW e \in Effects, invokes'[e] > invokes[e],
                      NEW t \in Deps[rows[e].step]
               PROVE  owner[EffectOf[t]] = "performed"
    BY DEF Invs
  <2>1. invokes \in [Effects -> Nat]
    BY DEF Invs, SeamInv, RestGood
  <2>2. invokes' # invokes
    BY <2>1
  <2>3. PICK b \in Effects : InvokeMove(b)
    BY <2>2, NextMoves DEF Plan, Move, RowMove, MintMove, CancelMission, worldVars
  <2>4. b = e
    BY <2>1, <2>3 DEF InvokeMove
  <2>5. rows[e] # NoRow /\ rows[e].step \in Steps
    BY <2>3, <2>4, StepOfRow DEF InvokeMove, Invs
  <2>6. /\ rows[EffectOf[t]] # NoRow /\ rows[EffectOf[t]].status = "completed"
        /\ EffectOf[t] \in Effects
    BY <2>5, StepsAssumption DEF DepsInv, DepsDone
  <2>7. QED
    BY <2>6 DEF Invs, OwnerInv, RowsHonest, RowHonest
<1>3. QED
  BY <1>1, <1>2, DepsInit, OwnerInvariant, PTL DEF Spec, DependenciesFirst
=============================================================================
