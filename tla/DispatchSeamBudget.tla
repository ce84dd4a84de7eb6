--------------------------- MODULE DispatchSeamBudget ---------------------------
(***************************************************************************)
(* Every call of connector.invoke() is paid for by an attempt of its own,  *)
(* when the resident scheduler is the only dispatcher and no two steps of  *)
(* the plan share an effect.  Neither can be dropped: the handoff of a row *)
(* that is already SUBMITTED is accepted, so a second dispatcher, or a     *)
(* second step whose effect is completed, invokes the same attempt again.  *)
(***************************************************************************)
EXTENDS DispatchSeamProofs

OneResident == \A d, b \in Dispatchers : d = b
OwnEffects == \A s, t \in Steps : EffectOf[s] = EffectOf[t] => s = t

(* The attempts of effect e pay for its calls, and an attempt that never   *)
(* crossed the boundary is not spent, unless its row was cancelled.        *)
Paid(e, rs, inv) ==
  IF rs[e] = NoRow THEN inv[e] = 0
  ELSE /\ inv[e] <= Len(rs[e].attempts)
       /\ Unsent(rs[e]) /\ rs[e].status # "cancelled" => inv[e] < Len(rs[e].attempts)

(* A call about to mint has no row yet; one about to invoke has an attempt *)
(* that is not spent; one about to write still knows how many attempts the *)
(* row has, unless it read a FAILED row that may have been retried since.  *)
CallPaid(c, rs, inv) ==
  LET e == EffectOf[c.step]
      r == rs[EffectOf[c.step]]
  IN  /\ c.pc = "mint" => r = NoRow
      /\ c.pc \in {"handoff", "invoke"} => /\ inv[e] < Len(r.attempts)
                                           /\ r.status # "failed"
      /\ c.pc = "handoff" => r.status # "completed"
      /\ c.pc = "invoke" => ~Unsent(r) \/ r.status = "cancelled"
      /\ c.pc = "write" =>
           /\ \/ Len(c.snap.attempts) = Len(r.attempts)
              \/ c.snap.status = "failed" /\ ~c.snap.cancelRequested
           /\ r.status = "failed" => c.snap.status = "failed"
           /\ c.snap.cancelRequested => r.cancelRequested

BudgetInv ==
  /\ \A e \in Effects : Paid(e, rows, invokes)
  /\ \A d \in Dispatchers : CallPaid(call[d], rows, invokes)

AllPaid == \A e \in Effects : Paid(e, rows', invokes')

-----------------------------------------------------------------------------
(* Calls at these points owe nothing. *)
Easy == PCs \ {"mint", "handoff", "invoke", "write"}

LEMMA EasyCall ==
  ASSUME OneResident, AllPaid, NEW d \in Dispatchers, call'[d].pc \in Easy
  PROVE  BudgetInv'
BY DEF OneResident, AllPaid, BudgetInv, CallPaid, Easy

(* Goto and Finish say where the call is afterwards. *)
LEMMA PcAfter ==
  ASSUME SeamInv, NEW d \in Dispatchers
  PROVE  /\ \A pc \in PCs : Goto(d, pc) => call'[d] = [call[d] EXCEPT !.pc = pc]
         /\ Finish(d) => call'[d].pc \in Easy
<1>1. call \in [Dispatchers -> Calls]
  BY DEF SeamInv, CallsGood
<1>2. \A pc \in PCs : Goto(d, pc) => call'[d] = [call[d] EXCEPT !.pc = pc]
  BY <1>1 DEF Goto
<1>3. Finish(d) => call'[d].pc \in Easy
  BY <1>1 DEF Finish, IdleCall, Easy, PCs
<1>4. QED
  BY <1>2, <1>3

(* A call that goes on to an easy point. *)
LEMMA GotoEasy ==
  ASSUME SeamInv, OneResident, AllPaid, NEW d \in Dispatchers, NEW pc \in Easy,
         Goto(d, pc) \/ Finish(d)
  PROVE  BudgetInv'
<1>1. CASE Goto(d, pc)
  <2>1. pc \in PCs /\ call[d] \in Calls
    BY DEF Easy, SeamInv, CallsGood
  <2>2. call'[d] = [call[d] EXCEPT !.pc = pc]
    BY <1>1, <2>1, PcAfter
  <2>3. call'[d].pc = pc
    BY <2>1, <2>2 DEF Calls
  <2>4. QED
    BY <2>3, EasyCall
<1>2. CASE Finish(d)
  BY <1>2, PcAfter, EasyCall
<1>3. QED
  BY <1>1, <1>2

(* The lengths compared are numbers. *)
LEMMA RowNumbers ==
  ASSUME SeamInv, NEW e \in Effects, rows[e] # NoRow
  PROVE  /\ rows[e] \in Invocation /\ Sound(rows[e])
         /\ Len(rows[e].attempts) \in Nat /\ invokes[e] \in Nat
BY StoredRow DEF SeamInv, RowsGood, RestGood, Invocation, Invocations

(* Nothing is spent while rows and calls are left alone. *)
LEMMA NothingSpent ==
  ASSUME BudgetInv, rows' = rows, invokes' = invokes PROVE AllPaid
BY DEF BudgetInv, AllPaid

(* Replacing a row by one with as many attempts that crossed the boundary. *)
LEMMA Replaced ==
  ASSUME SeamInv, BudgetInv, NEW e \in Effects, rows[e] # NoRow,
         NEW t \in Invocation, Len(t.attempts) = Len(rows[e].attempts), ~Unsent(t),
         rows' = [rows EXCEPT ![e] = StoreWrite(rows[e], t)], invokes' = invokes
  PROVE  AllPaid
<1>1. StoreWrite(rows[e], t) = rows[e] \/ StoreWrite(rows[e], t) = t
  BY StoreWriteChoice
<1>2. t # NoRow
  BY NoRowAssumption DEF Invocation
<1>3. ASSUME NEW b \in Effects PROVE Paid(b, rows', invokes')
  <2>1. CASE b # e
    BY <2>1 DEF SeamInv, RowsGood, BudgetInv, Paid
  <2>2. CASE b = e
    <3>1. rows'[e] = rows[e] \/ rows'[e] = t
      BY <1>1 DEF SeamInv, RowsGood
    <3>2. Paid(e, rows, invokes)
      BY DEF BudgetInv
    <3>3. QED
      BY <1>2, <2>2, <3>1, <3>2 DEF Paid
  <2>3. QED
    BY <2>1, <2>2
<1>4. QED
  BY <1>3 DEF AllPaid

(* The same for the row of a call that has one. *)
LEMMA ReplacedByCall ==
  ASSUME SeamInv, BudgetInv, NEW d \in Dispatchers,
         call[d].pc \notin {"idle", "mint", "raised"},
         NEW t \in Invocation, SameAttempts(Row(d), t), ~Unsent(t),
         Put(d, StoreWrite(Row(d), t)), invokes' = invokes
  PROVE  AllPaid
<1>1. EffectAt(d) \in Effects /\ Row(d) # NoRow
  BY RunningCall
<1>2. rows' = [rows EXCEPT ![EffectAt(d)] = StoreWrite(rows[EffectAt(d)], t)]
  BY DEF Put, Row
<1>3. QED
  BY <1>1, <1>2, Replaced DEF SameAttempts, Row

-----------------------------------------------------------------------------
(* Steps that touch neither rows nor calls to the owner, and end at an     *)
(* easy point.                                                             *)

(* A pass, an error, an answer spend nothing. *)
LEMMA EasySteps ==
  ASSUME SeamInv, BudgetInv, OneResident, NEW d \in Dispatchers,
         \/ ScanMission(d) \/ EndScan(d) \/ RejectInput(d) \/ InvokeReturns(d)
         \/ HandleDispatchError(d) \/ ReconcileReturns(d)
         \/ \E e \in Effects : RestoreForDue(d, e) \/ PickActionable(d, e)
  PROVE  BudgetInv'
<1>1. AllPaid
  <2>1. rows' = rows /\ invokes' = invokes
    BY DEF ScanMission, EndScan, RejectInput, InvokeReturns, HandleDispatchError, ReconcileReturns,
           RestoreForDue, PickActionable, worldVars
  <2>2. QED
    BY <2>1, NothingSpent
<1>2. call \in [Dispatchers -> Calls]
  BY DEF SeamInv, CallsGood
<1>3. CASE ScanMission(d) \/ EndScan(d) \/ \E e \in Effects : RestoreForDue(d, e)
  <2>1. call'[d].pc = "idle"
    BY <1>3 DEF ScanMission, EndScan, RestoreForDue, Free, callVars
  <2>2. QED
    BY <1>1, <2>1, EasyCall DEF Easy, PCs
<1>4. CASE RejectInput(d) \/ InvokeReturns(d)
  <2>1. RejectInput(d) => call'[d].pc = "record"
    BY <1>2 DEF RejectInput, Calls
  <2>2. ASSUME NEW todo,
               call' = [call EXCEPT ![d].todo = todo,
                          ![d].pc = IF todo.handle = "none" THEN "record" ELSE "handle"]
        PROVE  call'[d].pc \in {"record", "handle"}
    BY <1>2, <2>2 DEF Calls
  <2>3. ASSUME InvokeReturns(d) PROVE call'[d].pc \in {"record", "handle"}
    <3>1. PICK res \in Results :
            LET todo == TodoOf(res, Row(d).desc)
            IN  call' = [call EXCEPT ![d].todo = todo,
                           ![d].pc = IF todo.handle = "none" THEN "record" ELSE "handle"]
      BY <2>3 DEF InvokeReturns
    <3>2. QED
      BY <2>2, <3>1
  <2>4. QED
    BY <1>1, <1>4, <2>1, <2>3, EasyCall DEF Easy, PCs
<1>5. CASE HandleDispatchError(d)
  BY <1>1, <1>5, PcAfter, EasyCall DEF HandleDispatchError
<1>6. CASE ReconcileReturns(d)
  <2>1. CASE Goto(d, "remark")
    BY <1>1, <2>1, GotoEasy DEF Easy, PCs
  <2>2. CASE \E res \in Results :
               call' = [call EXCEPT ![d].pc = "record", ![d].todo = ReconciledTodoOf(res)]
    <3>1. call'[d].pc = "record"
      BY <1>2, <2>2 DEF Calls
    <3>2. QED
      BY <1>1, <3>1, EasyCall DEF Easy, PCs
  <2>3. QED
    BY <1>6, <2>1, <2>2 DEF ReconcileReturns
<1>7. ASSUME NEW e \in Effects, PickActionable(d, e) PROVE BudgetInv'
  <2>1. call'[d].pc \in {"cancelling", "observe"}
    BY <1>2, <1>7 DEF PickActionable, Start, IdleCall
  <2>2. QED
    BY <1>1, <2>1, EasyCall DEF Easy, PCs
<1>8. QED
  BY <1>3, <1>4, <1>5, <1>6, <1>7

(* The gates let a step through to the mint only without a row: a row of   *)
(* another step would be a shared effect.                                  *)
LEMMA GateStepPaid ==
  ASSUME SeamInv, BudgetInv, OneResident, OwnEffects, NEW d \in Dispatchers,
         NEW s \in Steps, GateStep(d, s)
  PROVE  BudgetInv'
<1> DEFINE r == rows[EffectOf[s]]
           pc == CASE ~MissionRuns -> "raised"
                   [] MissionRuns /\ r = NoRow -> "mint"
                   [] MissionRuns /\ r # NoRow /\ r.step # s
                        /\ r.status = "completed" -> "handoff"
                   [] OTHER -> "raised"
<1>1. rows' = rows /\ invokes' = invokes
  BY DEF GateStep, worldVars
<1>2. AllPaid
  BY <1>1, NothingSpent
<1>3. EffectOf[s] \in Effects
  BY StepsAssumption
<1>4. r # NoRow => r.step = s
  BY <1>3, StepOfRow DEF SeamInv, RowsGood, OwnEffects
<1>5. CASE call' = call
  BY <1>2, <1>5, EasyCall DEF GateStep, Easy, PCs
<1>6. CASE Start(d, pc, s)
  <2>1. \/ pc = "raised"
        \/ pc = "mint" /\ r = NoRow
    BY <1>4
  <2> HIDE DEF pc
  <2>2. call'[d] = [IdleCall EXCEPT !.pc = pc, !.step = s]
    BY <1>6 DEF Start, SeamInv, CallsGood
  <2>3. call'[d].pc = pc /\ call'[d].step = s
    BY <2>2 DEF IdleCall
  <2>4. CASE pc = "raised"
    BY <1>2, <2>3, <2>4, EasyCall DEF Easy, PCs
  <2>5. CASE pc = "mint" /\ r = NoRow
    <3>1. CallPaid(call'[d], rows', invokes')
      BY <1>1, <2>3, <2>5 DEF CallPaid
    <3>2. QED
      BY <1>2, <3>1 DEF BudgetInv, AllPaid, OneResident
  <2>6. QED
    BY <2>1, <2>4, <2>5
<1>7. QED
  BY <1>5, <1>6 DEF GateStep

-----------------------------------------------------------------------------
(* The life of an attempt. *)

(* What is left to say of the dispatcher's own call. *)
LEMMA CallPaidStep ==
  ASSUME OneResident, AllPaid, NEW d \in Dispatchers, NEW c, call'[d] = c,
         CallPaid(c, rows', invokes')
  PROVE  BudgetInv'
<1>1. ASSUME NEW b \in Dispatchers PROVE CallPaid(call'[b], rows', invokes')
  BY DEF OneResident
<1>2. QED
  BY <1>1 DEF BudgetInv, AllPaid

(* The minted row has one attempt and no call to the owner. *)
LEMMA MintPaid ==
  ASSUME SeamInv, BudgetInv, OneResident, NEW d \in Dispatchers, Mint(d)
  PROVE  BudgetInv'
<1>1. /\ call[d] \in Calls /\ call[d].step \in Steps /\ call[d].pc = "mint"
      /\ EffectAt(d) \in Effects
  BY StepsAssumption DEF SeamInv, CallsGood, CallGood, Mint, EffectAt
<1>2. Row(d) = NoRow
  BY <1>1 DEF BudgetInv, CallPaid, Row, EffectAt
<1>3. invokes[EffectAt(d)] = 0
  BY <1>1, <1>2 DEF BudgetInv, Paid, Row
<1>4. PICK desc \in Capabilities : Put(d, NewInvocation(call[d].step, desc))
  BY <1>2 DEF Mint
<1> DEFINE t == NewInvocation(call[d].step, desc)
<1>5. t \in Invocation /\ Sound(t) /\ Len(t.attempts) = 1 /\ t.status = "dispatched"
  BY <1>1, NewInvocationType DEF Invocation
<1>6. rows' = [rows EXCEPT ![EffectAt(d)] = t] /\ invokes' = invokes
  BY <1>4 DEF Put, Mint, worldVars
<1> HIDE DEF t
<1>7. t # NoRow
  BY <1>5, NoRowAssumption DEF Invocation
<1>8. rows'[EffectAt(d)] = t
  BY <1>1, <1>6 DEF SeamInv, RowsGood
<1>9. AllPaid
  <2>1. ASSUME NEW b \in Effects PROVE Paid(b, rows', invokes')
    <3>1. CASE b = EffectAt(d)
      <4>1. rows'[b] = t /\ invokes'[b] = 0 /\ rows'[b] # NoRow
        BY <1>3, <1>6, <1>7, <1>8, <3>1
      <4>2. QED
        <5>1. invokes'[b] <= Len(t.attempts) /\ invokes'[b] < Len(t.attempts)
          BY <1>5, <4>1
        <5>2. QED
          BY <4>1, <5>1 DEF Paid
    <3>2. CASE b # EffectAt(d)
      <4>1. rows'[b] = rows[b] /\ invokes'[b] = invokes[b] /\ Paid(b, rows, invokes)
        BY <1>6, <3>2 DEF SeamInv, RowsGood, BudgetInv
      <4>2. QED
        BY <4>1 DEF Paid
    <3>3. QED
      BY <3>1, <3>2
  <2>2. QED
    BY <2>1 DEF AllPaid
<1>10. Goto(d, "handoff")
  BY <1>2 DEF Mint
<1>11. PICK c : call'[d] = c /\ c.pc = "handoff" /\ c.step = call[d].step
  <2>1. call'[d] = [call[d] EXCEPT !.pc = "handoff"]
    BY <1>10, PcAfter DEF PCs
  <2>2. QED
    BY <1>1, <2>1 DEF Calls
<1>12. CallPaid(c, rows', invokes')
  <2>1. EffectOf[c.step] = EffectAt(d)
    BY <1>11 DEF EffectAt
  <2>2. rows'[EffectOf[c.step]] = t /\ invokes'[EffectOf[c.step]] = 0
    BY <1>3, <1>6, <1>8, <2>1
  <2>3. invokes'[EffectOf[c.step]] < Len(t.attempts)
    BY <1>5, <2>2
  <2>4. QED
    BY <1>5, <1>11, <2>2, <2>3 DEF CallPaid
<1>13. QED
  BY <1>9, <1>11, <1>12, CallPaidStep

(* Only a row whose attempt never crossed the boundary is dispatched. *)
LEMMA CheckPersistedPaid ==
  ASSUME SeamInv, BudgetInv, OneResident, NEW d \in Dispatchers, CheckPersisted(d)
  PROVE  BudgetInv'
<1>1. AllPaid /\ rows' = rows /\ invokes' = invokes
  BY NothingSpent DEF CheckPersisted, worldVars
<1>2. CASE Goto(d, "raised") \/ Finish(d)
  BY <1>1, <1>2, GotoEasy DEF Easy, PCs
<1>3. CASE Goto(d, "handoff") /\ PersistedDispatchable(Row(d))
  <2>1. call[d] \in Calls /\ EffectAt(d) \in Effects /\ Row(d) # NoRow
    BY RunningCall DEF CheckPersisted
  <2>2. /\ invokes[EffectAt(d)] < Len(Row(d).attempts)
        /\ Row(d).status \in {"pending", "dispatched"}
    BY <1>3, <2>1 DEF PersistedDispatchable, BudgetInv, Paid, Unsent, Row
  <2> DEFINE c == [call[d] EXCEPT !.pc = "handoff"]
  <2>3. call'[d] = c /\ c.pc = "handoff" /\ c.step = call[d].step
    BY <1>3, <2>1, PcAfter DEF PCs, Calls
  <2> HIDE DEF c
  <2>4. CallPaid(c, rows', invokes')
    BY <1>1, <2>2, <2>3 DEF CallPaid, EffectAt, Row
  <2>5. QED
    BY <1>1, <2>3, <2>4, CallPaidStep
<1>4. QED
  BY <1>2, <1>3 DEF CheckPersisted

(* A handoff spends nothing: it moves the row beyond the boundary or, when *)
(* the row is terminal, leaves it.                                         *)
LEMMA HandoffToPaid ==
  ASSUME SeamInv, BudgetInv, NEW d \in Dispatchers,
         call[d].pc \notin {"idle", "mint", "raised"},
         NEW delivery \in DeliveryStates \ {"not_submitted"}, NEW handle \in BOOLEAN,
         NEW next, HandoffTo(d, delivery, handle, next), invokes' = invokes
  PROVE  AllPaid
<1>1. CASE rows' = rows
  BY <1>1, NothingSpent
<1>2. CASE Put(d, StoreWrite(Row(d), HandedOff(Row(d), delivery, handle)))
  <2> DEFINE t == HandedOff(Row(d), delivery, handle)
  <2>1. Row(d) \in Invocation /\ Sound(Row(d))
    BY RunningCall
  <2>2. t \in Invocation /\ Sound(t) /\ ~Unsent(t) /\ SameAttempts(Row(d), t)
    BY <2>1, HandedOffType DEF Invocation
  <2>3. Put(d, StoreWrite(Row(d), t))
    BY <1>2
  <2> HIDE DEF t
  <2>4. QED
    BY <2>2, <2>3, ReplacedByCall
<1>3. QED
  BY <1>1, <1>2 DEF HandoffTo

(* After the handoff the attempt is still unspent, and the row no longer   *)
(* says "not_submitted", unless it was cancelled.                          *)
LEMMA HandoffPaid ==
  ASSUME SeamInv, BudgetInv, OneResident, NEW d \in Dispatchers, Handoff(d)
  PROVE  BudgetInv'
<1>1. /\ call[d].pc = "handoff" /\ invokes' = invokes
      /\ HandoffTo(d, "submitted", FALSE, "invoke")
  BY DEF Handoff, worldVars
<1>2. AllPaid
  BY <1>1, HandoffToPaid DEF DeliveryStates
<1>3. /\ call[d] \in Calls /\ Row(d) \in Invocation /\ Sound(Row(d))
      /\ EffectAt(d) \in Effects /\ Row(d) # NoRow
  BY <1>1, RunningCall
<1>4. /\ invokes[EffectAt(d)] < Len(Row(d).attempts)
      /\ Row(d).status \notin {"failed", "completed"}
  BY <1>1 DEF BudgetInv, CallPaid, Row, EffectAt
<1>5. CASE Goto(d, "raised")
  BY <1>2, <1>5, GotoEasy DEF Easy, PCs
<1>6. CASE Goto(d, "invoke") /\ ~Goto(d, "raised")
  <2>1. PICK r : r = rows'[EffectAt(d)]
    OBVIOUS
  <2>2. /\ Len(r.attempts) = Len(Row(d).attempts) /\ r.status # "failed"
        /\ ~Unsent(r) \/ r.status = "cancelled"
    <3>1. CASE IsInvocationTerminal(Row(d)) /\ rows' = rows
      BY <1>4, <2>1, <3>1 DEF IsInvocationTerminal, TerminalStatuses, Row
    <3>2. CASE /\ ~IsInvocationTerminal(Row(d)) /\ MayHandOff(Row(d), "submitted")
               /\ Put(d, StoreWrite(Row(d), HandedOff(Row(d), "submitted", FALSE)))
      <4> DEFINE t == HandedOff(Row(d), "submitted", FALSE)
      <4>1. /\ t \in Invocation /\ Sound(t) /\ ~Unsent(t) /\ SameAttempts(Row(d), t)
            /\ t.status \in {"dispatched", "running"}
        BY <1>3, HandedOffType DEF Invocation, DeliveryStates
      <4>2. IsInvocationUpdateAllowed(Row(d).status, t.status)
        BY <1>3, <3>2 DEF MayHandOff, HandedOff, HandoffStatus, IsInvocationUpdateAllowed,
                          AllowedFrom, Statuses, Invocation, Invocations
      <4>3. StoreWrite(Row(d), t) = t
        BY <3>2, <4>2 DEF StoreWrite, StoreAccepts, IsInvocationTerminal
      <4>4. rows'[EffectAt(d)] = t
        BY <1>3, <3>2, <4>3 DEF Put, SeamInv, RowsGood
      <4> HIDE DEF t
      <4>5. QED
        BY <2>1, <4>1, <4>4 DEF SameAttempts
    <3>3. QED
      BY <1>1, <1>6, <3>1, <3>2 DEF HandoffTo
  <2>3. PICK c : call'[d] = c /\ c.pc = "invoke" /\ c.step = call[d].step
    <3>1. call'[d] = [call[d] EXCEPT !.pc = "invoke"]
      BY <1>6, PcAfter DEF PCs
    <3>2. QED
      BY <1>3, <3>1 DEF Calls
  <2>4. EffectOf[c.step] = EffectAt(d)
    BY <2>3 DEF EffectAt
  <2>5. invokes'[EffectAt(d)] < Len(r.attempts)
    BY <1>1, <1>4, <2>2
  <2>6. CallPaid(c, rows', invokes')
    BY <2>1, <2>2, <2>3, <2>4, <2>5 DEF CallPaid
  <2>7. QED
    BY <1>2, <2>3, <2>6, CallPaidStep
<1>7. QED
  BY <1>1, <1>5, <1>6 DEF HandoffTo

(* The call of the owner spends the attempt. *)
LEMMA InvokePaid ==
  ASSUME SeamInv, BudgetInv, OneResident, NEW d \in Dispatchers, Invoke(d)
  PROVE  BudgetInv'
<1>1. /\ call[d].pc = "invoke" /\ rows' = rows /\ Goto(d, "invoked")
      /\ invokes' = [invokes EXCEPT ![EffectAt(d)] = @ + 1]
  BY DEF Invoke
<1>2. EffectAt(d) \in Effects /\ Row(d) # NoRow
  BY <1>1, RunningCall
<1>3. /\ invokes[EffectAt(d)] < Len(Row(d).attempts)
      /\ ~Unsent(Row(d)) \/ Row(d).status = "cancelled"
  BY <1>1 DEF BudgetInv, CallPaid, Row, EffectAt
<1>4. Len(Row(d).attempts) \in Nat /\ invokes[EffectAt(d)] \in Nat
  BY <1>2, RowNumbers DEF Row
<1>5. AllPaid
  <2>1. ASSUME NEW b \in Effects PROVE Paid(b, rows', invokes')
    <3>1. CASE b = EffectAt(d)
      <4>1. invokes'[b] = invokes[b] + 1
        BY <1>1, <3>1 DEF SeamInv, RestGood
      <4>2. invokes'[b] <= Len(rows'[b].attempts)
        BY <1>1, <1>3, <1>4, <3>1, <4>1 DEF Row
      <4>3. QED
        BY <1>1, <1>2, <1>3, <3>1, <4>2 DEF Paid, Row
    <3>2. CASE b # EffectAt(d)
      <4>1. rows'[b] = rows[b] /\ invokes'[b] = invokes[b] /\ Paid(b, rows, invokes)
        BY <1>1, <3>2 DEF SeamInv, RestGood, BudgetInv
      <4>2. QED
        BY <4>1 DEF Paid
    <3>3. QED
      BY <3>1, <3>2
  <2>2. QED
    BY <2>1 DEF AllPaid
<1>6. QED
  BY <1>1, <1>5, GotoEasy DEF Easy, PCs

(* Persisting the owner's reference spends nothing. *)
LEMMA PersistHandlePaid ==
  ASSUME SeamInv, BudgetInv, OneResident, NEW d \in Dispatchers, PersistHandle(d)
  PROVE  BudgetInv'
<1>1. /\ call[d].pc = "handle" /\ invokes' = invokes
      /\ HandoffTo(d, call[d].todo.handle, TRUE, "record")
  BY DEF PersistHandle, worldVars
<1>2. call[d] \in Calls /\ CallGood(call[d], rows)
  BY <1>1, RunningCall
<1>3. call[d].todo.handle \in DeliveryStates \ {"not_submitted"}
  BY <1>1, <1>2 DEF CallGood, Calls, Todos, DeliveryStates
<1>4. AllPaid
  BY <1>1, <1>3, HandoffToPaid
<1>5. Goto(d, "record") \/ Goto(d, "raised")
  BY <1>1 DEF HandoffTo
<1>6. QED
  BY <1>4, <1>5, GotoEasy DEF Easy, PCs

-----------------------------------------------------------------------------
(* Recording a result. *)

(* The first read of a record remembers the row as it is. *)
LEMMA ReadForRecordPaid ==
  ASSUME SeamInv, BudgetInv, OneResident, NEW d \in Dispatchers, ReadForRecord(d)
  PROVE  BudgetInv'
<1> DEFINE c == [call[d] EXCEPT !.pc = "write", !.snap = Row(d)]
<1>1. rows' = rows /\ invokes' = invokes /\ AllPaid
  BY NothingSpent DEF ReadForRecord, worldVars
<1>2. call[d] \in Calls /\ call' = [call EXCEPT ![d] = c]
  BY DEF ReadForRecord, SeamInv, CallsGood, Calls
<1>3. call'[d] = c
  BY <1>2 DEF SeamInv, CallsGood
<1>4. c.pc = "write" /\ c.snap = Row(d) /\ c.step = call[d].step
  BY <1>2 DEF Calls
<1> HIDE DEF c
<1>5. c.snap = rows'[EffectOf[c.step]]
  BY <1>1, <1>4 DEF Row, EffectAt
<1>6. CallPaid(c, rows', invokes')
  BY <1>4, <1>5 DEF CallPaid
<1>7. QED
  BY <1>1, <1>3, <1>6, CallPaidStep

(* A record that is written comes from a read that knows the attempts: a   *)
(* FAILED row takes no record unless its cancellation was requested, and   *)
(* then it is not retried.                                                 *)
LEMMA FreshAttempts ==
  ASSUME SeamInv, BudgetInv, NEW d \in Dispatchers, call[d].pc = "write",
         NEW attested \in BOOLEAN, NEW news \in BOOLEAN,
         RecordAccepted(d, attested, news), ~WritesNothing(d, news)
  PROVE  Len(call[d].snap.attempts) = Len(Row(d).attempts)
<1> DEFINE s == call[d].snap
           t == call[d].todo
<1>1. call[d] \in Calls /\ CallGood(call[d], rows)
  BY DEF SeamInv, CallsGood
<1>2. Sound(s) /\ t.status \in {"completed", "failed", "running", "blocked"}
  BY <1>1 DEF CallGood, Calls, Todos
<1>3. MayRecord(s, t.status, t.claim, t.recon)
  BY DEF RecordAccepted, WritesNothing, IsInvocationTerminal, TerminalStatuses
<1>4. SUFFICES ASSUME s.status = "failed", ~s.cancelRequested PROVE FALSE
  BY DEF BudgetInv, CallPaid, Row, EffectAt
<1>5. ~Unsent(s) /\ s.recon # "pending"
  BY <1>2, <1>4 DEF Sound
<1>6. QED
  <2> HIDE DEF s, t
  <2> QED
    BY <1>3, <1>4, <1>5 DEF MayRecord, PreHandoffFailure, Unsent

(* Recording a result spends nothing. *)
LEMMA WriteRecordPaid ==
  ASSUME SeamInv, BudgetInv, OneResident, NEW d \in Dispatchers, WriteRecord(d)
  PROVE  BudgetInv'
<1>1. /\ call[d] \in Calls /\ CallGood(call[d], rows) /\ call[d].pc = "write"
      /\ Row(d) # NoRow /\ EffectAt(d) \in Effects /\ invokes' = invokes
  BY RunningCall DEF WriteRecord, worldVars
<1> DEFINE s == call[d].snap
           t == call[d].todo
<1>2. /\ s \in Invocation /\ Sound(s) /\ t.claim \in Verdicts
      /\ t.status \in {"completed", "failed", "running", "blocked"}
  BY <1>1, StoredRow DEF CallGood, Calls, Todos
<1>3. /\ Recording(d) \in Invocation /\ ~Unsent(Recording(d))
      /\ Len(Recording(d).attempts) = Len(s.attempts)
  <2>1. Recording(d) = Recorded(s, t.status, t.claim)
    BY DEF Recording
  <2> HIDE DEF s, t
  <2>2. /\ Recording(d) \in Invocation /\ Sound(Recording(d))
        /\ ~Unsent(Recording(d)) /\ SameAttempts(s, Recording(d))
    BY <1>2, <2>1, RecordedType DEF Invocation
  <2>3. QED
    BY <2>2 DEF SameAttempts
<1>4. PICK attested \in BOOLEAN, news \in BOOLEAN :
        IF RecordAccepted(d, attested, news)
          THEN /\ IF WritesNothing(d, news) THEN UNCHANGED rows
                  ELSE Put(d, StoreWrite(Row(d), Recording(d)))
               /\ Goto(d, "raised") \/ Finish(d)
          ELSE call' = [call EXCEPT ![d] = AfterRefusal(@)] /\ UNCHANGED rows
  BY DEF WriteRecord
<1>5. AllPaid
  <2>1. CASE rows' = rows
    BY <1>1, <2>1, NothingSpent
  <2>2. CASE /\ RecordAccepted(d, attested, news) /\ ~WritesNothing(d, news)
             /\ Put(d, StoreWrite(Row(d), Recording(d)))
    <3>1. Len(s.attempts) = Len(Row(d).attempts)
      BY <1>1, <2>2, FreshAttempts
    <3>2. /\ rows[EffectAt(d)] # NoRow
          /\ Len(Recording(d).attempts) = Len(rows[EffectAt(d)].attempts)
          /\ rows' = [rows EXCEPT ![EffectAt(d)] =
                        StoreWrite(rows[EffectAt(d)], Recording(d))]
      BY <1>1, <1>3, <2>2, <3>1 DEF Put, Row
    <3>3. QED
      BY <1>1, <1>3, <3>2, Replaced
  <2>3. QED
    BY <1>4, <2>1, <2>2
<1>6. CASE Goto(d, "raised") \/ Finish(d)
  BY <1>5, <1>6, GotoEasy DEF Easy, PCs
<1>7. CASE call' = [call EXCEPT ![d] = AfterRefusal(@)]
  <2>1. call'[d] = AfterRefusal(call[d])
    BY <1>7 DEF SeamInv, CallsGood
  <2>2. ASSUME NEW c \in Calls PROVE AfterRefusal(c).pc \in {"record", "remark", "raised", "idle"}
    BY DEF AfterRefusal, Calls, IdleCall
  <2>3. call'[d].pc \in Easy
    BY <1>1, <2>1, <2>2 DEF Easy, PCs
  <2>4. QED
    BY <1>5, <2>3, EasyCall
<1>8. QED
  BY <1>4, <1>6, <1>7

(* Marking a row uncertain spends nothing. *)
LEMMA MarkUncertainPaid ==
  ASSUME SeamInv, BudgetInv, NEW d \in Dispatchers,
         call[d].pc \notin {"idle", "mint", "raised"},
         NEW recon \in ReconStates, NEW status \in {"failed", "blocked"},
         status = "failed" => Row(d).status = "failed",
         MarkUncertain(d, recon, status), invokes' = invokes
  PROVE  AllPaid
<1>1. Row(d) \in Invocation /\ Sound(Row(d))
  BY RunningCall
<1> DEFINE t == Marked(Row(d), recon, status)
<1>2. CASE ~IsInvocationTerminal(Row(d)) /\ MayMark(Row(d), status)
  <2>1. t \in Invocation /\ Sound(t) /\ ~Unsent(t) /\ SameAttempts(Row(d), t)
    BY <1>1, <1>2, MarkedType DEF Invocation
  <2>2. Put(d, StoreWrite(Row(d), t))
    BY <1>2 DEF MarkUncertain
  <2>3. QED
    <3> HIDE DEF t
    <3> QED
      BY <2>1, <2>2, ReplacedByCall
<1>3. CASE rows' = rows
  BY <1>3, NothingSpent
<1>4. QED
  BY <1>2, <1>3 DEF MarkUncertain

(* The conservative mark spends nothing. *)
LEMMA RemarkPaid ==
  ASSUME SeamInv, BudgetInv, OneResident, NEW d \in Dispatchers, Remark(d)
  PROVE  BudgetInv'
<1>1. AllPaid
  BY MarkUncertainPaid DEF Remark, ReconStates, worldVars
<1>2. QED
  BY <1>1, GotoEasy DEF Remark, Easy, PCs

-----------------------------------------------------------------------------
(* The second part of a pass. *)

(* A retry adds the attempt the next call will spend. *)
LEMMA RetriedPaid ==
  ASSUME SeamInv, BudgetInv, NEW e \in Effects, rows[e] # NoRow, MayRetry(rows[e]),
         NEW delay \in BOOLEAN,
         rows' = [rows EXCEPT ![e] = StoreWrite(@, Retried(@, delay))], invokes' = invokes
  PROVE  AllPaid
<1> DEFINE t == Retried(rows[e], delay)
<1>1. /\ rows[e] \in Invocation /\ Sound(rows[e])
      /\ Len(rows[e].attempts) \in Nat /\ invokes[e] \in Nat
  BY RowNumbers
<1>2. /\ t \in Invocation /\ Sound(t) /\ Len(t.attempts) = Len(rows[e].attempts) + 1
  BY <1>1, RetriedType, CapabilitiesAssumption DEF Invocation
<1>3. rows' = [rows EXCEPT ![e] = StoreWrite(rows[e], t)]
  BY DEF SeamInv, RowsGood
<1>4. StoreWrite(rows[e], t) = rows[e] \/ StoreWrite(rows[e], t) = t
  BY StoreWriteChoice
<1> HIDE DEF t
<1>5. t # NoRow
  BY <1>2, NoRowAssumption DEF Invocation
<1>6. invokes[e] < Len(t.attempts)
  BY <1>1, <1>2 DEF BudgetInv, Paid
<1>7. ASSUME NEW b \in Effects PROVE Paid(b, rows', invokes')
  <2>1. CASE b # e
    BY <1>3, <2>1 DEF SeamInv, RowsGood, BudgetInv, Paid
  <2>2. CASE b = e
    <3>1. rows'[e] = rows[e] \/ rows'[e] = t
      BY <1>3, <1>4 DEF SeamInv, RowsGood
    <3>2. Paid(e, rows, invokes) /\ invokes[e] <= Len(t.attempts)
      BY <1>1, <1>2, <1>6 DEF BudgetInv
    <3>3. QED
      BY <1>5, <1>6, <2>2, <3>1, <3>2 DEF Paid
  <2>3. QED
    BY <2>1, <2>2
<1>8. QED
  BY <1>7 DEF AllPaid

(* Picking a due row spends nothing. *)
LEMMA PickDuePaid ==
  ASSUME SeamInv, BudgetInv, OneResident, NEW d \in Dispatchers, NEW e \in Effects,
         PickDue(d, e)
  PROVE  BudgetInv'
<1>1. rows[e] # NoRow /\ rows[e].backoff \in BOOLEAN /\ invokes' = invokes
  BY StepOfRow DEF PickDue, DueRow, worldVars
<1>2. AllPaid
  BY <1>1, RetriedPaid, NothingSpent DEF PickDue
<1>3. call'[d].pc = "persisted"
  BY DEF PickDue, Start, SeamInv, CallsGood, IdleCall
<1>4. QED
  BY <1>2, <1>3, EasyCall DEF Easy, PCs

-----------------------------------------------------------------------------
(* The first part of a pass. *)

(* A cancellation outcome spends nothing. *)
LEMMA CancellationPaid ==
  ASSUME SeamInv, BudgetInv, NEW d \in Dispatchers,
         call[d].pc \notin {"idle", "mint", "raised"},
         Row(d).cancelRequested, NEW state \in CancelStates,
         NEW status \in {Row(d).status, "cancelled"},
         NEW delivery \in DeliveryStates, delivery # "not_submitted",
         Put(d, StoreWrite(Row(d), CancellationRecorded(Row(d), state, status, delivery))),
         invokes' = invokes
  PROVE  AllPaid
<1> DEFINE t == CancellationRecorded(Row(d), state, status, delivery)
<1>1. Row(d) \in Invocation /\ Sound(Row(d))
  BY RunningCall
<1>2. t \in Invocation /\ Sound(t) /\ ~Unsent(t) /\ SameAttempts(Row(d), t)
  BY <1>1, CancellationRecordedType DEF Invocation
<1>3. Put(d, StoreWrite(Row(d), t))
  OBVIOUS
<1>4. QED
  <2> HIDE DEF t
  <2> QED
    BY <1>2, <1>3, ReplacedByCall

(* Asking the owner to cancel spends nothing. *)
LEMMA RequestCancelPaid ==
  ASSUME SeamInv, BudgetInv, OneResident, NEW d \in Dispatchers, RequestCancel(d)
  PROVE  BudgetInv'
<1>1. /\ call[d].pc = "cancelling" /\ call[d] \in Calls /\ invokes' = invokes
      /\ Row(d) \in Invocation /\ Sound(Row(d))
  BY RunningCall DEF RequestCancel, worldVars
<1> DEFINE r == Row(d)
           Unsupported == CancellationRecorded(r, "unsupported", r.status, r.delivery)
<1>2. CASE rows' = rows /\ (Goto(d, "observe") \/ Finish(d))
  BY <1>1, <1>2, NothingSpent, GotoEasy DEF Easy, PCs
<1>3. CASE CancelPending(r) /\ Put(d, StoreWrite(r, Unsupported)) /\ Goto(d, "observe")
  <2>1. r.cancelRequested /\ r.delivery \in DeliveryStates /\ r.delivery # "not_submitted"
    BY <1>1, <1>3 DEF CancelPending, Sound, Unsent, Invocation, Invocations
  <2>2. AllPaid
    BY <1>1, <1>3, <2>1, CancellationPaid DEF CancelStates
  <2>3. QED
    BY <1>3, <2>2, GotoEasy DEF Easy, PCs
<1>4. CASE rows' = rows /\ call' = [call EXCEPT ![d].pc = "cancelwait", ![d].snap = r]
  <2>1. call'[d].pc = "cancelwait"
    BY <1>1, <1>4 DEF SeamInv, CallsGood, Calls
  <2>2. QED
    BY <1>1, <1>4, <2>1, NothingSpent, EasyCall DEF Easy, PCs
<1>5. QED
  <2>1. \/ rows' = rows /\ (Goto(d, "observe") \/ Finish(d))
        \/ CancelPending(r) /\ Put(d, StoreWrite(r, Unsupported)) /\ Goto(d, "observe")
        \/ rows' = rows /\ call' = [call EXCEPT ![d].pc = "cancelwait", ![d].snap = r]
    BY DEF RequestCancel, IsInvocationTerminal, CancelPending
  <2>2. QED
    BY <1>2, <1>3, <1>4, <2>1

(* Nor does the owner's answer. *)
LEMMA CancelReturnsPaid ==
  ASSUME SeamInv, BudgetInv, OneResident, NEW d \in Dispatchers,
         NEW answer \in {"completed", "failed", "running", "unknown"},
         CancelReturns(d, answer)
  PROVE  BudgetInv'
<1>1. /\ call[d] \in Calls /\ CallGood(call[d], rows) /\ call[d].pc = "cancelwait"
      /\ invokes' = invokes
  BY RunningCall DEF CancelReturns
<1>2. call[d].snap \in Invocation /\ ~Unsent(call[d].snap)
  BY <1>1, StoredRow DEF CallGood, Calls
<1> DEFINE r == Row(d)
           s == call[d].snap
           u == CancelUpdate(answer, s)
           status == IF u.status = "same" THEN r.status ELSE u.status
<1>3. /\ u.state \in CancelStates
      /\ u.delivery \in DeliveryStates /\ u.delivery # "not_submitted"
  <2>1. s.delivery \in DeliveryStates /\ s.delivery # "not_submitted"
    BY <1>2 DEF Invocation, Invocations, Unsent
  <2>2. QED
    <3> HIDE DEF s
    <3> QED
      BY <2>1 DEF CancelUpdate, CancelStates, DeliveryStates
<1>4. AllPaid /\ (Goto(d, "observe") \/ Finish(d))
  <2>1. CASE rows' = rows /\ (Goto(d, "observe") \/ Finish(d))
    BY <1>1, <2>1, NothingSpent
  <2>2. CASE /\ MayRecordCancellation(r, u.state, status)
             /\ Put(d, StoreWrite(r, CancellationRecorded(r, u.state, status, u.delivery)))
             /\ Goto(d, "observe")
    <3> HIDE DEF u, status
    <3>1. r.cancelRequested /\ status \in {r.status, "cancelled"}
      BY <2>2 DEF MayRecordCancellation
    <3>2. QED
      BY <1>1, <1>3, <2>2, <3>1, CancellationPaid
  <2>3. QED
    BY <2>1, <2>2 DEF CancelReturns, IsInvocationTerminal
<1>5. QED
  BY <1>4, GotoEasy DEF Easy, PCs

(* Asking whether there is something to observe spends nothing. *)
LEMMA ObservePaid ==
  ASSUME SeamInv, BudgetInv, OneResident, NEW d \in Dispatchers, Observe(d)
  PROVE  BudgetInv'
<1>1. call[d].pc = "observe" /\ invokes' = invokes
  BY DEF Observe, worldVars
<1> DEFINE status == IF Row(d).status = "failed" THEN "failed" ELSE "blocked"
<1>2. \/ rows' = rows
      \/ MarkUncertain(d, "unsupported", status) \/ MarkUncertain(d, "pending", status)
  BY DEF Observe
<1>3. AllPaid
  BY <1>1, <1>2, NothingSpent, MarkUncertainPaid DEF ReconStates
<1>4. Finish(d) \/ Goto(d, "reconcile")
  BY DEF Observe
<1>5. QED
  BY <1>3, <1>4, GotoEasy DEF Easy, PCs

-----------------------------------------------------------------------------
(* The operator, the owner, the clock, the host process. *)

(* What cancelMission and the clock do to a row. *)
Kept(r, t) ==
  /\ r = NoRow => t = NoRow
  /\ r # NoRow => /\ t # NoRow /\ Len(t.attempts) = Len(r.attempts)
                  /\ t.delivery = r.delivery /\ t.status \in {r.status, "cancelled"}
                  /\ r.cancelRequested => t.cancelRequested

(* Rows kept that way owe what they owed. *)
LEMMA KeptPaid ==
  ASSUME SeamInv, BudgetInv, \A e \in Effects : Kept(rows[e], rows'[e]),
         invokes' = invokes, call' = call
  PROVE  BudgetInv'
<1>1. ASSUME NEW e \in Effects PROVE Paid(e, rows', invokes')
  <2>1. Kept(rows[e], rows'[e]) /\ Paid(e, rows, invokes)
    BY DEF BudgetInv
  <2>2. QED
    BY <2>1 DEF Kept, Paid, Unsent
<1>2. ASSUME NEW d \in Dispatchers PROVE CallPaid(call'[d], rows', invokes')
  <2> DEFINE c == call[d]
             e == EffectOf[c.step]
  <2>1. CallGood(c, rows) /\ CallPaid(c, rows, invokes)
    BY DEF SeamInv, CallsGood, BudgetInv
  <2>2. CASE c.pc \in {"mint", "handoff", "invoke", "write"}
    <3>1. e \in Effects /\ Kept(rows[e], rows'[e])
      BY <2>1, <2>2, StepsAssumption DEF CallGood
    <3>2. c.pc # "mint" => rows[e] # NoRow
      BY <2>1, <2>2 DEF CallGood
    <3>3. QED
      <4> HIDE DEF c
      <4>1. c.pc = "mint" => rows'[e] = NoRow
        BY <2>1, <3>1 DEF CallPaid, Kept
      <4>2. ASSUME c.pc # "mint"
            PROVE  /\ Len(rows'[e].attempts) = Len(rows[e].attempts)
                   /\ rows'[e].delivery = rows[e].delivery
                   /\ rows'[e].status \in {rows[e].status, "cancelled"}
                   /\ rows[e].cancelRequested => rows'[e].cancelRequested
        BY <3>1, <3>2, <4>2 DEF Kept
      <4>3. CallPaid(c, rows', invokes')
        BY <2>1, <4>1, <4>2 DEF CallPaid, Unsent
      <4>4. QED
        BY <4>3 DEF c
  <2>3. CASE c.pc \notin {"mint", "handoff", "invoke", "write"}
    BY <2>3 DEF CallPaid
  <2>4. QED
    BY <2>2, <2>3
<1>3. QED
  BY <1>1, <1>2 DEF BudgetInv

(* A delayed retry finds no call that counts on the failed attempt. *)
LEMMA PrepareDelayedRetryPaid ==
  ASSUME SeamInv, BudgetInv, NEW e \in Effects, PrepareDelayedRetry(e)
  PROVE  BudgetInv'
<1>1. rows[e] # NoRow /\ MayRetry(rows[e]) /\ invokes' = invokes /\ call' = call
  BY DEF PrepareDelayedRetry, Minted, worldVars, callVars
<1>2. AllPaid
  BY <1>1, RetriedPaid DEF PrepareDelayedRetry
<1>3. /\ rows[e].status = "failed" /\ ~rows[e].cancelRequested
      /\ rows[e] \in Invocation /\ Sound(rows[e])
  BY <1>1, RowNumbers DEF MayRetry, IsSafeRetryEligible
<1>4. ASSUME NEW d \in Dispatchers PROVE CallPaid(call'[d], rows', invokes')
  <2> DEFINE c == call[d]
             f == EffectOf[c.step]
  <2>1. CallGood(c, rows) /\ CallPaid(c, rows, invokes) /\ call'[d] = c
    BY <1>1 DEF SeamInv, CallsGood, BudgetInv
  <2>2. CASE f # e
    <3>1. rows'[f] = rows[f]
      BY <2>2 DEF PrepareDelayedRetry
    <3>2. QED
      <4> HIDE DEF c
      <4> QED
        BY <1>1, <2>1, <3>1 DEF CallPaid
  <2>3. CASE f = e
    <3> HIDE DEF c
    <3>1. c.pc \notin {"mint", "handoff", "invoke"}
      BY <1>1, <1>3, <2>1, <2>3 DEF CallPaid
    <3>2. c.pc = "write" => c.snap.status = "failed" /\ ~c.snap.cancelRequested
      BY <1>3, <2>1, <2>3 DEF CallPaid
    <3>3. QED
      BY <2>1, <3>1, <3>2 DEF CallPaid
  <2>4. QED
    BY <2>2, <2>3
<1>5. QED
  BY <1>2, <1>4 DEF BudgetInv, AllPaid

(* The environment spends nothing. *)
LEMMA EnvironmentPaid ==
  ASSUME SeamInv, BudgetInv, Environment PROVE BudgetInv'
<1>1. CASE rows' = rows /\ invokes' = invokes /\ call' = call
  BY <1>1 DEF BudgetInv
<1>2. CASE CancelMission
  <2>1. ASSUME NEW e \in Effects PROVE Kept(rows[e], rows'[e])
    <3>1. CASE rows[e] = NoRow
      BY <1>2, <3>1 DEF CancelMission, Minted, Kept
    <3>2. CASE rows[e] # NoRow
      <4> DEFINE t == CancelledByMission(rows[e])
      <4>1. rows[e] \in Invocation /\ Sound(rows[e])
        BY <3>2, RowNumbers
      <4>2. /\ t \in Invocation /\ Sound(t) /\ SameAttempts(rows[e], t)
            /\ t.delivery = rows[e].delivery /\ t.status \in {rows[e].status, "cancelled"}
            /\ rows[e].cancelRequested => t.cancelRequested
        BY <4>1, CancelledByMissionType DEF Invocation
      <4>3. rows'[e] = rows[e] \/ rows'[e] = t
        BY <1>2, <3>2, StoreWriteChoice DEF CancelMission, Minted
      <4>4. QED
        <5> HIDE DEF t
        <5> QED
          BY <3>2, <4>2, <4>3, NoRowAssumption DEF Kept, SameAttempts, Invocation
    <3>3. QED
      BY <3>1, <3>2
  <2>2. QED
    BY <1>2, <2>1, KeptPaid DEF CancelMission, worldVars, callVars
<1>3. ASSUME NEW b \in Effects, BackoffElapses(b) PROVE BudgetInv'
  <2>1. ASSUME NEW e \in Effects PROVE Kept(rows[e], rows'[e])
    <3>1. CASE e = b
      <4> DEFINE t == [rows[b] EXCEPT !.due = TRUE]
      <4>1. rows[b] \in Invocation /\ rows[b] # NoRow
        BY <1>3, RowNumbers DEF BackoffElapses, Minted
      <4>2. t \in Invocation /\ rows'[b] = t
        BY <1>3, <4>1 DEF BackoffElapses, SeamInv, RowsGood, Invocation, Invocations
      <4>3. t # NoRow
        BY <4>2, NoRowAssumption DEF Invocation
      <4>4. QED
        BY <3>1, <4>1, <4>2, <4>3 DEF Kept, Invocation, Invocations
    <3>2. CASE e # b
      BY <1>3, <3>2 DEF BackoffElapses, Kept
    <3>3. QED
      BY <3>1, <3>2
  <2>2. QED
    BY <1>3, <2>1, KeptPaid DEF BackoffElapses, worldVars, callVars
<1>4. CASE Crash
  <2>1. \A d \in Dispatchers : call'[d].pc = "idle"
    BY <1>4 DEF Crash, IdleCall
  <2>2. AllPaid
    BY <1>4, NothingSpent DEF Crash, worldVars
  <2>3. QED
    BY <2>1, <2>2 DEF BudgetInv, AllPaid, CallPaid
<1>5. QED
  BY <1>1, <1>2, <1>3, <1>4, PrepareDelayedRetryPaid
     DEF Environment, PauseMission, ResumeMission, ReplanAccepted, SetAvailability,
         OwnerFinishes, worldVars, callVars

-----------------------------------------------------------------------------
(* The whole path. *)

(* Every step of the dispatcher leaves its calls paid for. *)
LEMMA DispatchPaid ==
  ASSUME SeamInv, BudgetInv, OneResident, OwnEffects, NEW d \in Dispatchers, Dispatch(d)
  PROVE  BudgetInv'
BY EasySteps, GateStepPaid, MintPaid, HandoffPaid, InvokePaid, PersistHandlePaid,
   ReadForRecordPaid, WriteRecordPaid, RemarkPaid, CheckPersistedPaid, PickDuePaid,
   RequestCancelPaid, ObservePaid, CancelReturnsPaid
DEF Dispatch

(* Nothing is spent at the start. *)
LEMMA BudgetInvInit == Init => BudgetInv
BY DEF Init, BudgetInv, Paid, CallPaid, IdleCall

(* With one resident dispatcher and effects of their own for the steps, no *)
(* call of the owner is unpaid.                                            *)
THEOREM BudgetInvariant ==
  ASSUME OneResident, OwnEffects PROVE Spec => []BudgetInv
<1>1. SeamInv /\ BudgetInv /\ [Next]_vars => BudgetInv'
  <2>1. SeamInv /\ BudgetInv /\ UNCHANGED vars => BudgetInv'
    BY DEF vars, BudgetInv
  <2>2. QED
    BY <2>1, DispatchPaid, EnvironmentPaid DEF Next
<1>2. QED
  BY <1>1, BudgetInvInit, SeamInvariant, PTL DEF Spec

(* markInvocationHandoff keeps an attempt from being sent twice, whatever  *)
(* crashes, retries, pauses and cancellations intervene.                   *)
THEOREM InvokedOnce ==
  ASSUME OneResident, OwnEffects PROVE Spec => []AttemptInvokedOnce
<1>1. BudgetInv => AttemptInvokedOnce
  BY DEF BudgetInv, Paid, AttemptInvokedOnce, Minted
<1>2. QED
  BY <1>1, BudgetInvariant, PTL

(* The owner is asked no more often than the descriptor's retry policy     *)
(* allows (isSafeRetryEligible): once, unless the capability is idempotent. *)
THEOREM WithinBudget ==
  ASSUME OneResident, OwnEffects PROVE Spec => []InvokeBudget
<1>1. SeamInv /\ BudgetInv => InvokeBudget
  <2> SUFFICES ASSUME SeamInv, BudgetInv, NEW e \in Effects, invokes[e] > 1
               PROVE  rows[e].desc.idempotent /\ invokes[e] <= rows[e].desc.maxAttempts
    BY DEF InvokeBudget
  <2>1. Paid(e, rows, invokes)
    BY DEF BudgetInv
  <2>2. rows[e] # NoRow /\ invokes[e] <= Len(rows[e].attempts)
    BY <2>1 DEF Paid
  <2>3. /\ rows[e] \in Invocation /\ Sound(rows[e])
        /\ Len(rows[e].attempts) \in Nat /\ invokes[e] \in Nat
    BY <2>2, RowNumbers
  <2>4. rows[e].desc.maxAttempts \in Nat
    BY <2>3, CapabilitiesAssumption DEF Invocation, Invocations, Descriptors
  <2>5. Len(rows[e].attempts) > 1
    BY <2>2, <2>3
  <2>6. rows[e].desc.idempotent /\ Len(rows[e].attempts) <= rows[e].desc.maxAttempts
    BY <2>3, <2>5 DEF Sound
  <2>7. QED
    BY <2>2, <2>3, <2>4, <2>6
<1>2. QED
  BY <1>1, SeamInvariant, BudgetInvariant, PTL
=============================================================================
