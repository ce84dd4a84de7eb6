------------------------------ MODULE StopHistory ------------------------------
(***************************************************************************)
(* SessionPlane with a history variable.  The state of the plane does not  *)
(* say whether a work that was told to stop goes on as the run that was    *)
(* told, or as a later persona that nobody told: the second has an abort   *)
(* controller of its own, and the lease's signal has fired already.        *)
(* afterStop remembers it.  It is read by no action and prevents none.     *)
(***************************************************************************)
EXTENDS SessionPlane

VARIABLE afterStop   \* per work: what has happened since it was told to stop

historyVars == <<vars, afterStop>>

\* The loop is entered again, for the next persona, with a fresh controller.
Escalates(w) ==
    /\ attempt'[w] > attempt[w]
    /\ attempt'[w] % MaxRetries = 0
    /\ task'[w] = "looping"

CancelledNext(w) == orch'[SessionOf[w]].cancelled

\* A stop, or the clean-up of a later brake, cancels the orchestrator; only
\* after admission was opened again can the task escalate.
Observed(w) ==
    CASE lease'[w] # "cancelling" -> "none"
      [] /\ lease'[w] = "cancelling"
         /\ lease[w] # "cancelling" \/ (CancelledNext(w) /\ ~AdmissionOpen')
           -> "told"
      [] /\ lease[w] = "cancelling" /\ lease'[w] = "cancelling"
         /\ AdmissionOpen'
         /\ afterStop[w] = "told" \/ CancelledNext(w)
           -> "reopened"
      [] OTHER ->
           IF afterStop[w] = "reopened" /\ Escalates(w)
           THEN "escalated" ELSE afterStop[w]

Observes == afterStop' = [w \in Works |-> Observed(w)]

HistoryInit == Init /\ afterStop = [w \in Works |-> "none"]

HistoryNext == Next /\ Observes

HistorySpec == HistoryInit /\ [][HistoryNext]_historyVars /\ Fairness

-----------------------------------------------------------------------------

StartsCall(w) == task[w] # "calling" /\ task'[w] = "calling"

\* A provider, tool or bridge call begins only for a work whose lease runs,
\* in a daemon that is not paused, braking or braked (session-manager.ts:768,
\* Orchestrator.ts:257, agent-loop.ts:146).  One work does not keep to it: it
\* was told to stop and ignored the abort, the operator opened admission
\* again, and then the last attempt of its persona failed, so that it was
\* escalated with a fresh abort controller (Orchestrator.ts:426, 220).  Such
\* a work calls on, also while a second brake is under way, until the
\* clean-up of that brake cancels its orchestrator.  What the operator is told
\* when admission opens, "Cancelled/detached work is not auto-resumed"
\* (execution-control.ts:883), does not hold of it.
NoCallAfterStop ==
    [][\A w \in Works :
         StartsCall(w) =>
           \/ /\ lease'[w] = "running"
              /\ op'.kind \notin {"paused", "braking", "braked"}
           \/ afterStop[w] = "escalated"]_historyVars

=============================================================================
