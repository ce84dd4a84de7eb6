----------------------------- MODULE SessionPlane -----------------------------
(***************************************************************************)
(* The daemon's legacy execution path under the control plane of module    *)
(* ExecutionControl: the session manager (cli/src/daemon/                  *)
(* session-manager.ts), one Orchestrator per session with its retry and    *)
(* escalation loop (cli/src/orchestration/Orchestrator.ts), the agent loop *)
(* that makes the provider and tool calls (cli/src/providers/              *)
(* agent-loop.ts), and daemon.delegate (legacy-rpc-gateway.ts).            *)
(*                                                                         *)
(* A lease only asks its work to stop.  What stops it is this code: the    *)
(* orchestrator's cancelled flag, the abort signal of its current run, and *)
(* the checks between calls.  A provider or tool call in flight may honour *)
(* the signal or return as if nothing had happened.                        *)
(***************************************************************************)
EXTENDS ExecutionControl, Naturals

CONSTANTS
    Sessions,     \* the sessions in the daemon's storage
    MaxRetries,   \* attempts of one persona before the task is escalated
    Personas      \* personas of the escalation chain, DEVELOPER first

ASSUME PlaneAssumption ==
    /\ SessionOf \in [Works -> Sessions]
    /\ MaxRetries \in Nat \ {0}
    /\ Personas \in Nat \ {0}

VARIABLES
    orch,      \* per session: Orchestrator in activeOrchestrators, its flags
    status,    \* per session: the status in storage
    task,      \* per work: where the code that runs it is
    attempt,   \* per work: failed attempts so far, all personas together
    result,    \* per work: what loopUntilSuccess returned
    mode,      \* the control operation a setMode call has chosen
    cleanup    \* per session: the emergency brake's clean-up of it

spVars == <<orch, status, task, attempt, result, mode, cleanup>>
vars == <<ecVars, spVars>>

IsSessionTask(w) == workKind[w] = "session_task"

AgentDelegates == {"delegate_glm", "delegate_glm_wave"}

IsAgentDelegate(w) == workKind[w] \in AgentDelegates

\* The task's promise is in activeTasks.
InTaskMap == {"looping", "gating", "calling", "recording", "failing"}

LiveSessions ==
    {SessionOf[w] : w \in {v \in Works : IsSessionTask(v)
                                           /\ task[v] \in InTaskMap}}

Terminal == {"completed", "failed"}

PlaneTypeOK ==
    /\ ControlTypeOK
    /\ orch \in [Sessions -> [present : BOOLEAN, cancelled : BOOLEAN,
                              paused : BOOLEAN, signalled : BOOLEAN]]
    /\ status \in [Sessions -> {"active", "paused"} \cup Terminal]
    /\ task \in [Works -> {"idle", "refused", "logging", "loading", "ended"}
                            \cup InTaskMap]
    /\ attempt \in [Works -> 0 .. MaxRetries * Personas]
    /\ result \in [Works -> {"none", "SUCCESS", "NEEDS_HUMAN", "CANCELLED"}]
    /\ mode \in {"none", "pause", "resume", "clear"}
    /\ cleanup \in [Sessions -> {"idle", "queued"}]

NewOrchestrator(open) ==
    [present |-> TRUE, cancelled |-> FALSE, paused |-> ~open,
     signalled |-> FALSE]

NoOrchestrator ==
    [present |-> FALSE, cancelled |-> FALSE, paused |-> FALSE,
     signalled |-> FALSE]

\* Orchestrator.pause, resume and cancel.
PausedOrch(o) == [o EXCEPT !.paused = TRUE]
ResumedOrch(o) == [o EXCEPT !.paused = FALSE, !.cancelled = FALSE]
CancelledOrch(o) ==
    [o EXCEPT !.cancelled = TRUE, !.paused = TRUE, !.signalled = TRUE]

\* The same for every orchestrator in activeOrchestrators.
AllPaused ==
    [s \in Sessions |->
       IF orch[s].present THEN PausedOrch(orch[s]) ELSE orch[s]]
AllResumed ==
    [s \in Sessions |->
       IF orch[s].present THEN ResumedOrch(orch[s]) ELSE orch[s]]

Init ==
    /\ ECInit
    /\ orch = [s \in Sessions |-> NewOrchestrator(AdmissionOpen)]
    /\ status = [s \in Sessions |->
                   IF AdmissionOpen THEN "active" ELSE "paused"]
    /\ task = [w \in Works |-> "idle"]
    /\ attempt = [w \in Works |-> 0]
    /\ result = [w \in Works |-> "none"]
    /\ mode = "none"
    /\ cleanup = [s \in Sessions |-> "idle"]

-----------------------------------------------------------------------------
(* SessionManager.sendInput *)

\* The lease is acquired; without an orchestrator it is failed at once.
SendInput(w) ==
    /\ task[w] = "idle"
    /\ Acquire(w, "session_task")
    /\ task' = [task EXCEPT ![w] =
                  IF orch[SessionOf[w]].present THEN "logging" ELSE "refused"]
    /\ UNCHANGED <<orch, status, attempt, result, mode, cleanup>>

\* The work is over: its lease is settled and its locals are gone.
Ends(w) ==
    /\ Settle(w)
    /\ task' = [task EXCEPT ![w] = "ended"]
    /\ attempt' = [attempt EXCEPT ![w] = 0]
    /\ result' = [result EXCEPT ![w] = "none"]
    /\ UNCHANGED <<mode, cleanup>>

\* Nothing else is written: lease.fail and throw, or a delegate's answer.
GiveUp(w) == Ends(w) /\ UNCHANGED <<orch, status>>

SendRefused(w) == task[w] = "refused" /\ GiveUp(w)

\* appendLog returns: a brake meanwhile must not start the provider.
LogInput(w) ==
    /\ task[w] = "logging"
    /\ \/ GiveUp(w)
       \/ /\ ~Aborted(w) /\ ~orch[SessionOf[w]].cancelled
          /\ task' = [task EXCEPT ![w] = "loading"]
          /\ UNCHANGED <<ecVars, orch, status, attempt, result, mode, cleanup>>

\* loopUntilSuccess, from its start: a fresh abort controller for this run.
EnterLoop(w) ==
    LET s == SessionOf[w] IN
    /\ orch' = [orch EXCEPT ![s].signalled = orch[s].cancelled]
    /\ task' = [task EXCEPT ![w] =
                  IF orch[s].cancelled THEN "recording" ELSE "looping"]
    /\ result' = [result EXCEPT ![w] =
                    IF orch[s].cancelled THEN "CANCELLED" ELSE @]

\* The modules are loaded: the final gate, then the loop.
StartLoop(w) ==
    /\ task[w] = "loading"
    /\ IF Aborted(w)
       THEN GiveUp(w)
       ELSE /\ EnterLoop(w)
            /\ UNCHANGED <<ecVars, status, attempt, mode, cleanup>>

-----------------------------------------------------------------------------
(* Orchestrator.loopUntilSuccess and AgentLoop.run *)

Returns(w, r) ==
    /\ task' = [task EXCEPT ![w] = "recording"]
    /\ result' = [result EXCEPT ![w] = r]
    /\ UNCHANGED <<ecVars, orch, status, attempt, mode, cleanup>>

GoTo(w, place) ==
    /\ task' = [task EXCEPT ![w] = place]
    /\ UNCHANGED <<ecVars, orch, status, attempt, result, mode, cleanup>>

\* Mutant of Retry: one attempt more than the chain has.
RetryOnceMore(w) ==
    LET n == attempt[w] + 1 IN
    /\ attempt' = [attempt EXCEPT ![w] = n]
    /\ IF n > MaxRetries * Personas
       THEN /\ task' = [task EXCEPT ![w] = "recording"]
            /\ result' = [result EXCEPT ![w] = "NEEDS_HUMAN"]
            /\ UNCHANGED orch
       ELSE IF n % MaxRetries = 0
       THEN EnterLoop(w)
       ELSE /\ task' = [task EXCEPT ![w] = "looping"]
            /\ UNCHANGED <<orch, result>>
    /\ UNCHANGED <<ecVars, status, mode, cleanup>>

\* The attempt failed: again, or with the next persona, or to a human.
Retry(w) ==
    LET n == attempt[w] + 1 IN
    /\ attempt' = [attempt EXCEPT ![w] = n]
    /\ IF n = MaxRetries * Personas
       THEN /\ task' = [task EXCEPT ![w] = "recording"]
            /\ result' = [result EXCEPT ![w] = "NEEDS_HUMAN"]
            /\ UNCHANGED orch
       ELSE IF n % MaxRetries = 0
       THEN EnterLoop(w)
       ELSE /\ task' = [task EXCEPT ![w] = "looping"]
            /\ UNCHANGED <<orch, result>>
    /\ UNCHANGED <<ecVars, status, mode, cleanup>>

\* Mutant of LoopHead: a cancelled task first waits to be resumed.
LoopHeadStuck(w) ==
    LET o == orch[SessionOf[w]] IN
    /\ task[w] = "looping"
    /\ ~o.paused
    /\ \/ o.cancelled /\ Returns(w, "CANCELLED")
       \/ ~o.cancelled /\ GoTo(w, "gating")

\* The head of the loop: waits while paused, leaves when cancelled; building
\* the prompt or the phase gate may fail the attempt before its first call.
LoopHead(w) ==
    LET o == orch[SessionOf[w]] IN
    /\ task[w] = "looping"
    /\ \/ o.cancelled /\ Returns(w, "CANCELLED")
       \/ ~o.cancelled /\ ~o.paused /\ (GoTo(w, "gating") \/ Retry(w))

\* Mutant of Gate: the flags are looked at, the abort signal is not.
GateOnFlags(w) ==
    LET o == orch[SessionOf[w]] IN
    /\ task[w] = "gating"
    /\ IsSessionTask(w)
    /\ \/ o.cancelled /\ Returns(w, "CANCELLED")
       \/ ~o.cancelled /\ ~o.paused /\ GoTo(w, "calling")

\* Before every provider and tool call: throwIfAborted, waitUntilRunnable.
Gate(w) ==
    LET o == orch[SessionOf[w]] IN
    /\ task[w] = "gating"
    /\ IsSessionTask(w)
    /\ \/ (o.cancelled \/ o.signalled) /\ Returns(w, "CANCELLED")
       \/ ~o.cancelled /\ ~o.signalled /\ ~o.paused /\ GoTo(w, "calling")

\* The call in flight is over: it asks for more calls, reports an abort (its
\* own or one it was told of), or ends the attempt.
Return(w) ==
    /\ task[w] = "calling"
    /\ IsSessionTask(w)
    /\ \/ GoTo(w, "gating")
       \/ Returns(w, "CANCELLED")
       \/ ~orch[SessionOf[w]].cancelled /\ Returns(w, "SUCCESS")
       \/ ~orch[SessionOf[w]].cancelled /\ Retry(w)

-----------------------------------------------------------------------------
(* What sendInput does with the result *)

StatusOf(r) == IF r = "SUCCESS" THEN "completed" ELSE "paused"

\* The log and the status are written, then the lease is settled.
Record(w) ==
    LET s == SessionOf[w] IN
    /\ task[w] = "recording"
    /\ \/ /\ status' = [status EXCEPT ![s] = StatusOf(result[w])]
          /\ orch' = [orch EXCEPT ![s] =
                        IF StatusOf(result[w]) \in Terminal
                        THEN NoOrchestrator ELSE @]
          /\ Ends(w)
       \/ GoTo(w, "failing")

\* A write failed: the session is marked failed, if that can be written.
RecordFailure(w) ==
    LET s == SessionOf[w] IN
    /\ task[w] = "failing"
    /\ status' \in {status, [status EXCEPT ![s] = "failed"]}
    /\ orch' = [orch EXCEPT ![s] = NoOrchestrator]
    /\ Ends(w)

-----------------------------------------------------------------------------
(* daemon.delegate *)

\* A bridge is called at once; the GLM agent passes its own gate first.
Delegate(w) ==
    /\ task[w] = "idle"
    /\ \E k \in WorkKinds \ {"session_task"} :
         /\ Acquire(w, k)
         /\ task' = [task EXCEPT ![w] =
                       IF k \in AgentDelegates THEN "gating" ELSE "calling"]
    /\ UNCHANGED <<orch, status, attempt, result, mode, cleanup>>

DelegateGate(w) ==
    /\ task[w] = "gating"
    /\ IsAgentDelegate(w)
    /\ \/ Aborted(w) /\ GiveUp(w)
       \/ ~Aborted(w) /\ lease[w] # "paused" /\ GoTo(w, "calling")

DelegateReturn(w) ==
    /\ task[w] = "calling"
    /\ ~IsSessionTask(w)
    /\ \/ GiveUp(w)
       \/ IsAgentDelegate(w) /\ GoTo(w, "gating")

-----------------------------------------------------------------------------
(* SessionManager.setMode: what to ask for is chosen before the chain is    *)
(* free; one such call is in flight at a time.                              *)

SetMode(requested) ==
    /\ mode = "none"
    /\ \/ /\ requested = "pause"
          /\ op.kind \in {"running", "braked"}
          /\ mode' = "pause"
       \/ /\ requested = "running"
          /\ op.kind # "running"
          /\ mode' = IF op.kind \in {"braked", "degraded"}
                     THEN "clear" ELSE "resume"
    /\ UNCHANGED <<ecVars, orch, status, task, attempt, result, cleanup>>

ModePause ==
    /\ mode = "pause"
    /\ \/ Pause
       \/ ChainFree /\ op.kind \in {"paused", "braked"} /\ UNCHANGED ecVars
    /\ orch' = AllPaused
    /\ mode' = "none"
    /\ UNCHANGED <<status, task, attempt, result, cleanup>>

\* The orchestrators go on only after a durable open; a braked daemon throws.
ModeRun ==
    /\ \/ mode = "resume" /\ Resume
       \/ mode = "resume" /\ ChainFree /\ op.kind \in {"running", "braked"}
            /\ UNCHANGED ecVars
       \/ mode = "clear" /\ ClearBrakeAndRun
    /\ orch' = IF op'.kind = "running" /\ persistOk'
               THEN AllResumed ELSE orch
    /\ mode' = "none"
    /\ UNCHANGED <<status, task, attempt, result, cleanup>>

-----------------------------------------------------------------------------
(* SessionManager.emergencyBrake *)

\* The controller has answered: live sessions are queued for clean-up.
QueueCleanup ==
    cleanup' = [s \in Sessions |->
                  IF s \in LiveSessions /\ cleanup[s] = "idle"
                  THEN "queued" ELSE cleanup[s]]

\* A lease told to stop for the first time cancels its orchestrator.
CancelledByLeases ==
    [s \in Sessions |->
       IF \E w \in Works : /\ SessionOf[w] = s /\ IsSessionTask(w)
                           /\ lease[w] \in {"running", "paused"}
       THEN CancelledOrch(orch[s]) ELSE orch[s]]

BrakeAll ==
    \/ /\ BrakeAgain \/ BrakeAgainDegraded \/ BrakeNotDurable \/ BrakeIdle
       /\ QueueCleanup
       /\ UNCHANGED <<orch, status, task, attempt, result, mode>>
    \/ /\ BrakeStop
       /\ orch' = CancelledByLeases
       /\ UNCHANGED <<status, task, attempt, result, mode, cleanup>>

BrakeWait(w) ==
    /\ WaitSettled(w) \/ WaitTimeout(w)
    /\ UNCHANGED spVars

BrakeOver ==
    /\ BrakeEnd
    /\ QueueCleanup
    /\ UNCHANGED <<orch, status, task, attempt, result, mode>>

\* A session's turn: it is released if it ended, or cancelled and marked
\* paused.  The storage is synchronous SQLite: what getSession read holds.
CleanupSession(s) ==
    /\ cleanup[s] = "queued"
    /\ IF status[s] \in Terminal
       THEN /\ orch' = [orch EXCEPT ![s] = NoOrchestrator]
            /\ UNCHANGED status
       ELSE /\ orch' = [orch EXCEPT ![s] =
                          IF @.present THEN CancelledOrch(@) ELSE @]
            /\ status' \in {status, [status EXCEPT ![s] = "paused"]}
    /\ cleanup' = [cleanup EXCEPT ![s] = "idle"]
    /\ UNCHANGED <<ecVars, task, attempt, result, mode>>

-----------------------------------------------------------------------------
(* The other session operations *)

AttachSession(s) ==
    /\ status[s] \notin Terminal
    /\ orch' = [orch EXCEPT ![s] =
                  IF ~@.present THEN NewOrchestrator(AdmissionOpen)
                  ELSE IF AdmissionOpen THEN @ ELSE PausedOrch(@)]
    /\ UNCHANGED <<ecVars, status, task, attempt, result, mode, cleanup>>

InterruptSession(s) ==
    /\ orch' = [orch EXCEPT ![s] = IF @.present THEN PausedOrch(@) ELSE @]
    /\ status' = [status EXCEPT ![s] = "paused"]
    /\ UNCHANGED <<ecVars, task, attempt, result, mode, cleanup>>

ResumeSession(s) ==
    /\ AdmissionOpen
    /\ orch' = [orch EXCEPT ![s] = IF @.present THEN ResumedOrch(@) ELSE @]
    /\ status' = [status EXCEPT ![s] = "active"]
    /\ UNCHANGED <<ecVars, task, attempt, result, mode, cleanup>>

\* The daemon restarts: sessions are in storage, nothing runs.
RestartDaemon ==
    /\ Restart
    /\ orch' = [s \in Sessions |-> NoOrchestrator]
    /\ task' = [w \in Works |-> IF task[w] = "idle" THEN "idle" ELSE "ended"]
    /\ attempt' = [w \in Works |-> 0]
    /\ result' = [w \in Works |-> "none"]
    /\ mode' = "none"
    /\ cleanup' = [s \in Sessions |-> "idle"]
    /\ UNCHANGED status

-----------------------------------------------------------------------------

\* A call of a provider, a tool or a bridge comes back.
CallReturns(w) == Return(w) \/ DelegateReturn(w)

\* A step of the daemon's own code for a work that was admitted.
TaskStep(w) ==
    \/ SendRefused(w) \/ LogInput(w) \/ StartLoop(w)
    \/ LoopHead(w) \/ Gate(w) \/ DelegateGate(w)
    \/ Record(w) \/ RecordFailure(w)

Next ==
    \/ \E w \in Works :
         SendInput(w) \/ Delegate(w) \/ TaskStep(w) \/ CallReturns(w)
    \/ \E requested \in {"pause", "running"} : SetMode(requested)
    \/ ModePause
    \/ ModeRun
    \/ BrakeAll
    \/ \E w \in Works : BrakeWait(w)
    \/ BrakeOver
    \/ \E s \in Sessions : CleanupSession(s)
    \/ \E s \in Sessions :
         AttachSession(s) \/ InterruptSession(s) \/ ResumeSession(s)
    \/ RestartDaemon

\* The event loop runs every continuation and timer it holds.  Nobody has to
\* ask for anything, and a call that was made need not come back.
Fairness ==
    /\ \A w \in Works : WF_vars(TaskStep(w)) /\ WF_vars(BrakeWait(w))
    /\ WF_vars(BrakeOver)
    /\ \A s \in Sessions : WF_vars(CleanupSession(s))

Spec == Init /\ [][Next]_vars /\ Fairness

-----------------------------------------------------------------------------

\* A brake that says complete leaves nothing running in the daemon: not only
\* is the registry empty, no provider or tool call of any admitted work is in
\* flight and nothing will start one (execution-control.ts:1285; the lease of
\* every kind of work is settled after its last call, session-manager.ts:838).
NothingRunsAfterCompleteBrake ==
    answer = "complete" =>
      \A w \in Works : task[w] \in {"idle", "ended"}

\* A session runs one task at a time: an aborted task whose provider does not
\* return keeps its session busy, also after the brake was cleared
\* (execution-control.ts:656-672).
OneTaskPerSession ==
    \A v, w \in Works :
      /\ v # w
      /\ IsSessionTask(v) /\ IsSessionTask(w)
      /\ SessionOf[v] = SessionOf[w]
      => task[v] \in {"idle", "refused", "ended"}
           \/ task[w] \in {"idle", "refused", "ended"}

\* A brake ends: no provider, tool or bridge that hangs can hold it, and with
\* it every later admission and control operation, for ever
\* (execution-control.ts:1161, the bounded wait).
BrakeEnds == (op.kind = "braking") ~> (op.kind # "braking")

\* If the calls in flight come back, a local work that was told to stop is
\* settled while the daemon stays braked, wherever the brake met it: before
\* its loop, waiting to be resumed, between two calls or in one
\* (Orchestrator.ts:148-161, cancel releases the pause wait).
StoppedWorkSettles ==
    (\A w \in Works : WF_vars(CallReturns(w))) =>
      \A w \in Works :
        (op.kind = "braked" /\ lease[w] = "cancelling")
          ~> (lease[w] = "gone" \/ op.kind # "braked")

=============================================================================
