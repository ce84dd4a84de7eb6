--------------------------- MODULE ExecutionControl ---------------------------
(***************************************************************************)
(* The daemon's control plane: cli/src/daemon/execution-control.ts.        *)
(*                                                                         *)
(* A DaemonExecutionController decides whether new work is admitted, keeps *)
(* one lease per admitted work and stops all of them on an emergency       *)
(* brake.  Admission and the control operations run one after another on   *)
(* the controller's exclusive chain; the chain is held across a wait only  *)
(* by a brake that waits for work to settle.  A lease is settled by the    *)
(* code that runs the work, at any time and outside the chain.  The        *)
(* operational state is written to a file with a temporary file and a      *)
(* rename, so a write happens whole or fails whole, and a restarted daemon *)
(* starts from the file.                                                   *)
(*                                                                         *)
(* The code that runs the work is left open here: Settle may be taken for  *)
(* any lease.  Module SessionPlane puts the session manager, the           *)
(* orchestrators and daemon.delegate in its place.                         *)
(***************************************************************************)
EXTENDS FiniteSets

CONSTANTS
    Works,      \* the works a client may submit; each identity is used once
    MayBe,      \* the kinds a client may submit each of them as
    SessionOf   \* the session it names when it is a session_task

WorkKinds == {"session_task", "delegate_glm", "delegate_glm_wave",
              "delegate_gemini", "delegate_antigravity", "delegate_jules"}

ASSUME KindAssumption == MayBe \in [Works -> SUBSET WorkKinds]

VARIABLES
    op,         \* controller.state: kind, completeness of a brake, fromBrake
    file,       \* the operational state last written to the ops file
    persistOk,  \* controller.lastPersistOk
    lease,      \* state of each work's lease; "none" before, "gone" after
    workKind,   \* the kind each registered lease was acquired for
    brake,      \* the brake that holds the chain while work settles
    answer      \* what the last brake answered since admission was last open

ecVars == <<op, file, persistOk, lease, workKind, brake, answer>>

OpState(k, completeness, fromBrake) ==
    [kind |-> k, completeness |-> completeness, fromBrake |-> fromBrake]

Running  == OpState("running", "none", FALSE)
Paused   == OpState("paused", "none", FALSE)
Braking  == OpState("braking", "none", FALSE)
Degraded == OpState("degraded", "none", FALSE)

\* The state a brake leaves when one of its two writes fails.
DegradedByBrake == OpState("degraded", "partial", TRUE)

Braked(completeness) == OpState("braked", completeness, FALSE)

\* What a daemon finds where no ops file is, or one it cannot read.
NoFile  == OpState("missing", "none", FALSE)
BadFile == OpState("corrupt", "none", FALSE)

NoBrake == [active |-> FALSE, waiting |-> {}, unconfirmed |-> FALSE]

LeaseStates == {"none", "running", "paused", "cancelling", "detached", "gone"}

OpStates ==
    [kind : {"running", "paused", "braking", "braked", "degraded", "missing",
             "corrupt"},
     completeness : {"none", "complete", "partial"},
     fromBrake : BOOLEAN]

ControlTypeOK ==
    /\ op \in OpStates
    /\ file \in OpStates
    /\ persistOk \in BOOLEAN
    /\ lease \in [Works -> LeaseStates]
    /\ workKind \in [Works -> WorkKinds \cup {"none"}]
    /\ brake \in [active : BOOLEAN, waiting : SUBSET Works,
                  unconfirmed : BOOLEAN]
    /\ answer \in {"none", "complete", "partial"}

-----------------------------------------------------------------------------

\* stopCapabilityFor and pauseCapabilityFor.
Abortable(w) ==
    workKind[w] \in {"session_task", "delegate_glm", "delegate_glm_wave"}

RequestOnly(w) == workKind[w] \in {"delegate_gemini", "delegate_antigravity"}

CooperativePause(w) ==
    workKind[w] \in {"session_task", "delegate_glm", "delegate_glm_wave"}

AdmissionOpen == op.kind = "running"

\* Leases in the registry, all of which countUnresolved counts.
InRegistry(l) == l \notin {"none", "gone"}

Registered == {w \in Works : InRegistry(lease[w])}

\* The lease's AbortSignal has fired.
Aborted(w) ==
    \/ lease[w] = "cancelling"
    \/ lease[w] = "detached" /\ RequestOnly(w)

\* No other critical section runs between two steps of a brake.
ChainFree == ~brake.active

\* persist: the write of state s succeeds or fails as a whole.
Persist(s, ok) ==
    /\ file' = IF ok THEN s ELSE file
    /\ persistOk' = ok

Unpaused ==
    [w \in Works |-> IF lease[w] = "paused" THEN "running" ELSE lease[w]]

-----------------------------------------------------------------------------

\* load: a crash in the middle of a brake is never read as running.
Loaded(f) ==
    CASE f.kind = "missing" -> Running
      [] f.kind = "corrupt" -> Degraded
      [] f.kind = "braking" -> Braked("partial")
      [] OTHER -> f

ECInit ==
    /\ file \in {NoFile, BadFile}
    /\ op = Loaded(file)
    /\ persistOk = (file # BadFile)
    /\ lease = [w \in Works |-> "none"]
    /\ workKind = [w \in Works |-> "none"]
    /\ brake = NoBrake
    /\ answer = "none"

\* Mutant of Acquire: a task that was told to stop no longer counts.
AcquireOverCancelling(w, k) ==
    /\ ChainFree
    /\ AdmissionOpen
    /\ lease[w] = "none"
    /\ k \in MayBe[w]
    /\ k = "session_task" =>
         ~ \E v \in Works : /\ workKind[v] = "session_task"
                            /\ SessionOf[v] = SessionOf[w]
                            /\ lease[v] \in {"running", "paused"}
    /\ lease' = [lease EXCEPT ![w] = "running"]
    /\ workKind' = [workKind EXCEPT ![w] = k]
    /\ UNCHANGED <<op, file, persistOk, brake, answer>>

\* acquire: admission is open and a session runs one task at a time.
Acquire(w, k) ==
    /\ ChainFree
    /\ AdmissionOpen
    /\ lease[w] = "none"
    /\ k \in MayBe[w]
    /\ k = "session_task" =>
         ~ \E v \in Works :
              /\ workKind[v] = "session_task"
              /\ SessionOf[v] = SessionOf[w]
              /\ lease[v] \in {"running", "paused", "cancelling"}
    /\ lease' = [lease EXCEPT ![w] = "running"]
    /\ workKind' = [workKind EXCEPT ![w] = k]
    /\ UNCHANGED <<op, file, persistOk, brake, answer>>

\* LeaseHandle.complete, fail and release: the first one settles the lease.
Settle(w) ==
    /\ InRegistry(lease[w])
    /\ lease' = [lease EXCEPT ![w] = "gone"]
    /\ workKind' = [workKind EXCEPT ![w] = "none"]
    /\ UNCHANGED <<op, file, persistOk, brake, answer>>

\* pause: closes admission, holds the work that can be held, then persists.
Pause ==
    /\ ChainFree
    /\ op.kind \in {"running", "degraded"}
    /\ \E ok \in BOOLEAN :
         /\ Persist(Paused, ok)
         /\ op' = IF ok THEN Paused ELSE Degraded
    /\ lease' = [w \in Works |->
                   IF lease[w] = "running" /\ CooperativePause(w)
                   THEN "paused" ELSE lease[w]]
    /\ UNCHANGED <<workKind, brake, answer>>

\* Mutant of Resume: admission opens before the write is known to have held.
ResumeAnyway ==
    /\ ChainFree
    /\ op.kind \in {"paused", "degraded"}
    /\ \E ok \in BOOLEAN : Persist(Running, ok)
    /\ op' = Running
    /\ lease' = Unpaused
    /\ answer' = "none"
    /\ UNCHANGED <<workKind, brake>>

\* resume: admission opens, and held work goes on, once that is on disk.
Resume ==
    /\ ChainFree
    /\ op.kind \in {"paused", "degraded"}
    /\ \E ok \in BOOLEAN :
         /\ Persist(Running, ok)
         /\ op' = IF ok THEN Running ELSE Paused
         /\ lease' = IF ok THEN Unpaused ELSE lease
         /\ answer' = IF ok THEN "none" ELSE answer
    /\ UNCHANGED <<workKind, brake>>

\* clearBrakeAndRun: from any state; a failed write leaves everything.
ClearBrakeAndRun ==
    /\ ChainFree
    /\ \E ok \in BOOLEAN :
         /\ Persist(Running, ok)
         /\ op' = IF ok THEN Running ELSE op
         /\ lease' = IF ok THEN Unpaused ELSE lease
         /\ answer' = IF ok THEN "none" ELSE answer
    /\ UNCHANGED <<workKind, brake>>

-----------------------------------------------------------------------------
(* emergencyBrake *)

\* Already braked: complete only if the brake was and nothing came back.
BrakeAgain ==
    /\ ChainFree
    /\ op.kind = "braked"
    /\ answer' = IF /\ op.completeness = "complete"
                    /\ Registered = {}
                    /\ persistOk
                 THEN "complete" ELSE "partial"
    /\ UNCHANGED <<op, file, persistOk, lease, workKind, brake>>

\* A brake whose write failed keeps admission closed and aborts nothing.
BrakeAgainDegraded ==
    /\ ChainFree
    /\ op.kind = "degraded" /\ op.fromBrake
    /\ answer' = "partial"
    /\ UNCHANGED <<op, file, persistOk, lease, workKind, brake>>

Brakeable == ChainFree /\ op.kind # "braked" /\ ~op.fromBrake

\* The intent to brake could not be written: nothing is aborted.
BrakeNotDurable ==
    /\ Brakeable
    /\ Persist(Braking, FALSE)
    /\ op' = DegradedByBrake
    /\ answer' = "partial"
    /\ UNCHANGED <<lease, workKind, brake>>

\* The intent is written and no lease is registered: the brake ends at once.
BrakeIdle ==
    /\ Brakeable
    /\ Registered = {}
    /\ \E ok \in BOOLEAN :
         /\ file' = IF ok THEN Braked("complete") ELSE Braking
         /\ persistOk' = ok
         /\ op' = IF ok THEN Braked("complete") ELSE DegradedByBrake
         /\ answer' = IF ok THEN "complete" ELSE "partial"
    /\ UNCHANGED <<lease, workKind, brake>>

\* Mutant of Stopped: a delivered abort is taken for a settled work.
StoppedAtOnce ==
    [w \in Works |->
       IF ~InRegistry(lease[w]) THEN lease[w]
       ELSE IF Abortable(w) THEN "gone" ELSE "detached"]

\* What the stop policy makes of each registered lease.
Stopped ==
    [w \in Works |->
       IF ~InRegistry(lease[w]) THEN lease[w]
       ELSE IF Abortable(w) THEN "cancelling" ELSE "detached"]

\* The intent is written, every lease is told to stop, the wait begins.
BrakeStop ==
    /\ Brakeable
    /\ Registered # {}
    /\ Persist(Braking, TRUE)
    /\ op' = Braking
    /\ lease' = Stopped
    /\ brake' = [active |-> TRUE,
                 waiting |-> {w \in Registered : Abortable(w)},
                 unconfirmed |-> \E w \in Registered : ~Abortable(w)]
    /\ UNCHANGED <<workKind, answer>>

\* waitForSettlement resolves: the work has settled.
WaitSettled(w) ==
    /\ w \in brake.waiting
    /\ lease[w] = "gone"
    /\ brake' = [brake EXCEPT !.waiting = @ \ {w}]
    /\ UNCHANGED <<op, file, persistOk, lease, workKind, answer>>

\* Mutant of WaitTimeout: the wait has no timer.
WaitUnbounded(w) == WaitSettled(w)

\* waitForSettlement gives up: the lease stays cancelling, unconfirmed.
WaitTimeout(w) ==
    /\ w \in brake.waiting
    /\ lease[w] = "cancelling"
    /\ brake' = [brake EXCEPT !.waiting = @ \ {w}, !.unconfirmed = TRUE]
    /\ UNCHANGED <<op, file, persistOk, lease, workKind, answer>>

\* Mutant of BrakeEnd: the answer does not ask whether the result was written.
BrakeEndUnwritten ==
    /\ brake.active
    /\ brake.waiting = {}
    /\ LET whole == IF ~brake.unconfirmed /\ Registered = {}
                    THEN "complete" ELSE "partial"
       IN /\ \E ok \in BOOLEAN : Persist(Braked(whole), ok)
          /\ op' = Braked(whole)
          /\ answer' = whole
    /\ brake' = NoBrake
    /\ UNCHANGED <<lease, workKind>>

\* Every wait is over: complete only if all is confirmed, gone and on disk.
BrakeEnd ==
    /\ brake.active
    /\ brake.waiting = {}
    /\ LET whole == IF ~brake.unconfirmed /\ Registered = {}
                    THEN "complete" ELSE "partial"
       IN \E ok \in BOOLEAN :
            /\ Persist(Braked(whole), ok)
            /\ op' = IF ok THEN Braked(whole) ELSE DegradedByBrake
            /\ answer' = IF ok THEN whole ELSE "partial"
    /\ brake' = NoBrake
    /\ UNCHANGED <<lease, workKind>>

EmergencyBrake ==
    \/ BrakeAgain
    \/ BrakeAgainDegraded
    \/ BrakeNotDurable
    \/ BrakeIdle
    \/ BrakeStop

\* The daemon dies and starts again: its leases die with it.
Restart ==
    /\ op' = Loaded(file)
    /\ persistOk' = (file # BadFile)
    /\ lease' = [w \in Works |-> IF lease[w] = "none" THEN "none" ELSE "gone"]
    /\ workKind' = [w \in Works |-> "none"]
    /\ brake' = NoBrake
    /\ answer' = IF Loaded(file).kind = "running" THEN "none" ELSE answer
    /\ UNCHANGED file

ECNext ==
    \/ \E w \in Works : Settle(w) \/ \E k \in WorkKinds : Acquire(w, k)
    \/ Pause
    \/ Resume
    \/ ClearBrakeAndRun
    \/ EmergencyBrake
    \/ \E w \in Works : WaitSettled(w) \/ WaitTimeout(w)
    \/ BrakeEnd
    \/ Restart

ECSpec == ECInit /\ [][ECNext]_ecVars

-----------------------------------------------------------------------------

\* A brake that answers complete has told the truth, and it stays true until
\* admission is opened again, across a restart too: the daemon is braked, the
\* file says so, and no admitted work is left (execution-control.ts:1285, and
\* the already_stopped answer at 898-902).
HonestBrake ==
    answer = "complete" =>
      /\ op = Braked("complete")
      /\ file = op
      /\ Registered = {}

\* Admission is open only where the file, read by a daemon that starts now,
\* would open it too: nobody can be told that a stop is over while a crash
\* would bring it back, and no brake that was written is forgotten
\* (execution-control.ts:802 and 847 persist before they open).
AdmissionIsDurable ==
    op.kind = "running" => file.kind \in {"running", "missing"}

=============================================================================
