--------------------------- MODULE SessionPlaneProofs ---------------------------
(***************************************************************************)
(* Proofs about ExecutionControl and about SessionPlane, for any works,    *)
(* sessions, kinds, retries and personas.                                  *)
(*                                                                         *)
(* The controller.  HonestBrake alone is not inductive: a second brake     *)
(* answers from the stored completeness.  CompleteIsWritten adds what      *)
(* makes that answer good: a brake held to be complete, whose last write   *)
(* succeeded, is the one in the file.  Leases are followed by kind: a      *)
(* session task in the registry can always be told to stop, so it never    *)
(* becomes detached, and the check of acquire, which looks at three        *)
(* states, sees every one.                                                 *)
(*                                                                         *)
(* The plane.  Every step of it is a step of the controller or leaves it   *)
(* alone, so what is proved of the controller holds of it.  The rest is    *)
(* one invariant in four parts: what the operational state says about      *)
(* leases (StopInv), what a chosen control operation has found (HoldInv),  *)
(* where a work of each lease state is (PlaceInv), and that the            *)
(* orchestrator of a task that was let in exists and is held when the      *)
(* lease of the task is (OrchInv).                                         *)
(*                                                                         *)
(* After a stop.  A lease that was told to stop has fired the abort signal *)
(* of the run, and only an escalation takes a fresh one.  WatchInv says    *)
(* how far that has gone: until admission is opened again the orchestrator *)
(* is cancelled, and until the escalation its signal has fired.  It rests  *)
(* on the few things a step may do to an orchestrator (OrchChange).        *)
(***************************************************************************)
EXTENDS StopHistory, TLAPS

-----------------------------------------------------------------------------
(* The controller *)

\* No braked state carries the mark of a brake that failed.
BrakedShape ==
    /\ op.kind = "braked" => ~op.fromBrake
    /\ file.kind = "braked" => ~file.fromBrake

CompleteIsWritten ==
    op.kind = "braked" /\ op.completeness = "complete" /\ persistOk =>
      op = Braked("complete") /\ file = op

BrakeInv == ControlTypeOK /\ BrakedShape /\ CompleteIsWritten /\ HonestBrake

IsTask(w) == workKind[w] = "session_task"

\* A work has a kind exactly while its lease is in the registry.
KindIsRegistered ==
    \A w \in Works : workKind[w] # "none" <=> InRegistry(lease[w])

TaskNotDetached == \A w \in Works : IsTask(w) => lease[w] # "detached"

OneLease ==
    \A v, w \in Works :
      v # w /\ IsTask(v) /\ IsTask(w) => SessionOf[v] # SessionOf[w]

LeaseInv == ControlTypeOK /\ KindIsRegistered /\ TaskNotDetached /\ OneLease

-----------------------------------------------------------------------------

LEMMA StatesAreStates ==
  /\ Running \in OpStates /\ Paused \in OpStates /\ Braking \in OpStates
  /\ Degraded \in OpStates /\ DegradedByBrake \in OpStates
  /\ NoFile \in OpStates /\ BadFile \in OpStates
  /\ \A x \in {"complete", "partial"} : Braked(x) \in OpStates
BY DEF OpStates, OpState, Running, Paused, Braking, Degraded, DegradedByBrake,
       NoFile, BadFile, Braked

LEMMA LoadedIsState == \A f \in OpStates : Loaded(f) \in OpStates
BY StatesAreStates DEF Loaded

\* What each operation may leave of the types.
LEMMA TypeInductive == ControlTypeOK /\ [ECNext]_ecVars => ControlTypeOK'
<1> SUFFICES ASSUME ControlTypeOK, [ECNext]_ecVars PROVE ControlTypeOK'
  OBVIOUS
<1> USE StatesAreStates
<1>1. ASSUME NEW w \in Works, Settle(w) PROVE ControlTypeOK'
  BY <1>1 DEF Settle, ControlTypeOK, LeaseStates
<1>2. ASSUME NEW w \in Works, NEW k \in WorkKinds, Acquire(w, k)
      PROVE  ControlTypeOK'
  BY <1>2 DEF Acquire, ControlTypeOK, LeaseStates
<1>3. CASE Pause
  BY <1>3 DEF Pause, Persist, ControlTypeOK, LeaseStates
<1>4. Unpaused \in [Works -> LeaseStates]
  BY DEF Unpaused, ControlTypeOK, LeaseStates
<1>5. CASE Resume
  BY <1>4, <1>5 DEF Resume, Persist, ControlTypeOK
<1>6. CASE ClearBrakeAndRun
  BY <1>4, <1>6 DEF ClearBrakeAndRun, Persist, ControlTypeOK
<1>7. CASE BrakeAgain
  BY <1>7 DEF BrakeAgain, ControlTypeOK
<1>8. CASE BrakeAgainDegraded
  BY <1>8 DEF BrakeAgainDegraded, ControlTypeOK
<1>9. CASE BrakeNotDurable
  BY <1>9 DEF BrakeNotDurable, Persist, ControlTypeOK
<1>10. CASE BrakeIdle
  BY <1>10 DEF BrakeIdle, ControlTypeOK
<1>11. CASE BrakeStop
  <2>1. Stopped \in [Works -> LeaseStates]
    BY DEF Stopped, ControlTypeOK, LeaseStates
  <2>2. brake' \in [active : BOOLEAN, waiting : SUBSET Works,
                    unconfirmed : BOOLEAN]
    BY <1>11 DEF BrakeStop, Registered
  <2> QED BY <1>11, <2>1, <2>2 DEF BrakeStop, Persist, ControlTypeOK
<1>12. ASSUME NEW w \in Works, WaitSettled(w) \/ WaitTimeout(w)
       PROVE  ControlTypeOK'
  <2>1. brake \in [active : BOOLEAN, waiting : SUBSET Works,
                   unconfirmed : BOOLEAN]
    BY DEF ControlTypeOK
  <2>2. brake' \in [active : BOOLEAN, waiting : SUBSET Works,
                    unconfirmed : BOOLEAN]
    <3>1. CASE WaitSettled(w)
      BY <2>1, <3>1 DEF WaitSettled
    <3>2. CASE WaitTimeout(w)
      BY <2>1, <3>2 DEF WaitTimeout
    <3> QED BY <1>12, <3>1, <3>2
  <2>3. UNCHANGED <<op, file, persistOk, lease, workKind, answer>>
    BY <1>12 DEF WaitSettled, WaitTimeout
  <2> QED BY <2>2, <2>3 DEF ControlTypeOK
<1>13. CASE BrakeEnd
  <2>1. /\ op' \in OpStates /\ file' \in OpStates
        /\ persistOk' \in BOOLEAN
        /\ answer' \in {"none", "complete", "partial"}
    BY <1>13 DEF BrakeEnd, Persist, ControlTypeOK
  <2>2. UNCHANGED <<lease, workKind>> /\ brake' = NoBrake
    BY <1>13 DEF BrakeEnd
  <2> QED BY <2>1, <2>2 DEF ControlTypeOK, NoBrake
<1>14. CASE Restart
  <2>1. lease' \in [Works -> LeaseStates]
    BY <1>14 DEF Restart, ControlTypeOK, LeaseStates
  <2>2. op' \in OpStates
    BY <1>14, LoadedIsState DEF Restart, ControlTypeOK
  <2> QED BY <1>14, <2>1, <2>2 DEF Restart, ControlTypeOK, NoBrake
<1>15. CASE UNCHANGED ecVars
  BY <1>15 DEF ecVars, ControlTypeOK
<1> QED BY <1>1, <1>2, <1>3, <1>5, <1>6, <1>7, <1>8, <1>9, <1>10, <1>11, <1>12,
           <1>13, <1>14, <1>15 DEF ECNext, EmergencyBrake

LEMMA TypeInitially == ECInit => ControlTypeOK
BY StatesAreStates, LoadedIsState
   DEF ECInit, ControlTypeOK, LeaseStates, NoBrake

-----------------------------------------------------------------------------
(* The brake's answer *)

\* Steps that leave op, file, persistOk and answer, and register nothing new.
LEMMA BrakeInvQuiet ==
  ASSUME BrakeInv, ControlTypeOK',
         UNCHANGED <<op, file, persistOk, answer>>,
         Registered' \subseteq Registered
  PROVE  BrakeInv'
BY DEF BrakeInv, BrakedShape, CompleteIsWritten, HonestBrake, Braked, OpState

LEMMA BrakeInvInductive == BrakeInv /\ [ECNext]_ecVars => BrakeInv'
<1> SUFFICES ASSUME BrakeInv, [ECNext]_ecVars PROVE BrakeInv'
  OBVIOUS
<1>t. ControlTypeOK /\ ControlTypeOK'
  BY TypeInductive DEF BrakeInv
<1> USE DEF Running, Paused, Braking, Degraded, DegradedByBrake, Braked, OpState
<1>1. ASSUME NEW w \in Works, Settle(w) PROVE BrakeInv'
  <2>1. Registered' \subseteq Registered
    BY <1>1, <1>t DEF Settle, Registered, InRegistry, ControlTypeOK
  <2> QED BY <1>1, <1>t, <2>1, BrakeInvQuiet DEF Settle
<1>2. ASSUME NEW w \in Works, NEW k \in WorkKinds, Acquire(w, k)
      PROVE  BrakeInv'
  BY <1>2, <1>t DEF Acquire, AdmissionOpen, BrakeInv, BrakedShape,
                    CompleteIsWritten, HonestBrake
<1>3. CASE Pause
  BY <1>3, <1>t DEF Pause, Persist, BrakeInv, BrakedShape, CompleteIsWritten,
                    HonestBrake
<1>4. Registered = {w \in Works : InRegistry(Unpaused[w])}
  BY DEF Registered, Unpaused, InRegistry
<1>5. CASE Resume
  BY <1>5, <1>t DEF Resume, Persist, BrakeInv, BrakedShape, CompleteIsWritten,
                    HonestBrake
<1>6. CASE ClearBrakeAndRun
  BY <1>6, <1>t DEF ClearBrakeAndRun, Persist, BrakeInv, BrakedShape,
                    CompleteIsWritten, HonestBrake, Registered, InRegistry
<1>7. CASE BrakeAgain
  BY <1>7, <1>t DEF BrakeAgain, BrakeInv, BrakedShape, CompleteIsWritten,
                    HonestBrake, Registered
<1>8. CASE BrakeAgainDegraded
  BY <1>8, <1>t DEF BrakeAgainDegraded, BrakeInv, BrakedShape,
                    CompleteIsWritten, HonestBrake
<1>9. CASE BrakeNotDurable
  BY <1>9, <1>t DEF BrakeNotDurable, Persist, BrakeInv, BrakedShape,
                    CompleteIsWritten, HonestBrake
<1>10. CASE BrakeIdle
  BY <1>10, <1>t DEF BrakeIdle, BrakeInv, BrakedShape, CompleteIsWritten,
                     HonestBrake, Registered
<1>11. CASE BrakeStop
  BY <1>11, <1>t DEF BrakeStop, Brakeable, Persist, BrakeInv, BrakedShape,
                     CompleteIsWritten, HonestBrake
<1>12. ASSUME NEW w \in Works, WaitSettled(w) \/ WaitTimeout(w)
       PROVE  BrakeInv'
  <2>1. Registered' \subseteq Registered
    BY <1>12 DEF WaitSettled, WaitTimeout, Registered
  <2> QED BY <1>12, <1>t, <2>1, BrakeInvQuiet DEF WaitSettled, WaitTimeout
<1>13. CASE BrakeEnd
  <2> DEFINE whole == IF ~brake.unconfirmed /\ Registered = {}
                      THEN "complete" ELSE "partial"
  <2>1. PICK ok \in BOOLEAN :
          /\ Persist(Braked(whole), ok)
          /\ op' = IF ok THEN Braked(whole) ELSE DegradedByBrake
          /\ answer' = IF ok THEN whole ELSE "partial"
    BY <1>13 DEF BrakeEnd
  <2>2. Registered' = Registered
    BY <1>13 DEF BrakeEnd, Registered
  <2>3. whole = "complete" => Registered = {}
    OBVIOUS
  <2>4. whole \in {"complete", "partial"}
    OBVIOUS
  <2> HIDE DEF whole
  <2>5. CASE ok
    BY <2>1, <2>2, <2>3, <2>4, <2>5, <1>t
       DEF Persist, BrakeInv, BrakedShape, CompleteIsWritten, HonestBrake
  <2>6. CASE ~ok
    BY <2>1, <2>6, <1>t
       DEF Persist, BrakeInv, BrakedShape, CompleteIsWritten, HonestBrake
  <2> QED BY <2>5, <2>6
<1>14. CASE Restart
  <2>1. Registered' = {}
    BY <1>14, <1>t DEF Restart, Registered, InRegistry, ControlTypeOK
  <2>2. op' = Loaded(file) /\ file' = file
    BY <1>14 DEF Restart
  <2>3. file.kind = "braked" => Loaded(file) = file
    BY DEF Loaded
  <2>4. BrakedShape'
    BY <2>2, <2>3, <1>t DEF BrakeInv, BrakedShape, Loaded
  <2>5. file \in OpStates
    BY <1>t DEF ControlTypeOK
  <2>6. Loaded(file).kind = "braked" /\ Loaded(file).completeness = "complete"
          => file = Braked("complete") /\ Loaded(file) = file
    BY <2>5 DEF Loaded, BrakeInv, BrakedShape, OpStates
  <2>7. CompleteIsWritten'
    BY <2>2, <2>6 DEF CompleteIsWritten
  <2>8. HonestBrake'
    BY <1>14, <2>1, <2>2, <2>3
       DEF Restart, BrakeInv, HonestBrake
  <2> QED BY <1>t, <2>4, <2>7, <2>8 DEF BrakeInv
<1>15. CASE UNCHANGED ecVars
  BY <1>15, <1>t DEF ecVars, BrakeInv, BrakedShape, CompleteIsWritten,
                     HonestBrake, Registered
<1> QED BY <1>1, <1>2, <1>3, <1>5, <1>6, <1>7, <1>8, <1>9, <1>10, <1>11, <1>12,
           <1>13, <1>14, <1>15 DEF ECNext, EmergencyBrake

LEMMA BrakeInvInitially == ECInit => BrakeInv
BY TypeInitially DEF ECInit, BrakeInv, BrakedShape, CompleteIsWritten,
                     HonestBrake, Loaded, NoFile, BadFile, Running, Degraded,
                     OpState

-----------------------------------------------------------------------------
(* Admission *)

LEMMA DurableInductive ==
  AdmissionIsDurable /\ [ECNext]_ecVars => AdmissionIsDurable'
<1> SUFFICES ASSUME AdmissionIsDurable, [ECNext]_ecVars
             PROVE  AdmissionIsDurable'
  OBVIOUS
<1> USE DEF Running, Paused, Braking, Degraded, DegradedByBrake, Braked, OpState
<1>1. CASE op' = op /\ file' = file
  BY <1>1 DEF AdmissionIsDurable
<1>2. CASE Pause \/ Resume \/ ClearBrakeAndRun
  BY <1>2 DEF Pause, Resume, ClearBrakeAndRun, Persist, AdmissionIsDurable
<1>3. CASE BrakeNotDurable \/ BrakeIdle \/ BrakeStop \/ BrakeEnd
  <2>1. BrakeNotDurable \/ BrakeStop => op'.kind # "running"
    BY DEF BrakeNotDurable, BrakeStop, Persist
  <2>2. BrakeIdle => op'.kind # "running"
    BY DEF BrakeIdle
  <2>3. BrakeEnd => op'.kind # "running"
    BY DEF BrakeEnd
  <2> QED BY <1>3, <2>1, <2>2, <2>3 DEF AdmissionIsDurable
<1>4. CASE Restart
  BY <1>4 DEF Restart, Loaded, AdmissionIsDurable
<1>5. ASSUME NEW w \in Works
      PROVE  /\ Settle(w) \/ WaitSettled(w) \/ WaitTimeout(w) =>
                  op' = op /\ file' = file
             /\ \A k \in WorkKinds : Acquire(w, k) => op' = op /\ file' = file
  BY DEF Settle, WaitSettled, WaitTimeout, Acquire
<1>6. BrakeAgain \/ BrakeAgainDegraded \/ UNCHANGED ecVars =>
        op' = op /\ file' = file
  BY DEF BrakeAgain, BrakeAgainDegraded, ecVars
<1> QED BY <1>1, <1>2, <1>3, <1>4, <1>5, <1>6 DEF ECNext, EmergencyBrake

LEMMA DurableInitially == ECInit => AdmissionIsDurable
BY DEF ECInit, AdmissionIsDurable, Loaded, NoFile, BadFile, Degraded, OpState

-----------------------------------------------------------------------------
(* Leases *)

\* Steps that move a lease within the registry, and none to detached that is
\* a session task's.
LEMMA LeaseInvQuiet ==
  ASSUME LeaseInv, ControlTypeOK', workKind' = workKind,
         \A w \in Works : /\ InRegistry(lease'[w]) <=> InRegistry(lease[w])
                          /\ IsTask(w) => lease'[w] # "detached"
  PROVE  LeaseInv'
<1>1. KindIsRegistered'
  BY DEF LeaseInv, KindIsRegistered, InRegistry
<1>2. TaskNotDetached'
  BY DEF TaskNotDetached, IsTask, InRegistry
<1>3. OneLease'
  BY DEF LeaseInv, OneLease, IsTask
<1> QED BY <1>1, <1>2, <1>3 DEF LeaseInv

LEMMA LeaseInvInductive == LeaseInv /\ [ECNext]_ecVars => LeaseInv'
<1> SUFFICES ASSUME LeaseInv, [ECNext]_ecVars PROVE LeaseInv'
  OBVIOUS
<1>t. ControlTypeOK /\ ControlTypeOK'
  BY TypeInductive DEF LeaseInv
<1>1. ASSUME NEW w \in Works, Settle(w) PROVE LeaseInv'
  <2>1. /\ lease'[w] = "gone" /\ workKind'[w] = "none"
        /\ \A v \in Works : v # w => /\ lease'[v] = lease[v]
                                     /\ workKind'[v] = workKind[v]
    BY <1>1, <1>t DEF Settle, ControlTypeOK
  <2>2. KindIsRegistered'
    BY <2>1 DEF LeaseInv, KindIsRegistered, InRegistry
  <2>3. TaskNotDetached'
    BY <2>1 DEF LeaseInv, TaskNotDetached, IsTask
  <2>4. OneLease'
    BY <2>1 DEF LeaseInv, OneLease, IsTask
  <2> QED BY <1>t, <2>2, <2>3, <2>4 DEF LeaseInv
<1>2. ASSUME NEW w \in Works, NEW k \in WorkKinds, Acquire(w, k)
      PROVE  LeaseInv'
  <2>1. /\ lease'[w] = "running" /\ workKind'[w] = k /\ k # "none"
        /\ lease[w] = "none"
        /\ \A v \in Works : v # w => /\ lease'[v] = lease[v]
                                     /\ workKind'[v] = workKind[v]
    BY <1>2, <1>t DEF Acquire, ControlTypeOK, WorkKinds
  <2>2. KindIsRegistered'
    BY <2>1 DEF LeaseInv, KindIsRegistered, InRegistry
  <2>3. TaskNotDetached'
    BY <2>1 DEF LeaseInv, TaskNotDetached, IsTask
  <2>4. ASSUME NEW v \in Works, v # w, IsTask(v), k = "session_task"
        PROVE  SessionOf[v] # SessionOf[w]
    <3>1. InRegistry(lease[v])
      BY <2>4 DEF LeaseInv, KindIsRegistered, IsTask
    <3>2. lease[v] \in {"running", "paused", "cancelling"}
      BY <3>1, <2>4, <1>t
         DEF LeaseInv, TaskNotDetached, ControlTypeOK, LeaseStates, InRegistry
    <3> QED BY <3>2, <2>4, <1>2 DEF Acquire, IsTask
  <2>5. OneLease'
    BY <2>1, <2>4 DEF LeaseInv, OneLease, IsTask
  <2> QED BY <1>t, <2>2, <2>3, <2>5 DEF LeaseInv
<1>3. \A w \in Works : /\ InRegistry(Unpaused[w]) <=> InRegistry(lease[w])
                       /\ IsTask(w) => Unpaused[w] # "detached"
  BY DEF Unpaused, InRegistry, LeaseInv, TaskNotDetached
<1>4. CASE UNCHANGED <<lease, workKind>>
  BY <1>4, <1>t, LeaseInvQuiet DEF LeaseInv, TaskNotDetached
<1>5. CASE Pause
  <2>1. workKind' = workKind
    BY <1>5 DEF Pause
  <2>2. \A w \in Works : /\ InRegistry(lease'[w]) <=> InRegistry(lease[w])
                         /\ IsTask(w) => lease'[w] # "detached"
    BY <1>5 DEF Pause, InRegistry, LeaseInv, TaskNotDetached
  <2> QED BY <2>1, <2>2, <1>t, LeaseInvQuiet
<1>6. CASE Resume \/ ClearBrakeAndRun
  <2>1. workKind' = workKind /\ lease' \in {Unpaused, lease}
    BY <1>6 DEF Resume, ClearBrakeAndRun
  <2>2. \A w \in Works : /\ InRegistry(lease'[w]) <=> InRegistry(lease[w])
                         /\ IsTask(w) => lease'[w] # "detached"
    BY <2>1, <1>3 DEF LeaseInv, TaskNotDetached
  <2> QED BY <2>1, <2>2, <1>t, LeaseInvQuiet
<1>7. CASE BrakeStop
  <2>1. workKind' = workKind /\ lease' = Stopped
    BY <1>7 DEF BrakeStop
  <2>2. \A w \in Works : IsTask(w) => Abortable(w)
    BY DEF IsTask, Abortable
  <2>3. \A w \in Works : /\ InRegistry(Stopped[w]) <=> InRegistry(lease[w])
                         /\ IsTask(w) => Stopped[w] # "detached"
    BY <2>2 DEF Stopped, InRegistry, LeaseInv, TaskNotDetached
  <2> QED BY <2>1, <2>3, <1>t, LeaseInvQuiet
<1>8. CASE Restart
  <2>1. \A w \in Works : /\ lease'[w] \in {"none", "gone"}
                         /\ workKind'[w] = "none"
    BY <1>8 DEF Restart
  <2> QED BY <2>1, <1>t DEF LeaseInv, KindIsRegistered, TaskNotDetached,
                            OneLease, IsTask, InRegistry
<1>9. /\ BrakeAgain \/ BrakeAgainDegraded \/ BrakeNotDurable \/ BrakeIdle
           \/ BrakeEnd \/ UNCHANGED ecVars => UNCHANGED <<lease, workKind>>
      /\ \A w \in Works : WaitSettled(w) \/ WaitTimeout(w) =>
                              UNCHANGED <<lease, workKind>>
  BY DEF BrakeAgain, BrakeAgainDegraded, BrakeNotDurable, BrakeIdle, BrakeEnd,
         WaitSettled, WaitTimeout, ecVars
<1> QED BY <1>1, <1>2, <1>4, <1>5, <1>6, <1>7, <1>8, <1>9
        DEF ECNext, EmergencyBrake

LEMMA LeaseInvInitially == ECInit => LeaseInv
BY TypeInitially DEF ECInit, LeaseInv, KindIsRegistered, TaskNotDetached,
                     OneLease, IsTask, InRegistry

-----------------------------------------------------------------------------

\* The controller keeps its shape, across every brake and restart
\* (execution-control.ts:537-1400).
THEOREM ControlIsTyped == ECSpec => []ControlTypeOK
<1> QED BY TypeInitially, TypeInductive, PTL DEF ECSpec

\* A brake that answered complete stays true until admission is opened
\* (execution-control.ts:888-1309).
THEOREM BrakeIsHonest == ECSpec => []HonestBrake
<1>1. BrakeInv => HonestBrake
  BY DEF BrakeInv
<1> QED BY BrakeInvInitially, BrakeInvInductive, <1>1, PTL DEF ECSpec

\* A crash never reopens what an answer had closed, nor closes what it had
\* opened (execution-control.ts:775-886, 1359-1400).
THEOREM AdmissionSurvivesCrash == ECSpec => []AdmissionIsDurable
<1> QED BY DurableInitially, DurableInductive, PTL DEF ECSpec

\* Two works in the registry are never tasks of one session
\* (execution-control.ts:655-672).
THEOREM LeasesExclude == ECSpec => []OneLease
<1>1. LeaseInv => OneLease
  BY DEF LeaseInv
<1> QED BY LeaseInvInitially, LeaseInvInductive, <1>1, PTL DEF ECSpec

-----------------------------------------------------------------------------
(* The plane *)

\* The attempts of the whole escalation chain.
AllAttempts == MaxRetries * Personas

OrchStates == [present : BOOLEAN, cancelled : BOOLEAN, paused : BOOLEAN,
               signalled : BOOLEAN]

\* The types of what the controller does not know.
PlaneVarsOK ==
    /\ orch \in [Sessions -> OrchStates]
    /\ status \in [Sessions -> {"active", "paused"} \cup Terminal]
    /\ task \in [Works -> {"idle", "refused", "logging", "loading", "ended"}
                            \cup InTaskMap]
    /\ attempt \in [Works -> Nat]
    /\ result \in [Works -> {"none", "SUCCESS", "NEEDS_HUMAN", "CANCELLED"}]
    /\ mode \in {"none", "pause", "resume", "clear"}
    /\ cleanup \in [Sessions -> {"idle", "queued"}]

\* What the operational state says about leases.
StopInv ==
    /\ op.kind \in {"running", "paused", "braking", "braked", "degraded"}
    /\ brake.active => op.kind = "braking"
    /\ op.kind \in {"braking", "braked"} =>
         \A w \in Works : lease[w] \notin {"running", "paused"}
    /\ op.kind = "running" => \A w \in Works : lease[w] # "paused"
    /\ \A w \in Works : lease[w] = "detached" => ~CooperativePause(w)

\* What setMode has found when it chose an operation, and what held work is.
HoldInv ==
    /\ mode \in {"resume", "clear"} => op.kind # "running"
    /\ op.kind = "paused" \/ mode = "resume" =>
         \A w \in Works : CooperativePause(w) => lease[w] # "running"

\* Places only the code of a session task has.
TaskPlaces == {"refused", "logging", "loading", "looping", "recording",
               "failing"}

\* Places before the first attempt, and those inside one.
Early == {"idle", "refused", "logging", "loading"}
Trying == {"looping", "gating", "calling"}

PlaceInv ==
    \A w \in Works :
      /\ task[w] = "idle" <=> lease[w] = "none"
      /\ task[w] = "ended" <=> lease[w] = "gone"
      /\ task[w] \in TaskPlaces => IsTask(w)
      /\ attempt[w] <= AllAttempts
      /\ task[w] \in Early => attempt[w] = 0
      /\ IsTask(w) /\ task[w] \in Trying => attempt[w] < AllAttempts

\* A task that was let in, until it ends.
LetIn(w) == IsTask(w) /\ task[w] \notin {"idle", "refused", "ended"}

OrchInv ==
    /\ \A s \in Sessions : status[s] \in Terminal => ~orch[s].present
    /\ \A w \in Works : LetIn(w) =>
         LET o == orch[SessionOf[w]] IN
         /\ o.present
         /\ lease[w] = "paused" => o.paused

PlaneInv ==
    /\ ControlTypeOK /\ PlaneVarsOK /\ LeaseInv
    /\ StopInv /\ HoldInv /\ PlaceInv /\ OrchInv

-----------------------------------------------------------------------------
(* Steps *)

LEMMA ChainIsLong == AllAttempts \in Nat /\ AllAttempts > 0
BY PlaneAssumption, SMT DEF AllAttempts

\* Every step of the plane is one of the controller, or leaves it alone.
LEMMA StepIsControl == [Next]_vars => [ECNext]_ecVars
<1> SUFFICES ASSUME [Next]_vars PROVE [ECNext]_ecVars
  OBVIOUS
<1>1. ASSUME NEW w \in Works,
             SendInput(w) \/ Delegate(w) \/ TaskStep(w) \/ CallReturns(w)
      PROVE  [ECNext]_ecVars
  <2>1. CASE SendInput(w) \/ Delegate(w)
    <3>1. PICK k \in WorkKinds : Acquire(w, k)
      BY <2>1 DEF SendInput, Delegate, WorkKinds
    <3> QED BY <3>1 DEF ECNext
  <2>2. CASE SendRefused(w) \/ LogInput(w) \/ StartLoop(w)
    BY <2>2 DEF SendRefused, LogInput, StartLoop, GiveUp, Ends, ECNext
  <2>3. CASE LoopHead(w)
    BY <2>3 DEF LoopHead, Returns, GoTo, Retry
  <2>4. CASE Gate(w) \/ DelegateGate(w)
    BY <2>4 DEF Gate, DelegateGate, Returns, GoTo, GiveUp, Ends, ECNext
  <2>5. CASE Record(w) \/ RecordFailure(w)
    BY <2>5 DEF Record, RecordFailure, GoTo, Ends, ECNext
  <2>6. CASE Return(w)
    BY <2>6 DEF Return, GoTo, Returns, Retry
  <2>7. CASE DelegateReturn(w)
    BY <2>7 DEF DelegateReturn, GoTo, GiveUp, Ends, ECNext
  <2> QED BY <1>1, <2>1, <2>2, <2>3, <2>4, <2>5, <2>6, <2>7
          DEF TaskStep, CallReturns
<1>2. CASE ModePause \/ ModeRun
  BY <1>2 DEF ModePause, ModeRun, ECNext
<1>3. CASE BrakeAll
  BY <1>3 DEF BrakeAll, ECNext, EmergencyBrake
<1>4. CASE BrakeOver \/ RestartDaemon
  BY <1>4 DEF BrakeOver, RestartDaemon, ECNext
<1>5. ASSUME NEW w \in Works, BrakeWait(w) PROVE [ECNext]_ecVars
  BY <1>5 DEF BrakeWait, ECNext
<1>6. ASSUME NEW r \in {"pause", "running"}, SetMode(r)
      PROVE  [ECNext]_ecVars
  BY <1>6 DEF SetMode
<1>7. ASSUME NEW s \in Sessions,
             \/ CleanupSession(s) \/ AttachSession(s)
             \/ InterruptSession(s) \/ ResumeSession(s)
      PROVE  [ECNext]_ecVars
  BY <1>7 DEF CleanupSession, AttachSession, InterruptSession, ResumeSession
<1>8. CASE UNCHANGED vars
  BY <1>8 DEF vars
<1> QED BY <1>1, <1>2, <1>3, <1>4, <1>5, <1>6, <1>7, <1>8 DEF Next

-----------------------------------------------------------------------------
(* Types *)

LEMMA OrchTyped ==
    /\ NoOrchestrator \in OrchStates
    /\ \A open \in BOOLEAN : NewOrchestrator(open) \in OrchStates
    /\ \A o \in OrchStates :
         /\ PausedOrch(o) \in OrchStates
         /\ ResumedOrch(o) \in OrchStates
         /\ CancelledOrch(o) \in OrchStates
         /\ \A b \in BOOLEAN : [o EXCEPT !.signalled = b] \in OrchStates
BY DEF OrchStates, NoOrchestrator, NewOrchestrator, PausedOrch, ResumedOrch,
       CancelledOrch

LEMMA VarsInductive == PlaneVarsOK /\ [Next]_vars => PlaneVarsOK'
<1> SUFFICES ASSUME PlaneVarsOK, [Next]_vars PROVE PlaneVarsOK'
  OBVIOUS
<1> USE DEF PlaneVarsOK, Terminal, InTaskMap
<1>1. ASSUME NEW w \in Works, SendInput(w) \/ Delegate(w) PROVE PlaneVarsOK'
  BY <1>1 DEF SendInput, Delegate
<1>2. ASSUME NEW w \in Works, GiveUp(w) PROVE PlaneVarsOK'
  BY <1>2 DEF GiveUp, Ends
<1>3. ASSUME NEW w \in Works, NEW p \in {"loading", "gating", "calling", "failing"},
             GoTo(w, p)
      PROVE  PlaneVarsOK'
  BY <1>3 DEF GoTo
<1>4. ASSUME NEW w \in Works, NEW r \in {"SUCCESS", "CANCELLED"}, Returns(w, r)
      PROVE  PlaneVarsOK'
  BY <1>4 DEF Returns
<1>5. ASSUME NEW w \in Works, EnterLoop(w)
      PROVE  /\ orch' \in [Sessions -> OrchStates]
             /\ task' \in [Works -> {"idle", "refused", "logging", "loading",
                                     "ended"} \cup InTaskMap]
             /\ result' \in [Works -> {"none", "SUCCESS", "NEEDS_HUMAN",
                                       "CANCELLED"}]
  <2>1. orch[SessionOf[w]].cancelled \in BOOLEAN
    BY PlaneAssumption DEF OrchStates
  <2>2. orch' \in [Sessions -> OrchStates]
    BY <1>5, <2>1, OrchTyped, PlaneAssumption DEF EnterLoop
  <2> QED BY <1>5, <2>2 DEF EnterLoop
<1>6. ASSUME NEW w \in Works, Retry(w) PROVE PlaneVarsOK'
  <2>1. attempt' \in [Works -> Nat] /\ UNCHANGED <<status, mode, cleanup>>
    BY <1>6 DEF Retry
  <2>2. CASE EnterLoop(w)
    BY <2>1, <2>2, <1>5
  <2>3. CASE ~EnterLoop(w)
    <3>1. /\ UNCHANGED orch
          /\ task' \in [Works -> {"idle", "refused", "logging", "loading",
                                  "ended"} \cup InTaskMap]
          /\ result' \in [Works -> {"none", "SUCCESS", "NEEDS_HUMAN",
                                    "CANCELLED"}]
      BY <1>6, <2>3 DEF Retry
    <3> QED BY <2>1, <3>1
  <2> QED BY <2>2, <2>3
<1>7. ASSUME NEW w \in Works, TaskStep(w) \/ CallReturns(w) PROVE PlaneVarsOK'
  <2>1. CASE SendRefused(w)
    BY <2>1, <1>2 DEF SendRefused
  <2>2. CASE LogInput(w)
    BY <2>2, <1>2 DEF LogInput
  <2>3. CASE StartLoop(w)
    BY <2>3, <1>2, <1>5 DEF StartLoop
  <2>4. CASE LoopHead(w)
    BY <2>4, <1>3, <1>4, <1>6 DEF LoopHead
  <2>5. CASE Gate(w) \/ DelegateGate(w)
    BY <2>5, <1>2, <1>3, <1>4 DEF Gate, DelegateGate
  <2>6. CASE Record(w)
    <3>1. CASE GoTo(w, "failing")
      BY <3>1, <1>3
    <3>2. CASE Ends(w) /\ ~GoTo(w, "failing")
      <4>1. /\ status' = [status EXCEPT ![SessionOf[w]] = StatusOf(result[w])]
            /\ orch' = [orch EXCEPT ![SessionOf[w]] =
                           IF StatusOf(result[w]) \in Terminal
                           THEN NoOrchestrator ELSE @]
        BY <2>6, <3>2 DEF Record
      <4>2. status' \in [Sessions -> {"active", "paused"} \cup Terminal]
        BY <4>1 DEF StatusOf
      <4>3. orch' \in [Sessions -> OrchStates]
        BY <4>1, OrchTyped
      <4> QED BY <3>2, <4>2, <4>3 DEF Ends
    <3> QED BY <2>6, <3>1, <3>2 DEF Record
  <2>7. CASE RecordFailure(w)
    BY <2>7, OrchTyped DEF RecordFailure, Ends
  <2>8. CASE CallReturns(w)
    BY <2>8, <1>2, <1>3, <1>4, <1>6 DEF CallReturns, Return, DelegateReturn
  <2> QED BY <1>7, <2>1, <2>2, <2>3, <2>4, <2>5, <2>6, <2>7, <2>8 DEF TaskStep
<1>8. ASSUME NEW r \in {"pause", "running"}, SetMode(r) PROVE PlaneVarsOK'
  BY <1>8 DEF SetMode
<1>9. CASE ModePause
  BY <1>9, OrchTyped DEF ModePause, AllPaused
<1>10. CASE ModeRun
  BY <1>10, OrchTyped DEF ModeRun, AllResumed
<1>11. CASE BrakeAll
  <2>1. CASE UNCHANGED cleanup
    <3>1. orch' \in [Sessions -> OrchStates]
      BY <1>11, OrchTyped DEF BrakeAll, CancelledByLeases
    <3> QED BY <1>11, <2>1, <3>1 DEF BrakeAll
  <2>2. CASE QueueCleanup /\ UNCHANGED orch
    BY <1>11, <2>2 DEF BrakeAll, QueueCleanup
  <2> QED BY <1>11, <2>1, <2>2 DEF BrakeAll
<1>12. ASSUME NEW w \in Works, BrakeWait(w) PROVE PlaneVarsOK'
  BY <1>12 DEF BrakeWait, spVars
<1>13. CASE BrakeOver
  BY <1>13 DEF BrakeOver, QueueCleanup
<1>14. ASSUME NEW s \in Sessions,
              \/ CleanupSession(s) \/ AttachSession(s)
              \/ InterruptSession(s) \/ ResumeSession(s)
       PROVE  PlaneVarsOK'
  <2>1. CASE CleanupSession(s)
    <3>1. orch' \in [Sessions -> OrchStates]
      BY <2>1, OrchTyped DEF CleanupSession
    <3> QED BY <2>1, <3>1 DEF CleanupSession
  <2>2. CASE AttachSession(s)
    BY <2>2, OrchTyped DEF AttachSession, AdmissionOpen
  <2>3. CASE InterruptSession(s)
    BY <2>3, OrchTyped DEF InterruptSession
  <2>4. CASE ResumeSession(s)
    BY <2>4, OrchTyped DEF ResumeSession
  <2> QED BY <1>14, <2>1, <2>2, <2>3, <2>4
<1>15. CASE RestartDaemon
  BY <1>15, OrchTyped DEF RestartDaemon
<1>16. CASE UNCHANGED vars
  BY <1>16 DEF vars, spVars
<1> QED BY <1>1, <1>7, <1>8, <1>9, <1>10, <1>11, <1>12, <1>13, <1>14, <1>15,
           <1>16 DEF Next

-----------------------------------------------------------------------------
(* What the operational state says about leases *)

LEMMA StopInductive ==
  ControlTypeOK /\ StopInv /\ [ECNext]_ecVars => StopInv'
<1> SUFFICES ASSUME ControlTypeOK, StopInv, [ECNext]_ecVars PROVE StopInv'
  OBVIOUS
<1> USE DEF StopInv
<1>t. lease \in [Works -> LeaseStates] /\ ControlTypeOK'
  BY TypeInductive DEF ControlTypeOK
<1>1. ASSUME NEW w \in Works, Settle(w) PROVE StopInv'
  <2>1. /\ lease'[w] = "gone"
        /\ \A v \in Works : v # w => /\ lease'[v] = lease[v]
                                     /\ workKind'[v] = workKind[v]
        /\ UNCHANGED <<op, brake>>
    BY <1>1, <1>t DEF Settle, ControlTypeOK
  <2> QED BY <2>1 DEF CooperativePause
<1>2. ASSUME NEW w \in Works, NEW k \in WorkKinds, Acquire(w, k) PROVE StopInv'
  <2>1. /\ lease'[w] = "running" /\ op.kind = "running"
        /\ \A v \in Works : v # w => /\ lease'[v] = lease[v]
                                     /\ workKind'[v] = workKind[v]
        /\ UNCHANGED <<op, brake>>
    BY <1>2, <1>t DEF Acquire, AdmissionOpen, ControlTypeOK
  <2> QED BY <2>1 DEF CooperativePause
<1>3. CASE Pause
  <2>1. /\ op'.kind \in {"paused", "degraded"} /\ UNCHANGED <<workKind, brake>>
        /\ \A w \in Works : lease'[w] = "detached" => lease[w] = "detached"
        /\ ~brake.active
    BY <1>3 DEF Pause, Persist, Paused, Degraded, OpState, ChainFree
  <2> QED BY <2>1 DEF CooperativePause
<1>4. CASE Resume \/ ClearBrakeAndRun
  <2>1. UNCHANGED <<workKind, brake>> /\ ~brake.active
    BY <1>4 DEF Resume, ClearBrakeAndRun, ChainFree
  <2>2. \/ op'.kind = "running" /\ lease' = Unpaused
        \/ op'.kind = "paused" /\ lease' = lease
        \/ op' = op /\ lease' = lease
    BY <1>4 DEF Resume, ClearBrakeAndRun, Running, Paused, OpState
  <2>3. \A w \in Works : /\ Unpaused[w] # "paused"
                         /\ Unpaused[w] = "detached" => lease[w] = "detached"
    BY DEF Unpaused
  <2> QED BY <2>1, <2>2, <2>3 DEF CooperativePause
<1>5. CASE BrakeAgain \/ BrakeAgainDegraded \/ UNCHANGED ecVars
  BY <1>5 DEF BrakeAgain, BrakeAgainDegraded, ecVars, CooperativePause
<1>6. CASE BrakeNotDurable
  BY <1>6 DEF BrakeNotDurable, Brakeable, ChainFree, DegradedByBrake, OpState,
              CooperativePause
<1>7. CASE BrakeIdle
  <2>1. \A w \in Works : lease[w] \in {"none", "gone"}
    BY <1>7 DEF BrakeIdle, Registered, InRegistry
  <2>2. UNCHANGED <<lease, brake>> /\ op'.kind \in {"braked", "degraded"}
    BY <1>7 DEF BrakeIdle, Braked, DegradedByBrake, OpState
  <2>3. ~brake.active
    BY <1>7 DEF BrakeIdle, Brakeable, ChainFree
  <2> QED BY <2>1, <2>2, <2>3
<1>8. CASE BrakeStop
  <2>1. op'.kind = "braking" /\ lease' = Stopped /\ workKind' = workKind
    BY <1>8 DEF BrakeStop, Braking, OpState
  <2>2. \A w \in Works : /\ Stopped[w] \notin {"running", "paused"}
                         /\ Stopped[w] = "detached" => ~CooperativePause(w)
    BY <1>t DEF Stopped, InRegistry, Abortable, CooperativePause, LeaseStates
  <2> QED BY <2>1, <2>2 DEF CooperativePause
<1>9. ASSUME NEW w \in Works, WaitSettled(w) \/ WaitTimeout(w) PROVE StopInv'
  <2>1. /\ UNCHANGED <<op, lease, workKind>>
        /\ brake' = [brake EXCEPT !.waiting = brake.waiting \ {w}]
           \/ brake' = [brake EXCEPT !.waiting = brake.waiting \ {w},
                                     !.unconfirmed = TRUE]
    BY <1>9 DEF WaitSettled, WaitTimeout
  <2>2. brake'.active = brake.active
    BY <2>1 DEF ControlTypeOK
  <2> QED BY <2>1, <2>2 DEF CooperativePause
<1>10. CASE BrakeEnd
  <2>1. UNCHANGED <<lease, workKind>> /\ ~brake'.active
    BY <1>10 DEF BrakeEnd, NoBrake
  <2>2. op.kind = "braking" /\ op'.kind \in {"braked", "degraded"}
    BY <1>10 DEF BrakeEnd, Braked, DegradedByBrake, OpState
  <2> QED BY <2>1, <2>2 DEF CooperativePause
<1>11. CASE Restart
  <2>1. \A w \in Works : lease'[w] \in {"none", "gone"}
    BY <1>11 DEF Restart
  <2>2. op'.kind \in {"running", "paused", "braked", "degraded"}
    BY <1>11 DEF Restart, Loaded, ControlTypeOK, OpStates, Running, Degraded,
                 Braked, OpState
  <2>3. ~brake'.active
    BY <1>11 DEF Restart, NoBrake
  <2> QED BY <2>1, <2>2, <2>3
<1> QED BY <1>1, <1>2, <1>3, <1>4, <1>5, <1>6, <1>7, <1>8, <1>9, <1>10, <1>11
        DEF ECNext, EmergencyBrake

LEMMA StopInitially == ECInit => StopInv
BY DEF ECInit, StopInv, Loaded, NoFile, BadFile, Running, Degraded, OpState,
       NoBrake

-----------------------------------------------------------------------------
(* What a step may change *)

\* A step of a work settles its lease or leaves the controller alone.
LEMMA WorkEffect ==
  ASSUME NEW w \in Works, TaskStep(w) \/ CallReturns(w)
  PROVE  UNCHANGED <<mode, cleanup>> /\ (Settle(w) \/ UNCHANGED ecVars)
<1>1. CASE SendRefused(w) \/ LogInput(w) \/ StartLoop(w)
  BY <1>1 DEF SendRefused, LogInput, StartLoop, GiveUp, Ends
<1>2. CASE LoopHead(w)
  BY <1>2 DEF LoopHead, GoTo, Returns, Retry
<1>3. CASE Gate(w) \/ DelegateGate(w)
  BY <1>3 DEF Gate, DelegateGate, GoTo, Returns, GiveUp, Ends
<1>4. CASE Record(w) \/ RecordFailure(w)
  BY <1>4 DEF Record, RecordFailure, GoTo, Ends
<1>5. CASE CallReturns(w)
  BY <1>5 DEF CallReturns, Return, DelegateReturn, GoTo, Returns, Retry,
              GiveUp, Ends
<1> QED BY <1>1, <1>2, <1>3, <1>4, <1>5 DEF TaskStep

\* The steps of the operator, of the brake and of the sessions.
ControlStep ==
    \/ \E r \in {"pause", "running"} : SetMode(r)
    \/ ModePause \/ ModeRun \/ BrakeAll \/ BrakeOver
    \/ \E w \in Works : BrakeWait(w)
    \/ \E s \in Sessions :
         CleanupSession(s) \/ AttachSession(s) \/ InterruptSession(s)
           \/ ResumeSession(s)
    \/ UNCHANGED vars

\* They register no lease, settle none and move no work.
LEMMA ControlEffect ==
  ASSUME ControlTypeOK, ControlStep
  PROVE  /\ UNCHANGED <<task, attempt, result, workKind>>
         /\ \A w \in Works : /\ lease'[w] = "none" <=> lease[w] = "none"
                             /\ lease'[w] = "gone" <=> lease[w] = "gone"
<1>t. lease \in [Works -> LeaseStates]
  BY DEF ControlTypeOK
<1>1. CASE \/ \E r \in {"pause", "running"} : SetMode(r)
           \/ \E s \in Sessions :
                CleanupSession(s) \/ AttachSession(s) \/ InterruptSession(s)
                  \/ ResumeSession(s)
           \/ UNCHANGED vars
  BY <1>1 DEF SetMode, CleanupSession, AttachSession, InterruptSession,
              ResumeSession, ecVars, vars, spVars
<1>2. CASE ModePause
  <2>1. UNCHANGED <<task, attempt, result>> /\ (Pause \/ UNCHANGED ecVars)
    BY <1>2 DEF ModePause
  <2> QED BY <2>1 DEF Pause, ecVars
<1>3. CASE ModeRun
  <2>1. /\ UNCHANGED <<task, attempt, result>>
        /\ Resume \/ ClearBrakeAndRun \/ UNCHANGED ecVars
    BY <1>3 DEF ModeRun
  <2>2. workKind' = workKind /\ lease' \in {lease, Unpaused}
    BY <2>1 DEF Resume, ClearBrakeAndRun, ecVars
  <2> QED BY <2>1, <2>2 DEF Unpaused
<1>4. CASE BrakeAll
  <2>1. UNCHANGED <<task, attempt, result>>
    BY <1>4 DEF BrakeAll
  <2>2. workKind' = workKind /\ lease' \in {lease, Stopped}
    BY <1>4 DEF BrakeAll, BrakeAgain, BrakeAgainDegraded, BrakeNotDurable,
                BrakeIdle, BrakeStop
  <2> QED BY <2>1, <2>2 DEF Stopped, InRegistry
<1>5. CASE BrakeOver
  BY <1>5 DEF BrakeOver, BrakeEnd
<1>6. ASSUME NEW v \in Works, BrakeWait(v)
      PROVE  UNCHANGED <<task, attempt, result, workKind, lease>>
  BY <1>6 DEF BrakeWait, WaitSettled, WaitTimeout, spVars
<1> QED BY <1>1, <1>2, <1>3, <1>4, <1>5, <1>6 DEF ControlStep

LEMMA StepKinds ==
  [Next]_vars =>
    \/ \E w \in Works :
         SendInput(w) \/ Delegate(w) \/ TaskStep(w) \/ CallReturns(w)
    \/ ControlStep
    \/ RestartDaemon
BY DEF Next, ControlStep

-----------------------------------------------------------------------------
(* What a chosen control operation has found *)

LEMMA HoldInductive ==
  ControlTypeOK /\ StopInv /\ HoldInv /\ [Next]_vars => HoldInv'
<1> SUFFICES ASSUME ControlTypeOK, StopInv, HoldInv, [Next]_vars PROVE HoldInv'
  OBVIOUS
<1> USE DEF HoldInv
<1>t. lease \in [Works -> LeaseStates] /\ workKind \in [Works -> WorkKinds \cup {"none"}]
  BY DEF ControlTypeOK
<1>1. ASSUME NEW w \in Works, SendInput(w) \/ Delegate(w) PROVE HoldInv'
  <2>1. op.kind = "running" /\ UNCHANGED <<op, mode>>
    BY <1>1 DEF SendInput, Delegate, Acquire, AdmissionOpen
  <2> QED BY <2>1
<1>2. ASSUME NEW w \in Works, TaskStep(w) \/ CallReturns(w) PROVE HoldInv'
  <2>1. CASE UNCHANGED ecVars
    BY <2>1, <1>2, WorkEffect DEF ecVars, CooperativePause
  <2>2. CASE Settle(w)
    <3>1. /\ lease'[w] = "gone" /\ op' = op
          /\ \A v \in Works : v # w => /\ lease'[v] = lease[v]
                                       /\ workKind'[v] = workKind[v]
      BY <2>2, <1>t DEF Settle
    <3> QED BY <3>1, <1>2, WorkEffect DEF CooperativePause
  <2> QED BY <1>2, <2>1, <2>2, WorkEffect
<1>3. ASSUME NEW r \in {"pause", "running"}, SetMode(r) PROVE HoldInv'
  <2>1. /\ UNCHANGED <<op, lease, workKind>>
        /\ \/ mode' = "pause"
           \/ mode' = "clear" /\ op.kind \in {"braked", "degraded"}
           \/ mode' = "resume" /\ op.kind \notin {"running", "braked", "degraded"}
    BY <1>3 DEF SetMode, ecVars
  <2> QED BY <2>1 DEF StopInv, CooperativePause
<1>4. CASE ModePause
  <2>1. mode' = "none"
    BY <1>4 DEF ModePause
  <2>2. CASE Pause
    BY <2>1, <2>2 DEF Pause, CooperativePause
  <2>3. CASE UNCHANGED ecVars
    BY <2>1, <2>3 DEF ecVars, CooperativePause
  <2> QED BY <1>4, <2>2, <2>3 DEF ModePause
<1>5. CASE ModeRun
  <2>1. mode' = "none"
    BY <1>5 DEF ModeRun
  <2>2. CASE mode = "resume" /\ Resume
    <3>1. op'.kind = "running" \/ UNCHANGED <<lease, workKind>>
      BY <2>2 DEF Resume, Running, OpState
    <3> QED BY <2>1, <2>2, <3>1 DEF CooperativePause
  <2>3. CASE ClearBrakeAndRun
    <3>1. op'.kind = "running" \/ UNCHANGED <<op, lease, workKind>>
      BY <2>3 DEF ClearBrakeAndRun, Running, OpState
    <3> QED BY <2>1, <3>1 DEF CooperativePause
  <2>4. CASE UNCHANGED ecVars
    BY <2>1, <2>4 DEF ecVars, CooperativePause
  <2> QED BY <1>5, <2>2, <2>3, <2>4 DEF ModeRun
<1>6. CASE BrakeAll
  <2>1. mode' = mode /\ workKind' = workKind
    BY <1>6 DEF BrakeAll, BrakeAgain, BrakeAgainDegraded, BrakeNotDurable,
                BrakeIdle, BrakeStop
  <2>2. \/ UNCHANGED <<op, lease>>
        \/ op'.kind \in {"degraded", "braked"} /\ lease' = lease
        \/ op'.kind = "braking" /\ lease' = Stopped
    <3>1. CASE BrakeAgain \/ BrakeAgainDegraded
      BY <3>1 DEF BrakeAgain, BrakeAgainDegraded
    <3>2. CASE BrakeNotDurable
      BY <3>2 DEF BrakeNotDurable, DegradedByBrake, OpState
    <3>3. CASE BrakeIdle
      BY <3>3 DEF BrakeIdle, DegradedByBrake, Braked, OpState
    <3>4. CASE BrakeStop
      BY <3>4 DEF BrakeStop, Braking, OpState
    <3> QED BY <1>6, <3>1, <3>2, <3>3, <3>4 DEF BrakeAll
  <2>3. \A w \in Works : Stopped[w] # "running"
    BY DEF Stopped, InRegistry
  <2> QED BY <2>1, <2>2, <2>3 DEF CooperativePause
<1>7. ASSUME NEW w \in Works, BrakeWait(w) PROVE HoldInv'
  BY <1>7 DEF BrakeWait, WaitSettled, WaitTimeout, spVars, CooperativePause
<1>8. CASE BrakeOver
  <2>1. /\ UNCHANGED <<mode, lease, workKind>>
        /\ op'.kind \in {"degraded", "braked"}
    BY <1>8 DEF BrakeOver, BrakeEnd, DegradedByBrake, Braked, OpState
  <2> QED BY <2>1 DEF CooperativePause
<1>9. ASSUME NEW s \in Sessions,
             \/ CleanupSession(s) \/ AttachSession(s)
             \/ InterruptSession(s) \/ ResumeSession(s)
      PROVE  HoldInv'
  BY <1>9 DEF CleanupSession, AttachSession, InterruptSession, ResumeSession,
              ecVars, CooperativePause
<1>10. CASE RestartDaemon
  BY <1>10 DEF RestartDaemon, Restart
<1>11. CASE UNCHANGED vars
  BY <1>11 DEF vars, ecVars, spVars, CooperativePause
<1> QED BY <1>1, <1>2, <1>3, <1>4, <1>5, <1>6, <1>7, <1>8, <1>9, <1>10, <1>11
        DEF Next

-----------------------------------------------------------------------------
(* Where works are *)

\* A work that has begun and not ended moves to another such place.
LEMMA PlaceMoves ==
  ASSUME PlaneVarsOK, PlaceInv, NEW w \in Works, NEW p, NEW n \in Nat,
         UNCHANGED ecVars, task[w] \notin {"idle", "ended"},
         task' = [task EXCEPT ![w] = p],
         attempt' = [attempt EXCEPT ![w] = n] \/ (attempt' = attempt /\ n = attempt[w]),
         p \notin {"idle", "ended"},
         p \in TaskPlaces => IsTask(w),
         n <= AllAttempts,
         p \in Early => n = 0,
         IsTask(w) /\ p \in Trying => n < AllAttempts
  PROVE  PlaceInv'
<1>1. /\ task'[w] = p /\ attempt'[w] = n
      /\ \A v \in Works : v # w => /\ task'[v] = task[v]
                                   /\ attempt'[v] = attempt[v]
  BY DEF PlaneVarsOK
<1>2. UNCHANGED <<lease, workKind>>
  BY DEF ecVars
<1> QED BY <1>1, <1>2 DEF PlaceInv, IsTask

\* A work ends with its lease.
LEMMA PlaceEnds ==
  ASSUME ControlTypeOK, PlaneVarsOK, PlaceInv, NEW w \in Works, Ends(w)
  PROVE  PlaceInv'
<1>1. /\ task'[w] = "ended" /\ attempt'[w] = 0
      /\ \A v \in Works : v # w => /\ task'[v] = task[v]
                                   /\ attempt'[v] = attempt[v]
  BY DEF PlaneVarsOK, Ends
<1>2. /\ lease'[w] = "gone"
      /\ \A v \in Works : v # w => /\ lease'[v] = lease[v]
                                   /\ workKind'[v] = workKind[v]
  BY DEF Ends, Settle, ControlTypeOK
<1> QED BY <1>1, <1>2, ChainIsLong
        DEF PlaceInv, IsTask, TaskPlaces, Early, Trying

LEMMA PlaceInductive ==
  ASSUME ControlTypeOK, PlaneVarsOK, PlaceInv, [Next]_vars
  PROVE  PlaceInv'
<1> USE ChainIsLong
<1>p. \A w \in Works : /\ attempt[w] \in Nat
                       /\ attempt[w] <= AllAttempts
  BY DEF PlaneVarsOK, PlaceInv
<1>1. ASSUME NEW w \in Works, NEW k \in WorkKinds, NEW p, Acquire(w, k),
             task[w] = "idle", task' = [task EXCEPT ![w] = p],
             \/ p \in {"logging", "refused"} /\ k = "session_task"
             \/ p \in {"gating", "calling"},
             UNCHANGED attempt
      PROVE  PlaceInv'
  <2>1. /\ task'[w] = p
        /\ \A v \in Works : v # w => task'[v] = task[v]
    BY <1>1 DEF PlaneVarsOK
  <2>2. /\ lease'[w] = "running" /\ workKind'[w] = k
        /\ \A v \in Works : v # w => /\ lease'[v] = lease[v]
                                     /\ workKind'[v] = workKind[v]
    BY <1>1 DEF Acquire, ControlTypeOK
  <2>3. attempt[w] = 0
    BY <1>1 DEF PlaceInv, Early
  <2> QED BY <1>1, <2>1, <2>2, <2>3
          DEF PlaceInv, IsTask, TaskPlaces, Early, Trying
<1>2. ASSUME NEW w \in Works, SendInput(w) \/ Delegate(w) PROVE PlaceInv'
  <2>1. CASE SendInput(w)
    <3>1. PICK p \in {"logging", "refused"} : task' = [task EXCEPT ![w] = p]
      BY <2>1 DEF SendInput
    <3>2. "session_task" \in WorkKinds
      BY DEF WorkKinds
    <3> QED BY <2>1, <3>1, <3>2, <1>1 DEF SendInput
  <2>2. CASE Delegate(w)
    <3>1. PICK k \in WorkKinds : /\ Acquire(w, k)
                                 /\ \E p \in {"gating", "calling"} :
                                      task' = [task EXCEPT ![w] = p]
      BY <2>2 DEF Delegate
    <3> QED BY <2>2, <3>1, <1>1 DEF Delegate
  <2> QED BY <1>2, <2>1, <2>2
<1>3. ASSUME NEW w \in Works, NEW p, GoTo(w, p), task[w] \notin {"idle", "ended"},
             p \in {"loading", "failing"} => IsTask(w),
             p = "loading" => attempt[w] = 0,
             p \in {"gating", "calling"} /\ IsTask(w) =>
               attempt[w] < AllAttempts,
             p \in {"loading", "failing", "gating", "calling"}
      PROVE  PlaceInv'
  BY <1>3, <1>p, PlaceMoves DEF GoTo, TaskPlaces, Early, Trying
<1>4. ASSUME NEW w \in Works, NEW r, Returns(w, r), IsTask(w),
             task[w] \notin {"idle", "ended"}
      PROVE  PlaceInv'
  BY <1>4, <1>p, PlaceMoves DEF Returns, TaskPlaces, Early, Trying
<1>5. ASSUME NEW w \in Works, Retry(w), IsTask(w), task[w] \in Trying
      PROVE  PlaceInv'
  <2>1. attempt[w] < AllAttempts
    BY <1>5 DEF PlaceInv
  <2>2. /\ UNCHANGED ecVars
        /\ attempt' = [attempt EXCEPT ![w] = attempt[w] + 1]
    BY <1>5 DEF Retry
  <2>3. PICK p \in {"recording", "looping"} :
          /\ task' = [task EXCEPT ![w] = p]
          /\ p = "looping" => attempt[w] + 1 # AllAttempts
    BY <1>5 DEF Retry, EnterLoop, AllAttempts
  <2>4. attempt[w] + 1 \in Nat /\ attempt[w] + 1 <= AllAttempts
    BY <2>1, <1>p
  <2>5. p = "looping" => attempt[w] + 1 < AllAttempts
    BY <2>3, <2>4
  <2> QED BY <1>5, <2>2, <2>3, <2>4, <2>5, PlaceMoves
          DEF TaskPlaces, Early, Trying
<1>6. ASSUME NEW w \in Works, TaskStep(w) \/ CallReturns(w) PROVE PlaceInv'
  <2> USE DEF IsTask, IsSessionTask
  <2>1. CASE SendRefused(w)
    BY <2>1, PlaceEnds DEF SendRefused, GiveUp
  <2>2. CASE LogInput(w)
    <3>1. IsTask(w) /\ attempt[w] = 0
      BY <2>2 DEF LogInput, PlaceInv, TaskPlaces, Early
    <3> QED BY <2>2, <3>1, <1>3, PlaceEnds DEF LogInput, GoTo, GiveUp
  <2>3. CASE StartLoop(w)
    <3>1. IsTask(w) /\ attempt[w] = 0
      BY <2>3 DEF StartLoop, PlaceInv, TaskPlaces, Early
    <3>2. CASE GiveUp(w)
      BY <3>2, PlaceEnds DEF GiveUp
    <3>3. CASE ~GiveUp(w)
      <4>1. UNCHANGED ecVars /\ UNCHANGED attempt
        BY <2>3, <3>3 DEF StartLoop
      <4>3. PICK p \in {"recording", "looping"} :
               task' = [task EXCEPT ![w] = p]
        BY <2>3, <3>3 DEF StartLoop, EnterLoop
      <4>2. task[w] \notin {"idle", "ended"}
        BY <2>3 DEF StartLoop
      <4> QED BY <3>1, <4>1, <4>2, <4>3, <1>p, PlaceMoves
              DEF TaskPlaces, Early, Trying
    <3> QED BY <3>2, <3>3
  <2>4. CASE LoopHead(w)
    <3>1. IsTask(w) /\ task[w] \in Trying /\ attempt[w] < AllAttempts
      BY <2>4 DEF LoopHead, PlaceInv, TaskPlaces, Trying
    <3>2. task[w] \notin {"idle", "ended"}
      BY <2>4 DEF LoopHead
    <3> QED BY <2>4, <3>1, <3>2, <1>3, <1>4, <1>5 DEF LoopHead
  <2>5. CASE Gate(w)
    <3>1. task[w] \notin {"idle", "ended"} /\ attempt[w] < AllAttempts
      BY <2>5 DEF Gate, PlaceInv, Trying
    <3> QED BY <2>5, <3>1, <1>3, <1>4 DEF Gate
  <2>6. CASE DelegateGate(w) \/ DelegateReturn(w)
    <3>1. task[w] \notin {"idle", "ended"} /\ ~IsTask(w)
      BY <2>6 DEF DelegateGate, DelegateReturn, IsAgentDelegate, AgentDelegates
    <3> QED BY <2>6, <3>1, <1>3, PlaceEnds
            DEF DelegateGate, DelegateReturn, GiveUp
  <2>7. CASE Record(w) \/ RecordFailure(w)
    <3>1. IsTask(w) /\ task[w] \notin {"idle", "ended"}
      BY <2>7 DEF Record, RecordFailure, PlaceInv, TaskPlaces
    <3> QED BY <2>7, <3>1, <1>3, PlaceEnds DEF Record, RecordFailure
  <2>8. CASE Return(w)
    <3>1. /\ task[w] \notin {"idle", "ended"} /\ IsTask(w)
          /\ task[w] \in Trying /\ attempt[w] < AllAttempts
      BY <2>8 DEF Return, PlaceInv, Trying
    <3> QED BY <2>8, <3>1, <1>3, <1>4, <1>5 DEF Return
  <2> QED BY <1>6, <2>1, <2>2, <2>3, <2>4, <2>5, <2>6, <2>7, <2>8
          DEF TaskStep, CallReturns
<1>7. CASE ControlStep
  BY <1>7, ControlEffect DEF PlaceInv, IsTask
<1>8. CASE RestartDaemon
  <2>1. \A w \in Works :
          /\ lease'[w] = IF lease[w] = "none" THEN "none" ELSE "gone"
          /\ task'[w] = IF task[w] = "idle" THEN "idle" ELSE "ended"
          /\ attempt'[w] = 0
    BY <1>8 DEF RestartDaemon, Restart
  <2> QED BY <2>1 DEF PlaceInv, IsTask, TaskPlaces, Early, Trying
<1> QED BY <1>2, <1>6, <1>7, <1>8, StepKinds

-----------------------------------------------------------------------------
(* What the orchestrator knows *)

\* Two works that are both let in have different sessions.
LEMMA OneLetIn ==
  ASSUME LeaseInv, NEW v \in Works, NEW w \in Works, v # w, IsTask(v), IsTask(w)
  PROVE  SessionOf[v] # SessionOf[w]
BY DEF LeaseInv, OneLease

\* A step that leaves sessions alone, and of the works moves only w, to a
\* place where nothing new is asked.
LEMMA OrchQuiet ==
  ASSUME OrchInv, NEW w \in Works,
         UNCHANGED <<orch, status, lease, workKind>>,
         \A v \in Works : v # w => task'[v] = task[v],
         LetIn(w)' => LetIn(w)
  PROVE  OrchInv'
BY DEF OrchInv, LetIn, IsTask

\* A task enters the loop: only the signal of its orchestrator is new.
LEMMA OrchEnters ==
  ASSUME OrchInv, PlaneVarsOK, LeaseInv, NEW w \in Works, LetIn(w),
         EnterLoop(w), UNCHANGED <<ecVars, status>>
  PROVE  OrchInv'
<1> DEFINE s == SessionOf[w]
<1>1. s \in Sessions
  BY PlaneAssumption
<1>2. \A v \in Works : v # w => task'[v] = task[v]
  BY DEF EnterLoop, PlaneVarsOK
<1>3. /\ \A x \in Sessions : x # s => orch'[x] = orch[x]
      /\ orch'[s].present = orch[s].present
      /\ orch'[s].paused = orch[s].paused
  BY <1>1 DEF EnterLoop, PlaneVarsOK, OrchStates
<1>4. UNCHANGED <<lease, workKind, status>>
  BY DEF ecVars
<1>5. \A x \in Sessions : orch'[x].present = orch[x].present
  BY <1>3
<1>6. ASSUME NEW v \in Works, LetIn(v)'
      PROVE  LET o == orch'[SessionOf[v]] IN
             /\ o.present
             /\ lease'[v] = "paused" => o.paused
  <2>1. CASE v = w
    BY <2>1, <1>3, <1>4 DEF OrchInv
  <2>2. CASE v # w
    <3>1. LetIn(v)
      BY <1>6, <2>2, <1>2, <1>4 DEF LetIn, IsTask
    <3>2. SessionOf[v] # s /\ SessionOf[v] \in Sessions
      BY <3>1, <2>2, OneLetIn, PlaneAssumption DEF LetIn
    <3> QED BY <3>1, <3>2, <2>2, <1>2, <1>3, <1>4 DEF OrchInv
  <2> QED BY <2>1, <2>2
<1> QED BY <1>4, <1>5, <1>6 DEF OrchInv

\* A work ends; what becomes of its session is not another task's business.
LEMMA OrchEnds ==
  ASSUME OrchInv, PlaneVarsOK, ControlTypeOK, LeaseInv, NEW w \in Works, Ends(w),
         \/ UNCHANGED <<orch, status>>
         \/ /\ IsTask(w)
            /\ \A x \in Sessions : x # SessionOf[w] =>
                 orch'[x] = orch[x] /\ status'[x] = status[x]
            /\ status'[SessionOf[w]] \in Terminal =>
                 ~orch'[SessionOf[w]].present
  PROVE  OrchInv'
<1>1. /\ task'[w] = "ended"
      /\ \A v \in Works : v # w => /\ task'[v] = task[v]
                                   /\ attempt'[v] = attempt[v]
  BY DEF PlaneVarsOK, Ends
<1>2. \A v \in Works : v # w => /\ lease'[v] = lease[v]
                                /\ workKind'[v] = workKind[v]
  BY DEF Ends, Settle, ControlTypeOK
<1>3. ASSUME NEW v \in Works, LetIn(v)'
      PROVE  LetIn(v) /\ v # w
  BY <1>1, <1>2, <1>3 DEF LetIn, IsTask
<1>4. CASE UNCHANGED <<orch, status>>
  BY <1>1, <1>2, <1>3, <1>4 DEF OrchInv
<1>5. CASE ~UNCHANGED <<orch, status>>
  <2>1. \A x \in Sessions : status'[x] \in Terminal => ~orch'[x].present
    BY <1>5 DEF OrchInv
  <2>2. ASSUME NEW v \in Works, LetIn(v)'
        PROVE  orch'[SessionOf[v]] = orch[SessionOf[v]]
    <3>1. SessionOf[v] # SessionOf[w] /\ SessionOf[v] \in Sessions
      BY <2>2, <1>3, <1>5, OneLetIn, PlaneAssumption DEF LetIn
    <3> QED BY <3>1, <1>5
  <2> QED BY <1>1, <1>2, <1>3, <2>1, <2>2 DEF OrchInv
<1> QED BY <1>4, <1>5

LEMMA OrchWork ==
  ASSUME ControlTypeOK, PlaneVarsOK, LeaseInv, PlaceInv, OrchInv,
         NEW w \in Works, TaskStep(w) \/ CallReturns(w)
  PROVE  OrchInv'
<1> USE DEF IsTask, IsSessionTask
<1>g. ASSUME GiveUp(w) PROVE OrchInv'
  BY <1>g, OrchEnds DEF GiveUp
<1>1. ASSUME NEW p, GoTo(w, p), LetIn(w) PROVE OrchInv'
  <2>1. /\ UNCHANGED <<orch, status, lease, workKind>>
        /\ \A v \in Works : v # w => task'[v] = task[v]
    BY <1>1 DEF GoTo, ecVars, PlaneVarsOK
  <2> QED BY <1>1, <2>1, OrchQuiet
<1>2. ASSUME NEW r, Returns(w, r), LetIn(w) PROVE OrchInv'
  <2>1. /\ UNCHANGED <<orch, status, lease, workKind>>
        /\ \A v \in Works : v # w => task'[v] = task[v]
    BY <1>2 DEF Returns, ecVars, PlaneVarsOK
  <2> QED BY <1>2, <2>1, OrchQuiet
<1>3. ASSUME Retry(w), LetIn(w) PROVE OrchInv'
  <2>1. UNCHANGED <<ecVars, status>>
    BY <1>3 DEF Retry
  <2>2. CASE EnterLoop(w)
    BY <1>3, <2>1, <2>2, OrchEnters
  <2>3. CASE ~EnterLoop(w)
    <3>1. PICK p \in {"recording", "looping"} :
            task' = [task EXCEPT ![w] = p] /\ UNCHANGED orch
      BY <1>3, <2>3 DEF Retry
    <3>2. \A v \in Works : v # w => task'[v] = task[v]
      BY <3>1 DEF PlaneVarsOK
    <3>3. UNCHANGED <<orch, status, lease, workKind>>
      BY <2>1, <3>1 DEF ecVars
    <3> QED BY <1>3, <3>2, <3>3, OrchQuiet
  <2> QED BY <2>2, <2>3
<1>4. CASE SendRefused(w)
  BY <1>4, <1>g DEF SendRefused
<1>5. CASE LogInput(w)
  <2>1. LetIn(w)
    BY <1>5 DEF LogInput, PlaceInv, TaskPlaces, LetIn
  <2>2. CASE GoTo(w, "loading")
    BY <2>1, <2>2, <1>1
  <2> QED BY <1>5, <2>2, <1>g DEF LogInput, GoTo
<1>6. CASE StartLoop(w)
  <2>1. LetIn(w)
    BY <1>6 DEF StartLoop, PlaceInv, TaskPlaces, LetIn
  <2>2. CASE ~Aborted(w)
    <3>1. EnterLoop(w) /\ UNCHANGED <<ecVars, status, attempt>>
      BY <1>6, <2>2 DEF StartLoop
    <3> QED BY <2>1, <3>1, OrchEnters
  <2> QED BY <1>6, <2>2, <1>g DEF StartLoop
<1>7. CASE LoopHead(w)
  <2>1. LetIn(w)
    BY <1>7 DEF LoopHead, PlaceInv, TaskPlaces, LetIn
  <2> QED BY <1>7, <2>1, <1>1, <1>2, <1>3 DEF LoopHead
<1>8. CASE Gate(w) \/ Return(w)
  <2>1. LetIn(w)
    BY <1>8 DEF Gate, Return, LetIn
  <2> QED BY <1>8, <2>1, <1>1, <1>2, <1>3 DEF Gate, Return
<1>9. CASE DelegateGate(w) \/ DelegateReturn(w)
  <2>1. ~IsTask(w)
    BY <1>9 DEF DelegateGate, DelegateReturn, IsAgentDelegate, AgentDelegates
  <2>2. ASSUME NEW p \in {"gating", "calling"}, GoTo(w, p) PROVE OrchInv'
    <3>1. /\ UNCHANGED <<orch, status, lease, workKind>>
          /\ \A v \in Works : v # w => task'[v] = task[v]
      BY <2>2 DEF GoTo, ecVars, PlaneVarsOK
    <3>2. ~LetIn(w)'
      BY <2>1, <3>1 DEF LetIn
    <3> QED BY <3>1, <3>2, OrchQuiet
  <2> QED BY <1>9, <2>2, <1>g DEF DelegateGate, DelegateReturn
<1>10. CASE Record(w)
  <2>1. LetIn(w)
    BY <1>10 DEF Record, PlaceInv, TaskPlaces, LetIn
  <2>2. CASE GoTo(w, "failing")
    BY <2>1, <2>2, <1>1
  <2>3. CASE ~GoTo(w, "failing")
    <3>1. /\ Ends(w)
          /\ status' = [status EXCEPT ![SessionOf[w]] = StatusOf(result[w])]
          /\ orch' = [orch EXCEPT ![SessionOf[w]] =
                         IF StatusOf(result[w]) \in Terminal
                         THEN NoOrchestrator ELSE orch[SessionOf[w]]]
      BY <1>10, <2>3 DEF Record
    <3>2. SessionOf[w] \in Sessions
      BY PlaneAssumption
    <3>3. /\ \A x \in Sessions : x # SessionOf[w] =>
               orch'[x] = orch[x] /\ status'[x] = status[x]
          /\ status'[SessionOf[w]] \in Terminal =>
               ~orch'[SessionOf[w]].present
      BY <3>1, <3>2 DEF PlaneVarsOK, NoOrchestrator
    <3> QED BY <2>1, <3>1, <3>3, OrchEnds DEF LetIn
  <2> QED BY <2>2, <2>3
<1>11. CASE RecordFailure(w)
  <2>1. LetIn(w)
    BY <1>11 DEF RecordFailure, PlaceInv, TaskPlaces, LetIn
  <2>2. SessionOf[w] \in Sessions
    BY PlaneAssumption
  <2>3. /\ \A x \in Sessions : x # SessionOf[w] =>
             orch'[x] = orch[x] /\ status'[x] = status[x]
        /\ ~orch'[SessionOf[w]].present
    BY <1>11, <2>2 DEF RecordFailure, PlaneVarsOK, NoOrchestrator
  <2> QED BY <1>11, <2>1, <2>3, OrchEnds DEF RecordFailure, LetIn
<1> QED BY <1>4, <1>5, <1>6, <1>7, <1>8, <1>9, <1>10, <1>11
        DEF TaskStep, CallReturns

\* A work is let in: as a task, only where an orchestrator is.
LEMMA OrchStarts ==
  ASSUME ControlTypeOK, PlaneVarsOK, OrchInv,
         NEW w \in Works, SendInput(w) \/ Delegate(w)
  PROVE  OrchInv'
<1>1. PICK k \in WorkKinds :
        /\ Acquire(w, k)
        /\ k = "session_task" =>
             task' = [task EXCEPT ![w] =
                        IF orch[SessionOf[w]].present THEN "logging"
                        ELSE "refused"]
        /\ \A v \in Works : v # w => task'[v] = task[v]
        /\ UNCHANGED <<orch, status, attempt>>
  BY DEF SendInput, Delegate, PlaneVarsOK, WorkKinds
<1>2. /\ lease'[w] = "running" /\ workKind'[w] = k
      /\ \A v \in Works : v # w => /\ lease'[v] = lease[v]
                                   /\ workKind'[v] = workKind[v]
  BY <1>1 DEF Acquire, ControlTypeOK
<1>3. LetIn(w)' => orch[SessionOf[w]].present
  BY <1>1, <1>2 DEF LetIn, IsTask, PlaneVarsOK
<1> QED BY <1>1, <1>2, <1>3 DEF OrchInv, LetIn, IsTask

\* Steps that move no work: the orchestrators follow the leases.
LEMMA OrchFollows ==
  ASSUME ControlTypeOK, OrchInv, ControlStep,
         \A s \in Sessions :
           /\ orch[s].present /\ status[s] \notin Terminal => orch'[s].present
           /\ status'[s] \in Terminal => ~orch'[s].present,
         \A w \in Works :
           LetIn(w) /\ lease'[w] = "paused" => orch'[SessionOf[w]].paused
  PROVE  OrchInv'
<1>1. UNCHANGED <<task, attempt, workKind>>
  BY ControlEffect
<1>2. \A w \in Works : LetIn(w)' <=> LetIn(w)
  BY <1>1 DEF LetIn, IsTask
<1>3. \A w \in Works : SessionOf[w] \in Sessions
  BY PlaneAssumption
<1> QED BY <1>1, <1>2, <1>3 DEF OrchInv

LEMMA OrchInductive ==
  ASSUME PlaneInv, [Next]_vars
  PROVE  OrchInv'
<1>i. /\ ControlTypeOK /\ PlaneVarsOK /\ LeaseInv /\ StopInv /\ HoldInv
      /\ PlaceInv /\ OrchInv
  BY DEF PlaneInv
<1>s. StopInv'
  BY <1>i, StepIsControl, StopInductive
<1>t. /\ \A w \in Works : SessionOf[w] \in Sessions
      /\ \A w \in Works : LetIn(w) =>
           /\ orch[SessionOf[w]].present
           /\ lease[w] = "paused" => orch[SessionOf[w]].paused
      /\ \A s \in Sessions : status[s] \in Terminal => ~orch[s].present
  BY <1>i, PlaneAssumption DEF OrchInv
<1>c. ASSUME UNCHANGED <<orch, status, lease>>, ControlStep PROVE OrchInv'
  BY <1>c, <1>i, <1>t, OrchFollows
<1>1. CASE ModePause
  <2>1. /\ \A s \in Sessions : orch[s].present =>
             orch'[s].present /\ orch'[s].paused
        /\ \A s \in Sessions : orch'[s].present <=> orch[s].present
        /\ status' = status
    BY <1>1, <1>i DEF ModePause, AllPaused, PausedOrch, PlaneVarsOK, OrchStates
  <2> QED BY <1>1, <1>i, <1>t, <2>1, OrchFollows DEF ControlStep
<1>2. CASE ModeRun
  <2>1. /\ \A s \in Sessions : orch'[s].present <=> orch[s].present
        /\ status' = status
    BY <1>2, <1>i DEF ModeRun, AllResumed, ResumedOrch, PlaneVarsOK, OrchStates
  <2>2. lease' \in {lease, Unpaused}
    BY <1>2 DEF ModeRun, Resume, ClearBrakeAndRun, ecVars
  <2>3. \A w \in Works : lease'[w] = "paused" => lease[w] = "paused"
    BY <2>2 DEF Unpaused
  <2>4. ASSUME NEW w \in Works, LetIn(w), lease'[w] = "paused"
        PROVE  orch'[SessionOf[w]].paused
    <3>1. op'.kind # "running"
      BY <1>s, <2>4 DEF StopInv
    <3>2. orch' = orch
      BY <1>2, <3>1 DEF ModeRun
    <3> QED BY <2>3, <2>4, <3>2, <1>t
  <2> QED BY <1>2, <1>i, <1>t, <2>1, <2>4, OrchFollows DEF ControlStep
<1>3. CASE BrakeAll
  <2>1. CASE UNCHANGED <<orch, status>> /\ lease' = lease
    BY <1>3, <2>1, <1>c DEF ControlStep
  <2>2. CASE BrakeStop /\ orch' = CancelledByLeases /\ status' = status
    <3>1. orch' = CancelledByLeases /\ status' = status /\ lease' = Stopped
      BY <2>2 DEF BrakeStop
    <3>2. ASSUME NEW s \in Sessions
          PROVE  orch'[s].present <=> orch[s].present
      <4>1. orch'[s] \in {orch[s], CancelledOrch(orch[s])}
        BY <3>1 DEF CancelledByLeases
      <4> QED BY <4>1, <1>i DEF CancelledOrch, PlaneVarsOK, OrchStates
    <3>3. \A w \in Works : lease'[w] # "paused"
      BY <3>1 DEF Stopped, InRegistry
    <3> QED BY <1>3, <1>i, <1>t, <3>1, <3>2, <3>3, OrchFollows
            DEF ControlStep
  <2> QED BY <1>3, <2>1, <2>2 DEF BrakeAll, BrakeAgain, BrakeAgainDegraded,
                                  BrakeNotDurable, BrakeIdle
<1>4. CASE BrakeOver
  BY <1>4, <1>c DEF BrakeOver, BrakeEnd, ControlStep
<1>5. ASSUME NEW w \in Works, BrakeWait(w) PROVE OrchInv'
  BY <1>5, <1>c DEF BrakeWait, WaitSettled, WaitTimeout, spVars, ControlStep
<1>6. ASSUME NEW r \in {"pause", "running"}, SetMode(r) PROVE OrchInv'
  BY <1>6, <1>c DEF SetMode, ecVars, ControlStep
<1>7. ASSUME NEW s \in Sessions,
             \/ CleanupSession(s) \/ AttachSession(s)
             \/ InterruptSession(s) \/ ResumeSession(s)
      PROVE  OrchInv'
  <2>1. /\ lease' = lease /\ ControlStep
        /\ \A x \in Sessions : x # s => /\ orch'[x] = orch[x]
                                        /\ status'[x] = status[x]
    BY <1>7, <1>i DEF CleanupSession, AttachSession, InterruptSession,
                      ResumeSession, ecVars, ControlStep, PlaneVarsOK
  <2>2. CASE CleanupSession(s)
    <3>1. CASE status[s] \in Terminal
      BY <2>1, <2>2, <3>1, <1>i, <1>t, OrchFollows
         DEF CleanupSession, NoOrchestrator, PlaneVarsOK
    <3>2. CASE status[s] \notin Terminal
      <4>1. orch'[s] = IF orch[s].present THEN CancelledOrch(orch[s]) ELSE orch[s]
        BY <2>2, <3>2, <1>i DEF CleanupSession, PlaneVarsOK
      <4>2. /\ orch'[s].present <=> orch[s].present
            /\ orch[s].present => orch'[s].paused
        BY <4>1, <1>i DEF CancelledOrch, PlaneVarsOK, OrchStates
      <4>3. status'[s] \notin Terminal
        BY <2>2, <3>2, <1>i DEF CleanupSession, PlaneVarsOK, Terminal
      <4> QED BY <2>1, <4>2, <4>3, <1>i, <1>t, OrchFollows
    <3> QED BY <3>1, <3>2
  <2>3. CASE AttachSession(s)
    <3>1. /\ status[s] \notin Terminal /\ status' = status
          /\ orch'[s] = IF ~orch[s].present THEN NewOrchestrator(AdmissionOpen)
                        ELSE IF AdmissionOpen THEN orch[s]
                        ELSE PausedOrch(orch[s])
      BY <2>3, <1>i DEF AttachSession, PlaneVarsOK
    <3>2. orch[s].present =>
            /\ orch'[s].present
            /\ orch[s].paused => orch'[s].paused
      BY <3>1, <1>i DEF PausedOrch, PlaneVarsOK, OrchStates
    <3>3. \A x \in Sessions :
            /\ orch[x].present /\ status[x] \notin Terminal => orch'[x].present
            /\ status'[x] \in Terminal => ~orch'[x].present
      BY <2>1, <3>1, <3>2, <1>t
    <3> QED BY <2>1, <3>2, <3>3, <1>i, <1>t, OrchFollows
  <2>4. CASE InterruptSession(s)
    <3>1. /\ status'[s] \notin Terminal
          /\ orch'[s] = IF orch[s].present THEN PausedOrch(orch[s]) ELSE orch[s]
      BY <2>4, <1>i DEF InterruptSession, PlaneVarsOK, Terminal
    <3>2. /\ orch'[s].present <=> orch[s].present
          /\ orch[s].present => orch'[s].paused
      BY <3>1, <1>i DEF PausedOrch, PlaneVarsOK, OrchStates
    <3> QED BY <2>1, <3>1, <3>2, <1>i, <1>t, OrchFollows
  <2>5. CASE ResumeSession(s)
    <3>1. /\ status'[s] \notin Terminal /\ AdmissionOpen
          /\ orch'[s] = IF orch[s].present THEN ResumedOrch(orch[s]) ELSE orch[s]
      BY <2>5, <1>i DEF ResumeSession, PlaneVarsOK, Terminal
    <3>2. orch'[s].present <=> orch[s].present
      BY <3>1, <1>i DEF ResumedOrch, PlaneVarsOK, OrchStates
    <3>3. \A w \in Works : lease'[w] # "paused"
      BY <2>1, <3>1, <1>i DEF StopInv, AdmissionOpen
    <3> QED BY <2>1, <3>1, <3>2, <3>3, <1>i, <1>t, OrchFollows
  <2> QED BY <1>7, <2>2, <2>3, <2>4, <2>5
<1>8. CASE UNCHANGED vars
  BY <1>8, <1>c DEF vars, ecVars, spVars, ControlStep
<1>9. CASE ControlStep
  BY <1>9, <1>1, <1>2, <1>3, <1>4, <1>5, <1>6, <1>7, <1>8 DEF ControlStep
<1>10. CASE RestartDaemon
  <2>1. /\ \A w \in Works : task'[w] \in {"idle", "ended"}
        /\ \A s \in Sessions : ~orch'[s].present
    BY <1>10 DEF RestartDaemon, NoOrchestrator
  <2> QED BY <2>1 DEF OrchInv, LetIn
<1> QED BY <1>i, <1>9, <1>10, StepKinds, OrchWork, OrchStarts

-----------------------------------------------------------------------------
(* The theorems *)

LEMMA PlaneInvInductive == PlaneInv /\ [Next]_vars => PlaneInv'
<1> SUFFICES ASSUME PlaneInv, [Next]_vars PROVE PlaneInv'
  OBVIOUS
<1>1. ControlTypeOK' /\ LeaseInv' /\ StopInv'
  BY StepIsControl, TypeInductive, LeaseInvInductive, StopInductive
     DEF PlaneInv
<1>2. PlaneVarsOK' /\ HoldInv' /\ PlaceInv'
  BY VarsInductive, HoldInductive, PlaceInductive DEF PlaneInv
<1> QED BY <1>1, <1>2, OrchInductive DEF PlaneInv

LEMMA PlaneInvInitially == Init => PlaneInv
<1> SUFFICES ASSUME Init PROVE PlaneInv
  OBVIOUS
<1>1. ControlTypeOK /\ LeaseInv /\ StopInv
  BY TypeInitially, LeaseInvInitially, StopInitially DEF Init
<1>2. PlaneVarsOK
  BY OrchTyped DEF Init, PlaneVarsOK, AdmissionOpen, InTaskMap
<1>3. HoldInv
  BY DEF Init, HoldInv, ECInit
<1>4. PlaceInv
  BY ChainIsLong DEF Init, ECInit, PlaceInv, TaskPlaces, Trying
<1>5. OrchInv
  BY DEF Init, OrchInv, LetIn, Terminal
<1> QED BY <1>1, <1>2, <1>3, <1>4, <1>5 DEF PlaneInv

\* Types of the whole plane: no work makes more attempts than its escalation
\* chain has (Orchestrator.ts:400-470).
THEOREM PlaneIsTyped == Spec => []PlaneTypeOK
<1>1. PlaneInv => PlaneTypeOK
  <2> SUFFICES ASSUME PlaneInv PROVE PlaneTypeOK
    OBVIOUS
  <2>1. attempt \in [Works -> 0 .. MaxRetries * Personas]
    BY ChainIsLong DEF PlaneInv, PlaneVarsOK, PlaceInv, AllAttempts
  <2> QED BY <2>1 DEF PlaneInv, PlaneVarsOK, PlaneTypeOK, OrchStates
<1> QED BY PlaneInvInitially, PlaneInvInductive, <1>1, PTL DEF Spec

\* The plane runs the controller as it was proved about.
THEOREM PlaneIsControlled == Spec => ECSpec
<1>1. Init => ECInit
  BY DEF Init
<1> QED BY <1>1, StepIsControl, PTL DEF Spec, ECSpec

\* A brake that says complete has stopped every call of every work
\* (execution-control.ts:1285, session-manager.ts:838).
THEOREM CompleteBrakeIsQuiet == Spec => []NothingRunsAfterCompleteBrake
<1>1. PlaneInv /\ HonestBrake => NothingRunsAfterCompleteBrake
  BY DEF PlaneInv, PlaceInv, HonestBrake, Registered, InRegistry,
         NothingRunsAfterCompleteBrake
<1>2. Spec => []HonestBrake
  BY PlaneIsControlled, BrakeIsHonest, PTL
<1> QED BY PlaneInvInitially, PlaneInvInductive, <1>1, <1>2, PTL DEF Spec

\* Two tasks of a session never run at once (execution-control.ts:656-672).
THEOREM TasksExclude == Spec => []OneTaskPerSession
<1>1. PlaneInv => OneTaskPerSession
  BY DEF PlaneInv, LeaseInv, OneLease, OneTaskPerSession, IsSessionTask, IsTask
<1> QED BY PlaneInvInitially, PlaneInvInductive, <1>1, PTL DEF Spec

-----------------------------------------------------------------------------
(* What has happened since a work was told to stop *)

\* What a step may make of the orchestrator of session s.
OrchChange(s) ==
    \/ orch'[s] \in {orch[s], PausedOrch(orch[s]), CancelledOrch(orch[s])}
    \/ orch'[s] = ResumedOrch(orch[s]) /\ AdmissionOpen'
    \/ \E open \in BOOLEAN : orch'[s] = NewOrchestrator(open) /\ ~orch[s].present
    \/ /\ orch'[s] = NoOrchestrator
       /\ \A w \in Works : SessionOf[w] = s => ~LetIn(w)'
    \/ /\ orch'[s] = [orch[s] EXCEPT !.signalled = orch[s].cancelled]
       /\ \E w \in Works :
            /\ SessionOf[w] = s /\ LetIn(w)
            /\ lease[w] # "cancelling" \/ orch[s].cancelled \/ Escalates(w)

LEMMA OrchChanges ==
  ASSUME PlaneInv, [Next]_vars, NEW s \in Sessions
  PROVE  OrchChange(s)
<1>i. /\ ControlTypeOK /\ PlaneVarsOK /\ LeaseInv /\ PlaceInv /\ OrchInv
  BY DEF PlaneInv
<1>s. \A w \in Works : SessionOf[w] \in Sessions
  BY PlaneAssumption
<1>0. CASE orch' = orch
  BY <1>0 DEF OrchChange
<1>e. ASSUME NEW w \in Works, EnterLoop(w), LetIn(w),
             \/ lease[w] # "cancelling"
             \/ /\ attempt'[w] > attempt[w]
                /\ attempt'[w] % MaxRetries = 0
      PROVE  OrchChange(s)
  <2>1. CASE SessionOf[w] # s
    <3>1. orch'[s] = orch[s]
      BY <1>e, <1>i, <1>s, <2>1 DEF EnterLoop, PlaneVarsOK
    <3> QED BY <3>1 DEF OrchChange
  <2>2. CASE SessionOf[w] = s
    <3>1. orch'[s] = [orch[s] EXCEPT !.signalled = orch[s].cancelled]
      BY <1>e, <1>i, <2>2 DEF EnterLoop, PlaneVarsOK
    <3>2. ~orch[s].cancelled => task'[w] = "looping"
      BY <1>e, <1>i, <2>2 DEF EnterLoop, PlaneVarsOK
    <3> QED BY <1>e, <2>2, <3>1, <3>2 DEF OrchChange, Escalates
  <2> QED BY <2>1, <2>2
<1>r. ASSUME NEW w \in Works, Retry(w), LetIn(w) PROVE OrchChange(s)
  <2>1. CASE EnterLoop(w) /\ (attempt[w] + 1) % MaxRetries = 0
    <3>1. attempt'[w] = attempt[w] + 1 /\ attempt[w] \in Nat
      BY <1>r, <1>i DEF Retry, PlaneVarsOK
    <3>2. attempt'[w] > attempt[w]
      BY <3>1
    <3> QED BY <1>r, <1>e, <2>1, <3>1, <3>2
  <2>2. CASE ~(EnterLoop(w) /\ (attempt[w] + 1) % MaxRetries = 0)
    BY <1>r, <1>0, <2>2 DEF Retry
  <2> QED BY <2>1, <2>2
\* The task of session s is over, and with it its orchestrator.
<1>o. ASSUME NEW w \in Works, LetIn(w), Ends(w),
             orch' = orch \/ orch' = [orch EXCEPT ![SessionOf[w]] = NoOrchestrator]
      PROVE  OrchChange(s)
  <2>1. CASE SessionOf[w] # s \/ orch' = orch
    <3>1. orch'[s] = orch[s]
      BY <1>o, <1>i, <1>s, <2>1 DEF PlaneVarsOK
    <3> QED BY <3>1 DEF OrchChange
  <2>2. CASE SessionOf[w] = s /\ orch' # orch
    <3>1. orch'[s] = NoOrchestrator
      BY <1>o, <1>i, <2>2 DEF PlaneVarsOK
    <3>2. ASSUME NEW v \in Works, SessionOf[v] = s, LetIn(v)' PROVE FALSE
      <4>1. v # w
        BY <1>o, <1>i, <3>2 DEF Ends, PlaneVarsOK, LetIn
      <4>2. IsTask(v)
        BY <1>o, <1>i, <3>2, <4>1 DEF Ends, Settle, ControlTypeOK, LetIn, IsTask
      <4> QED BY <1>o, <1>i, <2>2, <3>2, <4>1, <4>2, OneLetIn DEF LetIn
    <3> QED BY <3>1, <3>2 DEF OrchChange
  <2> QED BY <2>1, <2>2
<1>1. ASSUME NEW w \in Works,
             SendInput(w) \/ Delegate(w) \/ TaskStep(w) \/ CallReturns(w)
      PROVE  OrchChange(s)
  <2>1. CASE SendInput(w) \/ Delegate(w) \/ SendRefused(w) \/ LogInput(w)
    BY <2>1, <1>0 DEF SendInput, Delegate, SendRefused, LogInput, GiveUp
  <2>2. CASE StartLoop(w)
    <3>1. LetIn(w)
      BY <2>2, <1>i DEF StartLoop, PlaceInv, TaskPlaces, LetIn
    <3>2. orch' = orch \/ (EnterLoop(w) /\ lease[w] # "cancelling")
      BY <2>2 DEF StartLoop, GiveUp, Aborted
    <3> QED BY <3>1, <3>2, <1>0, <1>e
  <2>3. CASE LoopHead(w) \/ Return(w)
    <3>1. LetIn(w)
      BY <2>3, <1>i DEF LoopHead, Return, IsSessionTask, PlaceInv, TaskPlaces,
                        LetIn, IsTask
    <3>2. orch' = orch \/ Retry(w)
      BY <2>3 DEF LoopHead, Return, GoTo, Returns
    <3> QED BY <3>1, <3>2, <1>0, <1>r
  <2>4. CASE Gate(w) \/ DelegateGate(w) \/ DelegateReturn(w)
    BY <2>4, <1>0 DEF Gate, DelegateGate, DelegateReturn, GoTo, Returns, GiveUp
  <2>5. CASE Record(w) \/ RecordFailure(w)
    <3>1. LetIn(w)
      BY <2>5, <1>i DEF Record, RecordFailure, PlaceInv, TaskPlaces, LetIn
    <3>2. \/ orch' = orch
          \/ /\ Ends(w)
             /\ orch' = [orch EXCEPT ![SessionOf[w]] = NoOrchestrator]
          \/ /\ Ends(w)
             /\ orch' = [orch EXCEPT ![SessionOf[w]] = orch[SessionOf[w]]]
      BY <2>5 DEF Record, RecordFailure, GoTo
    <3>3. [orch EXCEPT ![SessionOf[w]] = orch[SessionOf[w]]] = orch
      BY <1>i DEF PlaneVarsOK
    <3> QED BY <3>1, <3>2, <3>3, <1>0, <1>o
  <2> QED BY <1>1, <2>1, <2>2, <2>3, <2>4, <2>5 DEF TaskStep, CallReturns
<1>2. CASE ModePause
  BY <1>2 DEF ModePause, AllPaused, OrchChange
<1>3. CASE ModeRun
  BY <1>3, <1>0 DEF ModeRun, AllResumed, OrchChange, AdmissionOpen
<1>4. CASE BrakeAll
  BY <1>4, <1>0 DEF BrakeAll, CancelledByLeases, OrchChange
<1>5. ASSUME NEW x \in Sessions,
             \/ CleanupSession(x) \/ AttachSession(x)
             \/ InterruptSession(x) \/ ResumeSession(x)
      PROVE  OrchChange(s)
  <2>1. CASE x # s
    <3>1. orch'[s] = orch[s]
      BY <1>5, <1>i, <2>1 DEF CleanupSession, AttachSession, InterruptSession,
                              ResumeSession, PlaneVarsOK
    <3> QED BY <3>1 DEF OrchChange
  <2>2. CASE x = s /\ CleanupSession(x)
    <3>1. CASE status[s] \in Terminal
      <4>1. orch'[s] = NoOrchestrator /\ UNCHANGED <<task, workKind>>
        BY <2>2, <3>1, <1>i DEF CleanupSession, PlaneVarsOK, ecVars
      <4>2. \A w \in Works : SessionOf[w] = s => ~LetIn(w)
        BY <3>1, <1>i DEF OrchInv
      <4> QED BY <4>1, <4>2 DEF OrchChange, LetIn, IsTask
    <3>2. CASE status[s] \notin Terminal
      BY <2>2, <3>2, <1>i DEF CleanupSession, PlaneVarsOK, OrchChange
    <3> QED BY <3>1, <3>2
  <2>3. CASE x = s /\ AttachSession(x)
    BY <2>3, <1>i DEF AttachSession, PlaneVarsOK, OrchChange, AdmissionOpen
  <2>4. CASE x = s /\ InterruptSession(x)
    BY <2>4, <1>i DEF InterruptSession, PlaneVarsOK, OrchChange
  <2>5. CASE x = s /\ ResumeSession(x)
    <3>1. AdmissionOpen'
      BY <2>5 DEF ResumeSession, ecVars, AdmissionOpen
    <3> QED BY <2>5, <3>1, <1>i DEF ResumeSession, PlaneVarsOK, OrchChange
  <2> QED BY <1>5, <2>1, <2>2, <2>3, <2>4, <2>5
<1>6. CASE RestartDaemon
  BY <1>6 DEF RestartDaemon, OrchChange, LetIn
<1>7. \/ \E r \in {"pause", "running"} : SetMode(r)
      \/ BrakeOver \/ (\E w \in Works : BrakeWait(w)) \/ UNCHANGED vars
      => orch' = orch
  BY DEF SetMode, BrakeOver, BrakeWait, vars, spVars
<1> QED BY <1>0, <1>1, <1>2, <1>3, <1>4, <1>5, <1>6, <1>7 DEF Next

\* A cancelled orchestrator has fired its signal; a work that was told to stop
\* has a cancelled one until admission opens, and a fired signal until it
\* escalates.
WatchInv ==
    /\ afterStop \in [Works -> {"none", "told", "reopened", "escalated"}]
    /\ \A s \in Sessions : orch[s].cancelled => orch[s].signalled
    /\ \A w \in Works : LetIn(w) /\ lease[w] = "cancelling" =>
         /\ afterStop[w] # "none"
         /\ afterStop[w] = "told" =>
              ~AdmissionOpen /\ orch[SessionOf[w]].cancelled
         /\ afterStop[w] = "reopened" => orch[SessionOf[w]].signalled

\* A flag of an orchestrator whose task goes on is lost in one way only: the
\* cancellation when admission opens, the signal when the task escalates.
LEMMA FlagsKept ==
  ASSUME PlaneInv, PlaneVarsOK', [Next]_vars, NEW w \in Works,
         LetIn(w), LetIn(w)', lease[w] = "cancelling"
  PROVE  LET o == orch[SessionOf[w]]
             n == orch'[SessionOf[w]]
         IN /\ o.cancelled => n.cancelled \/ AdmissionOpen'
            /\ o.signalled =>
                 n.signalled \/ (Escalates(w) /\ ~o.cancelled)
<1> DEFINE s == SessionOf[w]
<1>i. PlaneVarsOK /\ LeaseInv /\ OrchInv
  BY DEF PlaneInv
<1>1. s \in Sessions /\ orch[s] \in OrchStates /\ orch[s].present
  BY <1>i, PlaneAssumption DEF PlaneVarsOK, OrchInv
<1>2. OrchChange(s)
  BY <1>1, OrchChanges
<1> HIDE DEF s
<1>3. CASE orch'[s] \in {orch[s], PausedOrch(orch[s]), CancelledOrch(orch[s])}
  BY <1>1, <1>3 DEF PausedOrch, CancelledOrch, OrchStates, s
<1>4. CASE orch'[s] = ResumedOrch(orch[s]) /\ AdmissionOpen'
  BY <1>1, <1>4 DEF ResumedOrch, OrchStates, s
<1>5. ASSUME NEW v \in Works, SessionOf[v] = s, LetIn(v),
             lease[v] # "cancelling" \/ orch[s].cancelled \/ Escalates(v),
             orch'[s] = [orch[s] EXCEPT !.signalled = orch[s].cancelled]
      PROVE  /\ orch[s].cancelled => orch'[s].cancelled
             /\ orch[s].signalled =>
                  orch'[s].signalled \/ (Escalates(w) /\ ~orch[s].cancelled)
  <2>1. v = w
    BY <1>5, <1>i, OneLetIn DEF LetIn, s
  <2> QED BY <1>1, <1>5, <2>1 DEF OrchStates
<1>6. ~(orch'[s] = NoOrchestrator /\ \A v \in Works : SessionOf[v] = s => ~LetIn(v)')
  BY DEF s
<1> QED BY <1>1, <1>2, <1>3, <1>4, <1>5, <1>6 DEF OrchChange, s

\* A step of one work moves no other.
LEMMA StepOfOther ==
  ASSUME PlaneVarsOK, NEW v \in Works, NEW w \in Works, v # w,
         SendInput(v) \/ Delegate(v) \/ TaskStep(v) \/ CallReturns(v)
  PROVE  task'[w] = task[w]
<1>1. \E p : task' = [task EXCEPT ![v] = p]
  <2>1. CASE SendInput(v) \/ Delegate(v)
    BY <2>1 DEF SendInput, Delegate
  <2>2. CASE SendRefused(v) \/ LogInput(v) \/ StartLoop(v)
    BY <2>2 DEF SendRefused, LogInput, StartLoop, GiveUp, Ends, EnterLoop
  <2>3. CASE LoopHead(v) \/ Return(v)
    BY <2>3 DEF LoopHead, Return, GoTo, Returns, Retry, EnterLoop
  <2>4. CASE Gate(v) \/ DelegateGate(v)
    BY <2>4 DEF Gate, DelegateGate, GoTo, Returns, GiveUp, Ends
  <2>5. CASE Record(v) \/ RecordFailure(v) \/ DelegateReturn(v)
    BY <2>5 DEF Record, RecordFailure, DelegateReturn, GoTo, GiveUp, Ends
  <2> QED BY <2>1, <2>2, <2>3, <2>4, <2>5 DEF TaskStep, CallReturns
<1> QED BY <1>1 DEF PlaneVarsOK

\* A work that was refused can only end.
LEMMA RefusedEnds ==
  ASSUME PlaneVarsOK, NEW w \in Works, TaskStep(w) \/ CallReturns(w),
         task[w] = "refused"
  PROVE  task'[w] = "ended"
<1>1. SendRefused(w)
  BY DEF TaskStep, CallReturns, LogInput, StartLoop, LoopHead, Gate,
         DelegateGate, Record, RecordFailure, Return, DelegateReturn
<1> QED BY <1>1 DEF SendRefused, GiveUp, Ends, PlaneVarsOK

LEMMA WatchInductive ==
  ASSUME PlaneInv, PlaneInv', WatchInv, [Next]_vars, Observes
  PROVE  WatchInv'
<1>i. /\ ControlTypeOK /\ PlaneVarsOK /\ LeaseInv /\ PlaceInv /\ OrchInv
      /\ PlaneVarsOK' /\ LeaseInv'
  BY DEF PlaneInv
<1>s. \A w \in Works : SessionOf[w] \in Sessions
  BY PlaneAssumption
<1>o. \A w \in Works : afterStop'[w] = Observed(w)
  BY DEF Observes
<1>1. afterStop' \in [Works -> {"none", "told", "reopened", "escalated"}]
  BY DEF Observes, Observed, WatchInv
<1>2. \A s \in Sessions : orch'[s].cancelled => orch'[s].signalled
  <2> SUFFICES ASSUME NEW s \in Sessions
               PROVE  orch'[s].cancelled => orch'[s].signalled
    OBVIOUS
  <2>1. orch[s] \in OrchStates /\ (orch[s].cancelled => orch[s].signalled)
    BY <1>i DEF WatchInv, PlaneVarsOK
  <2>2. OrchChange(s)
    BY OrchChanges
  <2>3. CASE \/ orch'[s] = PausedOrch(orch[s])
             \/ orch'[s] = CancelledOrch(orch[s])
             \/ orch'[s] = ResumedOrch(orch[s])
    BY <2>1, <2>3 DEF PausedOrch, CancelledOrch, ResumedOrch, OrchStates
  <2>4. CASE orch'[s] = [orch[s] EXCEPT !.signalled = orch[s].cancelled]
    BY <2>1, <2>4 DEF OrchStates
  <2>5. CASE orch'[s] = NoOrchestrator
    BY <2>5 DEF NoOrchestrator
  <2>6. CASE \E open \in BOOLEAN : orch'[s] = NewOrchestrator(open)
    <3>1. PICK open \in BOOLEAN : orch'[s] = NewOrchestrator(open)
      BY <2>6
    <3>2. orch'[s].cancelled = FALSE
      BY <3>1 DEF NewOrchestrator
    <3> QED BY <3>2
  <2>7. CASE orch'[s] = orch[s]
    BY <2>1, <2>7
  <2> QED BY <2>2, <2>3, <2>4, <2>5, <2>6, <2>7 DEF OrchChange
<1>3. ASSUME NEW w \in Works, LetIn(w)', lease'[w] = "cancelling",
             lease[w] # "cancelling"
      PROVE  ~AdmissionOpen' /\ orch'[SessionOf[w]].cancelled
  <2>1. /\ BrakeStop /\ orch' = CancelledByLeases
        /\ UNCHANGED <<task, workKind>>
    <3>1. ~(\E v \in Works : SendInput(v) \/ Delegate(v))
      BY <1>3, <1>i DEF SendInput, Delegate, Acquire, ControlTypeOK
    <3>2. ~(\E v \in Works : TaskStep(v) \/ CallReturns(v))
      BY <1>3, <1>i, WorkEffect DEF Settle, ControlTypeOK, ecVars
    <3>3. ~RestartDaemon
      BY <1>3 DEF RestartDaemon, Restart
    <3>4. ControlStep
      BY <3>1, <3>2, <3>3, StepKinds
    <3>5. ~(ModePause \/ ModeRun \/ BrakeOver)
      <4>1. ~ModePause
        BY <1>3 DEF ModePause, Pause, ecVars
      <4>2. ~ModeRun
        <5>1. ModeRun => lease' \in {lease, Unpaused}
          BY DEF ModeRun, Resume, ClearBrakeAndRun, ecVars
        <5> QED BY <1>3, <5>1 DEF Unpaused
      <4> QED BY <1>3, <4>1, <4>2 DEF BrakeOver, BrakeEnd
    <3>6. ~(\E r \in {"pause", "running"} : SetMode(r))
      BY <1>3 DEF SetMode, ecVars
    <3>7. ~(\E v \in Works : BrakeWait(v)) /\ ~UNCHANGED vars
      BY <1>3 DEF BrakeWait, WaitSettled, WaitTimeout, vars, ecVars
    <3>8. ~(\E x \in Sessions :
               CleanupSession(x) \/ AttachSession(x) \/ InterruptSession(x)
                 \/ ResumeSession(x))
      BY <1>3 DEF CleanupSession, AttachSession, InterruptSession,
                  ResumeSession, ecVars
    <3>9. BrakeAll
      BY <3>4, <3>5, <3>6, <3>7, <3>8 DEF ControlStep
    <3> QED BY <1>3, <3>9 DEF BrakeAll, BrakeAgain, BrakeAgainDegraded,
                              BrakeNotDurable, BrakeIdle, BrakeStop
  <2>2. LetIn(w)
    BY <1>3, <2>1 DEF LetIn, IsTask
  <2>3. lease[w] \in {"running", "paused"}
    BY <1>3, <1>i, <2>1, <2>2
       DEF BrakeStop, Stopped, InRegistry, ControlTypeOK, LeaseStates,
           LeaseInv, TaskNotDetached, LetIn
  <2>4. orch'[SessionOf[w]] = CancelledOrch(orch[SessionOf[w]])
    BY <1>s, <2>1, <2>2, <2>3
       DEF CancelledByLeases, IsSessionTask, LetIn, IsTask
  <2>5. op'.kind = "braking"
    BY <2>1 DEF BrakeStop, Braking, OpState
  <2> QED BY <1>i, <1>s, <2>4, <2>5
          DEF CancelledOrch, OrchStates, PlaneVarsOK, AdmissionOpen
<1>4. ASSUME NEW w \in Works, LetIn(w)', lease'[w] = "cancelling",
             lease[w] = "cancelling"
      PROVE  LetIn(w)
  <2>1. task[w] \notin {"idle", "ended"}
    BY <1>4, <1>i DEF PlaceInv
  <2>2. IsTask(w) /\ task[w] # "refused"
    <3>1. CASE ControlStep
      BY <1>4, <1>i, <3>1, ControlEffect DEF LetIn, IsTask
    <3>2. CASE RestartDaemon
      BY <1>4, <3>2 DEF RestartDaemon, LetIn
    <3>3. ASSUME NEW v \in Works, SendInput(v) \/ Delegate(v)
          PROVE  IsTask(w) /\ task[w] # "refused"
      <4>1. v # w
        BY <2>1, <3>3 DEF SendInput, Delegate
      <4>2. task'[w] = task[w] /\ workKind'[w] = workKind[w]
        BY <1>i, <3>3, <4>1
           DEF SendInput, Delegate, Acquire, PlaneVarsOK, ControlTypeOK
      <4> QED BY <1>4, <4>2 DEF LetIn, IsTask
    <3>4. ASSUME NEW v \in Works, TaskStep(v) \/ CallReturns(v)
          PROVE  IsTask(w) /\ task[w] # "refused"
      <4>1. workKind'[w] = workKind[w]
        BY <1>4, <1>i, <3>4, WorkEffect DEF Settle, ControlTypeOK, ecVars
      <4>2. task[w] = "refused" => task'[w] \in {"refused", "ended"}
        BY <1>i, <3>4, StepOfOther, RefusedEnds
      <4> QED BY <1>4, <4>1, <4>2 DEF LetIn, IsTask
    <3> QED BY <3>1, <3>2, <3>3, <3>4, StepKinds
  <2> QED BY <2>1, <2>2 DEF LetIn
<1>5. ASSUME NEW w \in Works, LetIn(w)', lease'[w] = "cancelling"
      PROVE  /\ afterStop'[w] # "none"
             /\ afterStop'[w] = "told" =>
                  ~AdmissionOpen' /\ orch'[SessionOf[w]].cancelled
             /\ afterStop'[w] = "reopened" => orch'[SessionOf[w]].signalled
  <2> DEFINE o == orch[SessionOf[w]]
             n == orch'[SessionOf[w]]
  <2>1. CASE lease[w] # "cancelling"
    BY <1>3, <1>5, <1>o, <2>1 DEF Observed
  <2>2. CASE lease[w] = "cancelling"
    <3>1. LetIn(w)
      BY <1>4, <1>5, <2>2
    <3>2. /\ afterStop[w] # "none"
          /\ afterStop[w] = "told" => ~AdmissionOpen /\ o.cancelled
          /\ afterStop[w] = "reopened" => o.signalled
          /\ o.cancelled => o.signalled
      BY <1>s, <2>2, <3>1 DEF WatchInv
    <3>3. /\ o.cancelled => n.cancelled \/ AdmissionOpen'
          /\ o.signalled => n.signalled \/ (Escalates(w) /\ ~o.cancelled)
      BY <1>i, <1>5, <2>2, <3>1, FlagsKept
    <3>4. n.cancelled => n.signalled
      BY <1>2, <1>s
    <3> QED BY <1>o, <1>5, <2>2, <3>2, <3>3, <3>4, Zenon
            DEF Observed, CancelledNext
  <2> QED BY <2>1, <2>2
<1> QED BY <1>1, <1>2, <1>5 DEF WatchInv

HistoryInv == PlaneInv /\ WatchInv

LEMMA HistoryInvInitially == HistoryInit => HistoryInv
<1> SUFFICES ASSUME HistoryInit PROVE HistoryInv
  OBVIOUS
<1>1. \A s \in Sessions : ~orch[s].cancelled
  BY DEF HistoryInit, Init, NewOrchestrator
<1>2. \A w \in Works : lease[w] = "none"
  BY DEF HistoryInit, Init, ECInit
<1> QED BY <1>1, <1>2, PlaneInvInitially DEF HistoryInit, HistoryInv, WatchInv

LEMMA HistoryInvInductive ==
  HistoryInv /\ [HistoryNext]_historyVars => HistoryInv'
<1> SUFFICES ASSUME HistoryInv, [HistoryNext]_historyVars PROVE HistoryInv'
  OBVIOUS
<1>1. PlaneInv'
  BY PlaneInvInductive DEF HistoryInv, HistoryNext, historyVars
<1>2. CASE HistoryNext
  BY <1>1, <1>2, WatchInductive DEF HistoryInv, HistoryNext
<1>3. CASE UNCHANGED historyVars
  <2>1. UNCHANGED <<afterStop, orch, lease, task, workKind, op>>
    BY <1>3 DEF historyVars, vars, ecVars, spVars
  <2> QED BY <1>1, <2>1 DEF HistoryInv, WatchInv, LetIn, IsTask, AdmissionOpen
<1> QED BY <1>2, <1>3

\* afterStop prevents nothing: a behaviour with it is one of the plane.
THEOREM HistoryIsPlane == HistorySpec => Spec
<1>1. HistoryInit => Init
  BY DEF HistoryInit
<1>2. [HistoryNext]_historyVars => [Next]_vars
  BY DEF HistoryNext, historyVars
<1> QED BY <1>1, <1>2, PTL DEF HistorySpec, Spec

\* No call of a provider, a tool or a bridge begins but for a work whose lease
\* runs, in a daemon that is not paused, braking or braked, and for one that
\* escalated after its stop was followed by a reopened admission
\* (agent-loop.ts:146, Orchestrator.ts:257 and 426).
THEOREM StoppedMakesNoCall == HistorySpec => NoCallAfterStop
<1> DEFINE Justified(w) ==
      \/ /\ lease'[w] = "running"
         /\ op'.kind \notin {"paused", "braking", "braked"}
      \/ afterStop[w] = "escalated"
<1>1. ASSUME HistoryInv, NEW w \in Works, Gate(w) \/ DelegateGate(w),
             StartsCall(w)
      PROVE  Justified(w)
  <2>i. /\ ControlTypeOK /\ PlaneVarsOK /\ LeaseInv /\ PlaceInv /\ StopInv
        /\ HoldInv /\ OrchInv /\ WatchInv
    BY <1>1 DEF HistoryInv, PlaneInv
  <2>1. UNCHANGED ecVars
    BY <1>1, <2>i DEF StartsCall, Gate, DelegateGate, Returns, GoTo, GiveUp,
                      Ends, PlaneVarsOK
  <2>2. CooperativePause(w)
    BY <1>1 DEF Gate, DelegateGate, IsSessionTask, IsAgentDelegate,
                AgentDelegates, CooperativePause
  <2>3. lease[w] \in {"running", "paused", "cancelling"}
    BY <1>1, <2>2, <2>i DEF PlaceInv, StopInv, ControlTypeOK, LeaseStates,
                            Gate, DelegateGate
  <2>4. lease[w] = "running" => op.kind \notin {"paused", "braking", "braked"}
    BY <2>2, <2>i DEF HoldInv, StopInv
  <2>5. CASE Gate(w)
    <3> DEFINE o == orch[SessionOf[w]]
    <3>1. ~o.signalled /\ ~o.paused
      BY <1>1, <2>5, <2>i DEF StartsCall, Gate, Returns, PlaneVarsOK
    <3>2. LetIn(w)
      BY <2>5 DEF Gate, LetIn, IsTask, IsSessionTask
    <3>3. lease[w] # "paused"
      BY <3>1, <3>2, <2>i DEF OrchInv
    <3>4. o.cancelled => o.signalled
      BY <2>i, PlaneAssumption DEF WatchInv
    <3>5. lease[w] = "cancelling" => afterStop[w] = "escalated"
      BY <3>1, <3>2, <3>4, <2>i DEF WatchInv
    <3> QED BY <2>1, <2>3, <2>4, <3>3, <3>5 DEF ecVars
  <2>6. CASE DelegateGate(w)
    <3>1. ~Aborted(w) /\ lease[w] # "paused"
      BY <1>1, <2>6, <2>i DEF StartsCall, DelegateGate, GiveUp, Ends, PlaneVarsOK
    <3> QED BY <2>1, <2>3, <2>4, <3>1 DEF Aborted, ecVars
  <2> QED BY <1>1, <2>5, <2>6
<1>2. ASSUME HistoryInv, NEW w \in Works, Delegate(w) PROVE Justified(w)
  BY <1>2 DEF Delegate, Acquire, AdmissionOpen, HistoryInv, PlaneInv,
              ControlTypeOK
<1>3. ASSUME HistoryInv, [Next]_vars, NEW w \in Works, StartsCall(w)
      PROVE  Gate(w) \/ DelegateGate(w) \/ Delegate(w)
  <2>i. ControlTypeOK /\ PlaneVarsOK /\ LeaseInv /\ PlaceInv
    BY <1>3 DEF HistoryInv, PlaneInv
  <2>1. task[w] # "calling" /\ task'[w] = "calling"
    BY <1>3 DEF StartsCall
  <2>2. ~ControlStep
    BY <2>1, <2>i, ControlEffect
  <2>3. ~RestartDaemon
    BY <2>1 DEF RestartDaemon
  <2>4. ASSUME NEW v \in Works, v # w,
               SendInput(v) \/ Delegate(v) \/ TaskStep(v) \/ CallReturns(v)
        PROVE  FALSE
    BY <2>1, <2>4, <2>i, StepOfOther
  <2>5. ~SendInput(w)
    BY <2>1, <2>i DEF SendInput, PlaneVarsOK
  <2>6. ~SendRefused(w) /\ ~LogInput(w) /\ ~StartLoop(w)
    BY <2>1, <2>i DEF SendRefused, LogInput, StartLoop, GiveUp, Ends,
                      EnterLoop, PlaneVarsOK
  <2>7. ~LoopHead(w) /\ ~CallReturns(w)
    <3>1. ~LoopHead(w)
      BY <2>1, <2>i DEF LoopHead, GoTo, Returns, Retry, EnterLoop, PlaneVarsOK
    <3> QED BY <2>1, <3>1 DEF CallReturns, Return, DelegateReturn
  <2>8. ~Record(w) /\ ~RecordFailure(w)
    BY <2>1, <2>i DEF Record, RecordFailure, GoTo, Ends, PlaneVarsOK
  <2> QED BY <1>3, <2>2, <2>3, <2>4, <2>5, <2>6, <2>7, <2>8, StepKinds
          DEF TaskStep
<1>4. HistoryInv /\ [HistoryNext]_historyVars =>
        [\A w \in Works : StartsCall(w) => Justified(w)]_historyVars
  <2> SUFFICES ASSUME HistoryInv, HistoryNext, NEW w \in Works, StartsCall(w)
               PROVE  Justified(w)
    BY DEF HistoryNext
  <2> QED BY <1>1, <1>2, <1>3 DEF HistoryNext
<1> QED BY HistoryInvInitially, HistoryInvInductive, <1>4, PTL
        DEF HistorySpec, NoCallAfterStop
=============================================================================
