------------------------- MODULE HeadlessDaemonProofs -------------------------
(***************************************************************************)
(* Proofs about HeadlessDaemon, for any clock bound and any number of RPC  *)
(* handlers.                                                               *)
(***************************************************************************)
EXTENDS HeadlessDaemon, TLAPS

(* stop() leaves nothing that could bring a pass back. *)
DriverQuiet ==
  /\ stopped => stopping /\ drain = "none"
  /\ stopping => ~wakePending /\ timer = NoTime

(* What the coordinator believes is so, and it closes a store only on it.  *)
ProofsHold ==
  /\ stage # "none" => ~acceptingRpc
  /\ serverStopped => ~acceptingRpc /\ inFlightRpc = 0
  /\ schedulerStopped => stopped
  /\ ~storageOpen => serverStopped
  /\ ~missionStoreOpen => serverStopped /\ schedulerStopped
  /\ stage \in {"none", "server"} => ~serverStopped /\ storageOpen /\ missionStoreOpen
  /\ stage \in {"none", "server", "scheduler"} => ~schedulerStopped

(* A shutdown that has not failed has closed what it passed. *)
ClosedSoFar ==
  /\ stage \in {"mission_store", "auth", "finish"} /\ ~failed => ~storageOpen
  /\ stage \in {"auth", "finish"} /\ ~failed => ~missionStoreOpen
  /\ exit = "zero" => stage = "finish" /\ ~failed

DaemonInv == TypeOK /\ DriverQuiet /\ ProofsHold /\ ClosedSoFar

-----------------------------------------------------------------------------
(* The daemon starts with everything open and nothing stopped. *)
LEMMA DaemonInvInit == Init => DaemonInv
<1> SUFFICES ASSUME Init PROVE DaemonInv
  OBVIOUS
<1>1. DriverTypeOK
  <2>1. 0 \in Times
    BY MaxTimeAssumption DEF Times
  <2>2. QED
    BY <2>1 DEF Init, DriverInit, DriverTypeOK, DrainStates
<1>2. TypeOK
  <2>1. 0 \in 0..MaxInFlightRpc
    BY RpcAssumption
  <2>2. QED
    BY <1>1, <2>1 DEF Init, TypeOK, Stages
<1>3. DriverQuiet /\ ProofsHold /\ ClosedSoFar
  BY DEF Init, DriverInit, DriverQuiet, ProofsHold, ClosedSoFar
<1>4. QED
  BY <1>2, <1>3 DEF DaemonInv

(* The driver's own steps keep its types and its silence after stop(). *)
LEMMA DriverStep ==
  ASSUME DriverTypeOK, DriverQuiet,
         \/ StartDriver \/ BeginPass \/ LeaveLoop \/ PassReturns \/ PassFails \/ Settle
         \/ TimerFires \/ StopResolves \/ Tick \/ Mutation \/ DelayRetry
  PROVE  DriverTypeOK' /\ DriverQuiet' /\ (stopped => stopped')
<1>1. CASE StartDriver
  BY <1>1 DEF StartDriver, RequestWake, DriverTypeOK, DriverQuiet, DrainStates
<1>2. CASE TimerFires
  BY <1>2 DEF TimerFires, RequestWake, DriverTypeOK, DriverQuiet, DrainStates
<1>3. CASE Mutation
  BY <1>3 DEF Mutation, RequestWake, DriverTypeOK, DriverQuiet, DrainStates
<1>4. CASE BeginPass
  BY <1>4 DEF BeginPass, DriverTypeOK, DriverQuiet, DrainStates
<1>5. CASE LeaveLoop
  BY <1>5 DEF LeaveLoop, DriverTypeOK, DriverQuiet, DrainStates
<1>6. CASE PassReturns
  BY <1>6 DEF PassReturns, Dispatched, DriverTypeOK, DriverQuiet, DrainStates
<1>7. CASE PassFails
  BY <1>7 DEF PassFails, DriverTypeOK, DriverQuiet, DrainStates
<1>8. CASE Settle
  BY <1>8 DEF Settle, DriverTypeOK, DriverQuiet, DrainStates
<1>9. CASE StopResolves
  BY <1>9 DEF StopResolves, DriverTypeOK, DriverQuiet, DrainStates
<1>10. CASE DelayRetry
  BY <1>10 DEF DelayRetry, DriverTypeOK, DriverQuiet, DrainStates
<1>11. CASE Tick
  BY <1>11, MaxTimeAssumption DEF Tick, DriverTypeOK, DriverQuiet, Times
<1>12. QED
  BY <1>1, <1>2, <1>3, <1>4, <1>5, <1>6, <1>7, <1>8, <1>9, <1>10, <1>11

(* With everything else left alone the daemon keeps its invariant. *)
LEMMA DriveStep ==
  ASSUME DaemonInv, UNCHANGED <<serverVars, shutdownVars, storeVars, exit>>,
         \/ StartDriver \/ BeginPass \/ LeaveLoop \/ PassReturns \/ PassFails \/ Settle
         \/ TimerFires \/ StopResolves \/ Tick \/ Mutation \/ DelayRetry
  PROVE  DaemonInv' /\ (stopped => stopped')
<1>1. DriverTypeOK' /\ DriverQuiet' /\ (stopped => stopped')
  BY DriverStep DEF DaemonInv, TypeOK
<1>2. QED
  BY <1>1 DEF serverVars, shutdownVars, storeVars, DaemonInv, TypeOK, ProofsHold, ClosedSoFar

-----------------------------------------------------------------------------
(* The driver as the coordinator leaves it. *)
LEMMA SameDriver ==
  ASSUME DriverTypeOK, DriverQuiet, UNCHANGED driverVars
  PROVE  DriverTypeOK' /\ DriverQuiet' /\ stopped' = stopped /\ drain' = drain
BY DEF driverVars, DriverTypeOK, DriverQuiet

(* The RPC server's steps touch no store and no proof. *)
LEMMA ServerStep ==
  ASSUME DaemonInv, AcceptRpc \/ RpcSettles
  PROVE  DaemonInv' /\ (stopped => stopped')
<1>1. DriverTypeOK' /\ DriverQuiet' /\ stopped' = stopped
  BY SameDriver DEF DaemonInv, TypeOK, AcceptRpc, RpcSettles
<1>2. inFlightRpc' \in 0..MaxInFlightRpc
  BY RpcAssumption DEF DaemonInv, TypeOK, AcceptRpc, RpcSettles
<1>3. CASE AcceptRpc
  BY <1>1, <1>2, <1>3 DEF AcceptRpc, Alive, shutdownVars, storeVars, DaemonInv, TypeOK,
                          ProofsHold, ClosedSoFar
<1>4. CASE RpcSettles
  <2>1. ~serverStopped
    BY <1>4, RpcAssumption DEF RpcSettles, DaemonInv, TypeOK, ProofsHold
  <2>2. QED
    BY <1>1, <1>2, <1>4, <2>1 DEF RpcSettles, Alive, shutdownVars, storeVars, DaemonInv,
                                  TypeOK, ProofsHold, ClosedSoFar
<1>5. QED
  BY <1>3, <1>4

(* A shutdown begins by closing the door. *)
LEMMA RequestShutdownStep ==
  ASSUME DaemonInv, RequestShutdown PROVE DaemonInv' /\ (stopped => stopped')
<1>1. DriverTypeOK' /\ DriverQuiet' /\ stopped' = stopped
  BY SameDriver DEF DaemonInv, TypeOK, RequestShutdown
<1>2. QED
  BY <1>1 DEF RequestShutdown, Alive, storeVars, DaemonInv, TypeOK, Stages, ProofsHold,
              ClosedSoFar

(* The server's proof is a drained server; the driver is told either way. *)
LEMMA StopServerStep ==
  ASSUME DaemonInv, NEW ok \in BOOLEAN, StopServer(ok)
  PROVE  DaemonInv' /\ (stopped => stopped')
<1>1. DriverTypeOK' /\ DriverQuiet' /\ stopped' = stopped
  BY DEF StopServer, StopDriver, DaemonInv, TypeOK, DriverTypeOK, DriverQuiet
<1>2. TypeOK'
  BY <1>1 DEF StopServer, Alive, serverVars, storeVars, DaemonInv, TypeOK, Stages
<1>3. ProofsHold' /\ ClosedSoFar'
  BY DEF StopServer, Alive, StopDriver, serverVars, storeVars, DaemonInv, ProofsHold,
         ClosedSoFar
<1>4. QED
  BY <1>1, <1>2, <1>3 DEF DaemonInv

(* The other steps of the coordinator change no part of the system but the *)
(* store they close, and close it on the proofs they ask for.              *)
LEMMA CoordinatorKeeps ==
  ASSUME DaemonInv, NEW ok \in BOOLEAN,
         \/ StopScheduler(ok) \/ CloseStorage(ok) \/ CloseMissionStore(ok)
         \/ CloseLocalControlAuth(ok)
  PROVE  DaemonInv' /\ (stopped => stopped')
<1>1. DriverTypeOK' /\ DriverQuiet' /\ stopped' = stopped
  BY SameDriver DEF DaemonInv, TypeOK, StopScheduler, CloseStorage, CloseMissionStore,
                    CloseLocalControlAuth
<1>2. CASE StopScheduler(ok)
  BY <1>1, <1>2 DEF StopScheduler, Alive, serverVars, storeVars, DaemonInv, TypeOK, Stages,
                    ProofsHold, ClosedSoFar
<1>3. CASE CloseStorage(ok)
  BY <1>1, <1>3 DEF CloseStorage, Alive, serverVars, DaemonInv, TypeOK, Stages,
                    ProofsHold, ClosedSoFar
<1>4. CASE CloseMissionStore(ok)
  BY <1>1, <1>4 DEF CloseMissionStore, Alive, serverVars, DaemonInv, TypeOK, Stages,
                    ProofsHold, ClosedSoFar
<1>5. CASE CloseLocalControlAuth(ok)
  BY <1>1, <1>5 DEF CloseLocalControlAuth, Alive, serverVars, storeVars, DaemonInv, TypeOK,
                    Stages, ProofsHold, ClosedSoFar
<1>6. QED
  BY <1>2, <1>3, <1>4, <1>5

(* The process ends. *)
LEMMA EndStep ==
  ASSUME DaemonInv, Finish \/ Watchdog PROVE DaemonInv' /\ (stopped => stopped')
<1>1. DriverTypeOK' /\ DriverQuiet' /\ stopped' = stopped
  BY SameDriver DEF DaemonInv, TypeOK, Finish, Watchdog
<1>2. CASE Finish
  BY <1>1, <1>2 DEF Finish, serverVars, shutdownVars, storeVars, DaemonInv, TypeOK,
                    ProofsHold, ClosedSoFar
<1>3. CASE Watchdog
  BY <1>1, <1>3 DEF Watchdog, serverVars, shutdownVars, storeVars, DaemonInv, TypeOK,
                    ProofsHold, ClosedSoFar
<1>4. QED
  BY <1>2, <1>3

-----------------------------------------------------------------------------
(* Every step keeps the invariant, and stop() stays resolved. *)
LEMMA DaemonStep ==
  ASSUME DaemonInv, [Next]_daemonVars PROVE DaemonInv' /\ (stopped => stopped')
<1>1. CASE Next
  <2>1. CASE AcceptRpc \/ RpcSettles
    BY <2>1, ServerStep
  <2>2. CASE \/ Commit \/ Drive(StartDriver) \/ DrainLoop \/ Drive(Settle)
             \/ Drive(TimerFires) \/ Drive(StopResolves) \/ Drive(Tick)
    BY <2>2, DriveStep DEF Commit, DrainLoop, Drive, Alive
  <2>3. CASE RequestShutdown \/ CoordinatorStep
    BY <2>3, RequestShutdownStep, StopServerStep, CoordinatorKeeps DEF CoordinatorStep
  <2>4. CASE Finish \/ Watchdog
    BY <2>4, EndStep
  <2>5. QED
    BY <1>1, <2>1, <2>2, <2>3, <2>4 DEF Next
<1>2. CASE UNCHANGED daemonVars
  <2>1. DriverTypeOK' /\ DriverQuiet' /\ stopped' = stopped
    BY <1>2, SameDriver DEF daemonVars, DaemonInv, TypeOK
  <2>2. QED
    BY <1>2, <2>1 DEF daemonVars, serverVars, shutdownVars, storeVars, DaemonInv, TypeOK,
                      ProofsHold, ClosedSoFar
<1>3. QED
  BY <1>1, <1>2

(* The coordinator's beliefs are facts in every reachable state. *)
THEOREM DaemonInvariant == Spec => []DaemonInv
BY DaemonInvInit, DaemonStep, PTL DEF Spec

(* Type correctness of driver, server and coordinator. *)
THEOREM DaemonTypes == Spec => []TypeOK
<1>1. DaemonInv => TypeOK
  BY DEF DaemonInv
<1>2. QED
  BY <1>1, DaemonInvariant, PTL

(* closeMissionStore and closeStorage run only when nobody uses the store, *)
(* whichever waits were cut short and however late start() comes.          *)
THEOREM ClosedQuietly == Spec => []StoresClosedQuietly
<1>1. DaemonInv => StoresClosedQuietly
  BY DEF DaemonInv, DriverQuiet, ProofsHold, StoresClosedQuietly
<1>2. QED
  BY <1>1, DaemonInvariant, PTL

(* The coordinator exits with zero only after everything was drained. *)
THEOREM ExitZeroIsClean == Spec => []ZeroMeansClean
<1>1. DaemonInv => ZeroMeansClean
  BY DEF DaemonInv, DriverQuiet, ProofsHold, ClosedSoFar, ZeroMeansClean
<1>2. QED
  BY <1>1, DaemonInvariant, PTL

(* A driver whose stop() has resolved never runs a pass again. *)
THEOREM QuietForGood == Spec => QuietAfterStop
<1>1. DaemonInv /\ [Next]_daemonVars => [stopped => drain' = "none" /\ timer' = NoTime]_daemonVars
  BY DaemonStep DEF DaemonInv, DriverQuiet
<1>2. QED
  BY <1>1, DaemonInvariant, PTL DEF Spec, QuietAfterStop
=============================================================================
