---------------------------- MODULE HeadlessDaemon ----------------------------
(***************************************************************************)
(* startHeadlessDaemon: the RPC server, the scheduler driver and the two   *)
(* SQLite stores under DaemonShutdownCoordinator.  The coordinator closes  *)
(* what it owns in a fixed order, gives each step a bound, and keeps a     *)
(* store open when it has no proof that nobody uses it any more.           *)
(*                                                                         *)
(* A step of the coordinator may end by its bound whatever it waits for,   *)
(* and the watchdog may fire during any step: the bounds of the steps add  *)
(* up to more than the watchdog's.  The instants are left out.             *)
(***************************************************************************)
EXTENDS SchedulerDriver

CONSTANTS MaxInFlightRpc  \* bound of the RPC handlers running at once

ASSUME RpcAssumption == MaxInFlightRpc \in Nat \ {0}

VARIABLES
  acceptingRpc, inFlightRpc,        \* DaemonServer
  stage,                            \* the step requestShutdown is in
  serverStopped, schedulerStopped,  \* what the coordinator has proof of
  failed,
  storageOpen, missionStoreOpen,
  exit                              \* "no", or the exit code

serverVars == <<acceptingRpc, inFlightRpc>>
shutdownVars == <<stage, serverStopped, schedulerStopped, failed>>
storeVars == <<storageOpen, missionStoreOpen>>
daemonVars == <<driverVars, serverVars, shutdownVars, storeVars, exit>>

Stages == {"none", "server", "scheduler", "storage", "mission_store", "auth", "finish"}

TypeOK ==
  /\ DriverTypeOK
  /\ inFlightRpc \in 0..MaxInFlightRpc
  /\ stage \in Stages
  /\ acceptingRpc \in BOOLEAN /\ failed \in BOOLEAN
  /\ serverStopped \in BOOLEAN /\ schedulerStopped \in BOOLEAN
  /\ storageOpen \in BOOLEAN /\ missionStoreOpen \in BOOLEAN
  /\ exit \in {"no", "zero", "nonzero"}

Init ==
  /\ DriverInit
  /\ acceptingRpc = TRUE /\ inFlightRpc = 0
  /\ stage = "none"
  /\ serverStopped = FALSE /\ schedulerStopped = FALSE /\ failed = FALSE
  /\ storageOpen = TRUE /\ missionStoreOpen = TRUE
  /\ exit = "no"

(* The process is there, and this step does not end it. *)
Alive == exit = "no" /\ UNCHANGED exit

-----------------------------------------------------------------------------
(* The server, its handlers and the driver.  Signals and RPC are served    *)
(* before the driver is started, so start() may come during shutdown.      *)

AcceptRpc ==
  /\ Alive
  /\ acceptingRpc /\ inFlightRpc < MaxInFlightRpc
  /\ inFlightRpc' = inFlightRpc + 1
  /\ UNCHANGED <<driverVars, acceptingRpc, shutdownVars, storeVars>>

(* Slip: a handler and its response are both counted out. *)
RpcSettlesTwice ==
  /\ Alive
  /\ inFlightRpc' = inFlightRpc - 1
  /\ UNCHANGED <<driverVars, acceptingRpc, shutdownVars, storeVars>>

RpcSettles ==
  /\ Alive
  /\ inFlightRpc > 0
  /\ inFlightRpc' = inFlightRpc - 1
  /\ UNCHANGED <<driverVars, acceptingRpc, shutdownVars, storeVars>>

(* A handler or the running pass commits to the MissionStore. *)
Commit ==
  /\ Alive
  /\ missionStoreOpen
  /\ inFlightRpc > 0 \/ drain = "pass"
  /\ Mutation \/ DelayRetry
  /\ UNCHANGED <<serverVars, shutdownVars, storeVars>>

(* A step of the driver, with everything else left alone. *)
Drive(A) == Alive /\ A /\ UNCHANGED <<serverVars, shutdownVars, storeVars>>

DrainLoop == Drive(BeginPass) \/ Drive(LeaveLoop) \/ Drive(PassReturns) \/ Drive(PassFails)

-----------------------------------------------------------------------------
(* DaemonShutdownCoordinator. *)

RequestShutdown ==
  /\ Alive
  /\ stage = "none"
  /\ stage' = "server"
  /\ acceptingRpc' = FALSE
  /\ UNCHANGED <<driverVars, inFlightRpc, serverStopped, schedulerStopped, failed, storeVars>>

(* server.stop() resolves after the drain, or throws, or runs out of time; *)
(* stopMissionScheduler is called either way.                              *)
StopServer(ok) ==
  /\ Alive
  /\ stage = "server"
  /\ ok => inFlightRpc = 0
  /\ serverStopped' = ok
  /\ failed' = (failed \/ ~ok)
  /\ stage' = "scheduler"
  /\ StopDriver
  /\ UNCHANGED <<serverVars, schedulerStopped, storeVars>>

(* Slip: the wait for the drain has no bound. *)
StopSchedulerUnbounded(ok) ==
  /\ Alive
  /\ stage = "scheduler"
  /\ ok /\ stopped
  /\ schedulerStopped' = TRUE
  /\ stage' = "storage"
  /\ UNCHANGED <<driverVars, serverVars, serverStopped, failed, storeVars>>

StopScheduler(ok) ==
  /\ Alive
  /\ stage = "scheduler"
  /\ ok => stopped
  /\ schedulerStopped' = ok
  /\ failed' = (failed \/ ~ok)
  /\ stage' = "storage"
  /\ UNCHANGED <<driverVars, serverVars, serverStopped, storeVars>>

(* Slip: a storage that did not close is not a failure. *)
CloseStorageLeniently(ok) ==
  /\ Alive
  /\ stage = "storage"
  /\ ok => serverStopped
  /\ storageOpen' = IF serverStopped /\ ok THEN FALSE ELSE storageOpen
  /\ stage' = "mission_store"
  /\ UNCHANGED <<driverVars, serverVars, serverStopped, schedulerStopped, failed,
                 missionStoreOpen>>

CloseStorage(ok) ==
  /\ Alive
  /\ stage = "storage"
  /\ ok => serverStopped
  /\ storageOpen' = IF serverStopped /\ ok THEN FALSE ELSE storageOpen
  /\ failed' = (failed \/ ~ok)
  /\ stage' = "mission_store"
  /\ UNCHANGED <<driverVars, serverVars, serverStopped, schedulerStopped, missionStoreOpen>>

(* Slip: the scheduler drain is not a condition. *)
CloseMissionStoreEarly(ok) ==
  /\ Alive
  /\ stage = "mission_store"
  /\ ok => serverStopped
  /\ missionStoreOpen' = IF ok THEN FALSE ELSE missionStoreOpen
  /\ failed' = (failed \/ ~ok)
  /\ stage' = "auth"
  /\ UNCHANGED <<driverVars, serverVars, serverStopped, schedulerStopped, storageOpen>>

CloseMissionStore(ok) ==
  /\ Alive
  /\ stage = "mission_store"
  /\ ok => serverStopped /\ schedulerStopped
  /\ missionStoreOpen' = IF ok THEN FALSE ELSE missionStoreOpen
  /\ failed' = (failed \/ ~ok)
  /\ stage' = "auth"
  /\ UNCHANGED <<driverVars, serverVars, serverStopped, schedulerStopped, storageOpen>>

CloseLocalControlAuth(ok) ==
  /\ Alive
  /\ stage = "auth"
  /\ failed' = (failed \/ ~ok)
  /\ stage' = "finish"
  /\ UNCHANGED <<driverVars, serverVars, serverStopped, schedulerStopped, storeVars>>

Finish ==
  /\ exit = "no"
  /\ stage = "finish"
  /\ exit' = IF failed THEN "nonzero" ELSE "zero"
  /\ UNCHANGED <<driverVars, serverVars, shutdownVars, storeVars>>

Watchdog ==
  /\ exit = "no"
  /\ stage \notin {"none", "finish"}
  /\ exit' = "nonzero"
  /\ UNCHANGED <<driverVars, serverVars, shutdownVars, storeVars>>

CoordinatorStep ==
  \E ok \in BOOLEAN :
    \/ StopServer(ok) \/ StopScheduler(ok) \/ CloseStorage(ok)
    \/ CloseMissionStore(ok) \/ CloseLocalControlAuth(ok)

Next ==
  \/ AcceptRpc \/ RpcSettles \/ Commit
  \/ Drive(StartDriver) \/ DrainLoop \/ Drive(Settle) \/ Drive(TimerFires)
  \/ Drive(StopResolves) \/ Drive(Tick)
  \/ RequestShutdown \/ CoordinatorStep \/ Finish \/ Watchdog

(* The bounds of the coordinator's steps are timers: a step ends, whatever *)
(* it waits for.  The drain loop runs on promises that resolve, and the    *)
(* timer queue runs what is due.  A pass is assumed to end, one way or the *)
(* other: connectors answer or throw.                                      *)
Fairness ==
  /\ WF_daemonVars(CoordinatorStep)
  /\ WF_daemonVars(Finish)
  /\ WF_daemonVars(DrainLoop)
  /\ WF_daemonVars(Drive(Settle))
  /\ WF_daemonVars(Drive(TimerFires))
  /\ WF_daemonVars(Drive(Tick))

Spec == Init /\ [][Next]_daemonVars /\ Fairness

-----------------------------------------------------------------------------
(* No store is closed under its users: a closed MissionStore means that no *)
(* scheduler pass and no RPC handler is running or can still start, and a  *)
(* closed daemon storage that no handler is, although start() may come     *)
(* late and every wait of the coordinator may have been cut short.         *)
StoresClosedQuietly ==
  /\ ~missionStoreOpen => inFlightRpc = 0 /\ drain # "pass"
  /\ ~storageOpen => inFlightRpc = 0

(* Exit code zero is a claim that everything was drained and closed. *)
ZeroMeansClean ==
  exit = "zero" => /\ ~storageOpen /\ ~missionStoreOpen
                   /\ inFlightRpc = 0 /\ drain = "none" /\ timer = NoTime

(* After stop() has resolved the driver is dead: no late start(), no timer *)
(* and no settling promise brings a pass back.                             *)
QuietAfterStop == [][stopped => drain' = "none" /\ timer' = NoTime]_daemonVars

(* A requested shutdown ends the process even when a handler or a pass     *)
(* never does.                                                             *)
ShutdownEnds == stage = "server" ~> exit # "no"

(* No wake-up is lost between the drain loop, its failure handler and its  *)
(* finally handler: a committed scheduling mutation is followed by a pass, *)
(* unless the driver is stopped or has reported a failed pass since.       *)
WakeHeard == unheard ~> (~unheard \/ stopping \/ diagnosed \/ exit # "no")

(* An armed timer ends in a pass: whoever clears it asks for one. *)
TimerHonoured == timer # NoTime ~> (drain = "pass" \/ stopping \/ exit # "no")

(* FAILURE_DOMAINS: a committed Mission mutation "wakes the driver for     *)
(* another pass".                                                          *)
EveryMutationHeard == unheard ~> (~unheard \/ stopping \/ exit # "no")
=============================================================================
