---------------------------- MODULE SchedulerDriver ----------------------------
(***************************************************************************)
(* MissionSchedulerDriver: the resident owner of wake-ups for the one-shot *)
(* MissionScheduler.  Wake requests come from start(), from mutations the  *)
(* MissionStore publishes and from one timer; they coalesce in wakePending *)
(* and a single drain loop serves them.                                    *)
(*                                                                         *)
(* A pass is what the driver sees of runOnce(): it reads the clock when it *)
(* starts, dispatches the retry that is due then, and answers with the     *)
(* nextWakeAt it finds at the end.  Mutations are only those               *)
(* isSchedulingMutation lets through; the others change nothing here.      *)
(***************************************************************************)
EXTENDS Naturals

CONSTANTS
  MaxTime,  \* bound of the clock
  NoTime

ASSUME MaxTimeAssumption == MaxTime \in Nat /\ NoTime \notin Nat

VARIABLES
  started, stopping,
  wakePending,
  drain,      \* where the drain loop is; "none" when drainPromise is null
  stopped,    \* stop() has resolved
  timer,      \* instant of the armed wakeTimer
  now,        \* the clock
  passNow,    \* the clock as the current pass read it
  retryAt,    \* the earliest nextEligibleAt in the store
  unheard,    \* history: a mutation no pass has started after
  diagnosed   \* history: a pass has failed since the last mutation

driverVars == <<started, stopping, wakePending, drain, stopped, timer, now,
                passNow, retryAt, unheard, diagnosed>>

DrainStates == {"none", "queued", "pass", "settling"}
Times == 0..MaxTime

DriverTypeOK ==
  /\ started \in BOOLEAN /\ stopping \in BOOLEAN /\ stopped \in BOOLEAN
  /\ wakePending \in BOOLEAN /\ unheard \in BOOLEAN /\ diagnosed \in BOOLEAN
  /\ drain \in DrainStates
  /\ now \in Times /\ passNow \in Times
  /\ timer \in Times \cup {NoTime} /\ retryAt \in Times \cup {NoTime}

DriverInit ==
  /\ started = FALSE /\ stopping = FALSE /\ stopped = FALSE
  /\ wakePending = FALSE /\ drain = "none"
  /\ timer = NoTime /\ now = 0 /\ passNow = 0 /\ retryAt = NoTime
  /\ unheard = FALSE /\ diagnosed = FALSE

-----------------------------------------------------------------------------
RequestWake ==
  /\ timer' = NoTime
  /\ wakePending' = TRUE
  /\ drain' = IF drain = "none" THEN "queued" ELSE drain

(* Slip: a start() that comes after stop() is served. *)
StartLate ==
  /\ ~started
  /\ started' = TRUE
  /\ RequestWake
  /\ UNCHANGED <<stopping, stopped, now, passNow, retryAt, unheard, diagnosed>>

StartDriver ==
  /\ ~started /\ ~stopping
  /\ started' = TRUE
  /\ RequestWake
  /\ UNCHANGED <<stopping, stopped, now, passNow, retryAt, unheard, diagnosed>>

(* The store publishes a committed mutation; `at' is the retry time the    *)
(* same commit leaves behind, if it is the earliest.                       *)
Mutation ==
  /\ IF started /\ ~stopping
       THEN RequestWake /\ unheard' = TRUE /\ diagnosed' = FALSE
       ELSE UNCHANGED <<timer, wakePending, drain, unheard, diagnosed>>
  /\ UNCHANGED <<started, stopping, stopped, now, passNow, retryAt>>

(* prepareInvocationRetry with a backoff: an update, which wakes nobody. *)
DelayRetry ==
  /\ retryAt = NoTime
  /\ retryAt' \in {t \in Times : t > now}
  /\ UNCHANGED <<started, stopping, wakePending, drain, stopped, timer, now,
                 passNow, unheard, diagnosed>>

BeginPass ==
  /\ drain = "queued" /\ wakePending /\ ~stopping
  /\ drain' = "pass"
  /\ wakePending' = FALSE
  /\ passNow' = now
  /\ unheard' = FALSE
  /\ UNCHANGED <<started, stopping, stopped, timer, now, retryAt, diagnosed>>

LeaveLoop ==
  /\ drain = "queued" /\ (~wakePending \/ stopping)
  /\ drain' = "settling"
  /\ UNCHANGED <<started, stopping, wakePending, stopped, timer, now, passNow,
                 retryAt, unheard, diagnosed>>

Dispatched == IF retryAt # NoTime /\ retryAt <= passNow THEN NoTime ELSE retryAt

(* scheduleWake arms nothing for an instant the clock has passed. *)
PassReturns ==
  /\ drain = "pass"
  /\ retryAt' = Dispatched
  /\ IF wakePending \/ stopping
       THEN drain' = "queued" /\ UNCHANGED timer
       ELSE /\ drain' = "settling"
            /\ timer' = IF Dispatched # NoTime /\ Dispatched > now THEN Dispatched ELSE timer
  /\ UNCHANGED <<started, stopping, wakePending, stopped, now, passNow, unheard, diagnosed>>

(* runOnce() rejects: the wakes requested meanwhile go with it. *)
PassFails ==
  /\ drain = "pass"
  /\ wakePending' = FALSE
  /\ drain' = "settling"
  /\ diagnosed' = TRUE
  /\ UNCHANGED <<started, stopping, stopped, timer, now, passNow, retryAt, unheard>>

(* Slip: the finally handler forgets the wakes that came since the loop ended. *)
SettleDeaf ==
  /\ drain = "settling"
  /\ drain' = "none"
  /\ UNCHANGED <<started, stopping, wakePending, stopped, timer, now, passNow,
                 retryAt, unheard, diagnosed>>

(* The finally handler of the drain promise. *)
Settle ==
  /\ drain = "settling"
  /\ IF wakePending /\ ~stopping
       THEN drain' = "queued" /\ timer' = NoTime
       ELSE drain' = "none" /\ UNCHANGED timer
  /\ UNCHANGED <<started, stopping, wakePending, stopped, now, passNow, retryAt,
                 unheard, diagnosed>>

TimerFires ==
  /\ timer # NoTime /\ now >= timer
  /\ RequestWake
  /\ UNCHANGED <<started, stopping, stopped, now, passNow, retryAt, unheard, diagnosed>>

Tick ==
  /\ now < MaxTime
  /\ now' = now + 1
  /\ UNCHANGED <<started, stopping, wakePending, drain, stopped, timer, passNow,
                 retryAt, unheard, diagnosed>>

(* stop(): at once, and then the wait for the drain. *)
StopDriver ==
  /\ ~stopping
  /\ stopping' = TRUE
  /\ wakePending' = FALSE
  /\ timer' = NoTime
  /\ UNCHANGED <<started, drain, stopped, now, passNow, retryAt, unheard, diagnosed>>

StopResolves ==
  /\ stopping /\ ~stopped /\ drain = "none"
  /\ stopped' = TRUE
  /\ UNCHANGED <<started, stopping, wakePending, drain, timer, now, passNow,
                 retryAt, unheard, diagnosed>>
=============================================================================
