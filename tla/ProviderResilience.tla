-------------------------- MODULE ProviderResilience --------------------------
(***************************************************************************)
(* The common provider policy: cli/src/inference/provider-resilience.ts.   *)
(*                                                                         *)
(* execute() runs one call through an ordered plan of authorized           *)
(* identities.  Each identity has a concurrency bound with a queue, a      *)
(* circuit breaker and a token bucket; an attempt takes a slot, then in    *)
(* one synchronous block asks the breaker and the bucket and dispatches.   *)
(* Everything happens in one event loop: an action is the code between two *)
(* waits, and what differs between the calls is the order in which their   *)
(* waits end.                                                              *)
(*                                                                         *)
(* Time is abstract.  A cooldown, a deferral and a deadline are facts that *)
(* become true at some moment: Cooled, Eligible, Expire.  A timer may wake *)
(* a call whose identity was blocked again meanwhile.  The clock is the    *)
(* wall clock and may be set back; the token bucket throws when it is.     *)
(***************************************************************************)
EXTENDS Naturals, Sequences, FiniteSets, SequencesExt

CONSTANTS
    Calls,            \* executions of ProviderResilience.execute
    Identities,       \* (providerId, credentialScope) pairs
    PlanOf,           \* the plan of each call: primary, then fallbacks
    Abortable,        \* the calls whose caller may abort
    MaxConcurrency,
    FailureThreshold,
    MaxAttempts       \* of one identity

ASSUME ResilienceAssumption ==
    /\ PlanOf \in [Calls -> Seq(Identities)]
    /\ \A c \in Calls : Len(PlanOf[c]) > 0
    /\ MaxConcurrency \in Nat \ {0}
    /\ FailureThreshold \in Nat \ {0}
    /\ MaxAttempts \in Nat \ {0}
    /\ "none" \notin Calls

VARIABLES
    pc,        \* where each call is
    at,        \* its identity: the index in its plan
    attempt,   \* its attempt of that identity
    permit,    \* the breaker permit it holds: mode, or "stale" once superseded
    aborted,   \* its AbortSignal
    slots,     \* ProviderConcurrencyLimiter.inFlight
    queue,     \* ProviderConcurrencyLimiter.waiters
    breaker,   \* state, consecutive failures, cooldown over, owner of the probe
    bucket     \* the token bucket: none yet, would admit a call now, or not

callVars == <<at, attempt, permit, aborted>>
vars == <<pc, callVars, slots, queue, breaker, bucket>>

Places == {"idle", "head", "queued", "granted", "probing", "sleeping",
           "calling", "done", "misreported", "lost"}

\* Waits that an abort or the end of the budget ends at once.
Waits == {"queued", "probing", "sleeping"}

\* execute() has ended; "misreported" is an end that hid the verdict, "lost"
\* one that kept the slot, and perhaps the probe, of the identity it was at.
Over == {"done", "misreported", "lost"}

ResilienceTypeOK ==
    /\ pc \in [Calls -> Places]
    /\ at \in [Calls -> Nat]
    /\ \A c \in Calls : at[c] \in DOMAIN PlanOf[c]
    /\ attempt \in [Calls -> 1 .. MaxAttempts]
    /\ permit \in [Calls -> {"none", "closed", "half_open", "stale"}]
    /\ aborted \in [Calls -> BOOLEAN]
    /\ slots \in [Identities -> 0 .. MaxConcurrency]
    /\ queue \in [Identities -> Seq(Calls)]
    /\ breaker \in [Identities ->
                      [state : {"closed", "open", "half_open"},
                       failures : 0 .. FailureThreshold,
                       cooled : BOOLEAN,
                       probe : Calls \cup {"none"}]]
    /\ bucket \in [Identities -> {"none", "eligible", "blocked"}]

Identity(c) == PlanOf[c][at[c]]

ClosedBreaker ==
    [state |-> "closed", failures |-> 0, cooled |-> FALSE, probe |-> "none"]

Init ==
    /\ pc = [c \in Calls |-> "idle"]
    /\ at = [c \in Calls |-> 1]
    /\ attempt = [c \in Calls |-> 1]
    /\ permit = [c \in Calls |-> "none"]
    /\ aborted = [c \in Calls |-> FALSE]
    /\ slots = [i \in Identities |-> 0]
    /\ queue = [i \in Identities |-> << >>]
    /\ breaker = [i \in Identities |-> ClosedBreaker]
    /\ bucket = [i \in Identities |-> "none"]

-----------------------------------------------------------------------------
(* ProviderConcurrencyLimiter *)

\* release: the slot goes to the earliest waiter, or back to the pool.
Handed(i) == IF queue[i] = << >> THEN {} ELSE {Head(queue[i])}

Release(i) ==
    /\ slots' = [slots EXCEPT ![i] = IF queue[i] = << >> THEN @ - 1 ELSE @]
    /\ queue' = [queue EXCEPT ![i] = IF @ = << >> THEN @ ELSE Tail(@)]

-----------------------------------------------------------------------------
(* CircuitBreaker *)

\* Permits of an earlier generation of identity i.
Superseded(i) ==
    [c \in Calls |-> IF permit[c] # "none" /\ Identity(c) = i
                     THEN "stale" ELSE permit[c]]

\* Mutant of Valid: a permit is valid once, in whatever generation.
ValidOnce(c) == permit[c] # "none"

\* consumePermit: valid once, in the generation and state that admitted it.
Valid(c) ==
    LET b == breaker[Identity(c)] IN
    /\ permit[c] = b.state
    /\ b.state = "half_open" => b.probe = c

Opened(b) ==
    [b EXCEPT !.state = "open", !.cooled = FALSE, !.probe = "none"]

\* recordFailure of a counted failure.
Failed(b) ==
    IF b.state = "half_open" THEN Opened(b)
    ELSE IF b.failures + 1 >= FailureThreshold
    THEN [Opened(b) EXCEPT !.failures = FailureThreshold]
    ELSE [b EXCEPT !.failures = @ + 1]

\* What a verdict makes of the breaker: nothing if the permit is not valid.
\* An uncounted failure leaves a closed breaker alone and ends a probe.
AfterVerdict(c, verdict) ==
    LET b == breaker[Identity(c)] IN
    IF ~Valid(c) THEN b
    ELSE CASE verdict = "ok" -> ClosedBreaker
           [] verdict = "counted" -> Failed(b)
           [] verdict = "uncounted" /\ b.state = "half_open" -> ClosedBreaker
           [] OTHER -> b

\* The generation moves on: no permit handed out before is valid any more.
NewGeneration(c, verdict) ==
    LET b == breaker[Identity(c)] IN
    /\ Valid(c)
    /\ \/ b.state = "half_open"
       \/ verdict = "counted" /\ Failed(b).state = "open"

\* Mutant of Notified: a probe that ends with an uncounted failure wakes nobody.
NotifiedOnVerdict(c, verdict) ==
    IF Valid(c) /\ verdict \in {"ok", "counted"}
    THEN {d \in Calls : pc[d] = "probing" /\ Identity(d) = Identity(c)}
    ELSE {}

\* notifyTransition: the calls waiting for the probe are woken.
Notified(c, verdict) ==
    IF /\ Valid(c)
       /\ \/ verdict \in {"ok", "counted"}
          \/ breaker[Identity(c)].state = "half_open"
    THEN {d \in Calls : pc[d] = "probing" /\ Identity(d) = Identity(c)}
    ELSE {}

-----------------------------------------------------------------------------

\* The places after a step of c: some calls are handed a slot, some woken.
Moved(c, place, handed, woken) ==
    [d \in Calls |-> IF d = c THEN place
                     ELSE IF d \in handed THEN "granted"
                     ELSE IF d \in woken THEN "head"
                     ELSE pc[d]]

\* execute: the budget is created and the first attempt begins.
Start(c) ==
    /\ pc[c] = "idle"
    /\ pc' = [pc EXCEPT ![c] = "head"]
    /\ UNCHANGED <<callVars, slots, queue, breaker, bucket>>

\* execute ends: its locals are gone.
Forgets(c) ==
    /\ at' = [at EXCEPT ![c] = 1]
    /\ attempt' = [attempt EXCEPT ![c] = 1]
    /\ aborted' = [aborted EXCEPT ![c] = FALSE]

\* removeWaiter: the entry of c is spliced out of the queue, if it is there.
Removed(q, c) ==
    IF \E k \in DOMAIN q : q[k] = c
    THEN RemoveAt(q, CHOOSE k \in DOMAIN q : q[k] = c)
    ELSE q

\* execute rejects at a check or in a wait: the call leaves its queue.
Leave(c) ==
    /\ pc' = [pc EXCEPT ![c] = "done"]
    /\ queue' = [queue EXCEPT ![Identity(c)] = Removed(@, c)]
    /\ Forgets(c)
    /\ UNCHANGED <<permit, slots, breaker, bucket>>


\* The budget is over: at a check, or in a wait that it bounds.
Expire(c) == pc[c] \in Waits \cup {"head"} /\ Leave(c)

\* The caller aborts: a wait ends now, anything else at its next check.
Abort(c) ==
    /\ c \in Abortable
    /\ pc[c] \notin Over \cup {"idle"}
    /\ ~aborted[c]
    /\ IF pc[c] \in Waits
       THEN Leave(c)
       ELSE /\ aborted' = [aborted EXCEPT ![c] = TRUE]
            /\ UNCHANGED <<pc, at, attempt, permit, slots, queue, breaker,
                           bucket>>

\* Mutant of Enter: one slot more than the bound.
EnterOneMore(c) ==
    LET i == Identity(c) IN
    /\ pc[c] = "head"
    /\ IF aborted[c]
       THEN Leave(c)
       ELSE /\ IF slots[i] <= MaxConcurrency
               THEN /\ slots' = [slots EXCEPT ![i] = @ + 1]
                    /\ pc' = [pc EXCEPT ![c] = "granted"]
                    /\ UNCHANGED queue
               ELSE /\ queue' = [queue EXCEPT ![i] = Append(@, c)]
                    /\ pc' = [pc EXCEPT ![c] = "queued"]
                    /\ UNCHANGED slots
            /\ UNCHANGED <<callVars, breaker, bucket>>

\* The head of an attempt, and acquire: a slot now, or a place in the queue.
Enter(c) ==
    LET i == Identity(c) IN
    /\ pc[c] = "head"
    /\ IF aborted[c]
       THEN Leave(c)
       ELSE /\ IF slots[i] < MaxConcurrency
               THEN /\ slots' = [slots EXCEPT ![i] = @ + 1]
                    /\ pc' = [pc EXCEPT ![c] = "granted"]
                    /\ UNCHANGED queue
               ELSE /\ queue' = [queue EXCEPT ![i] = Append(@, c)]
                    /\ pc' = [pc EXCEPT ![c] = "queued"]
                    /\ UNCHANGED slots
            /\ UNCHANGED <<callVars, breaker, bucket>>

\* The slot is given back and the call waits, or leaves.
GiveBack(c, place) ==
    /\ pc' = Moved(c, place, Handed(Identity(c)), {})
    /\ Release(Identity(c))

\* Mutant of GrantedAborted: the slot is not given back.
GrantedAbortedKeeps(c) ==
    /\ pc[c] = "granted"
    /\ aborted[c]
    /\ pc' = [pc EXCEPT ![c] = "done"]
    /\ Forgets(c)
    /\ UNCHANGED <<permit, slots, queue, breaker, bucket>>

\* The abort met the hand-off: the slot is given back.
GrantedAborted(c) ==
    /\ pc[c] = "granted"
    /\ aborted[c]
    /\ GiveBack(c, "done")
    /\ Forgets(c)
    /\ UNCHANGED <<permit, breaker, bucket>>

\* beforeRequest denies: open and not cooled, or a probe is in flight.
Denied(c) ==
    LET b == breaker[Identity(c)] IN
    /\ pc[c] = "granted"
    /\ ~aborted[c]
    /\ \/ b.state = "open" /\ ~b.cooled /\ GiveBack(c, "sleeping")
       \/ b.state = "half_open" /\ b.probe # "none" /\ GiveBack(c, "probing")
    /\ UNCHANGED <<callVars, breaker, bucket>>

\* Mutant of Allowed: the abort is not looked at after the wait for a slot.
AllowedUnasked(c) ==
    LET b == breaker[Identity(c)] IN
    /\ pc[c] = "granted"
    /\ \/ b.state = "closed"
       \/ b.state = "open" /\ b.cooled
       \/ b.state = "half_open" /\ b.probe = "none"

\* beforeRequest allows: a closed circuit, or the one probe of a half-open one.
Allowed(c) ==
    LET b == breaker[Identity(c)] IN
    /\ pc[c] = "granted"
    /\ ~aborted[c]
    /\ \/ b.state = "closed"
       \/ b.state = "open" /\ b.cooled
       \/ b.state = "half_open" /\ b.probe = "none"

HalfOpened(b, owner) ==
    [b EXCEPT !.state = "half_open", !.cooled = FALSE, !.probe = owner]

\* What beforeRequest leaves of identity i when the call that was allowed is
\* not made: an open circuit is half-open now, its probe owned by owner.
LeftBehind(i, owner) ==
    IF breaker[i].state = "closed"
    THEN UNCHANGED <<breaker, permit>>
    ELSE /\ breaker' = [breaker EXCEPT ![i] = HalfOpened(@, owner)]
         /\ permit' = IF breaker[i].state = "open"
                      THEN Superseded(i) ELSE permit

\* Mutant of Paced: the probe stays reserved during the wait for the bucket.
PacedOnProbe(c) ==
    LET i == Identity(c) IN
    /\ Allowed(c)
    /\ bucket[i] = "blocked"
    /\ LeftBehind(i, c)
    /\ GiveBack(c, "sleeping")
    /\ UNCHANGED <<at, attempt, aborted, bucket>>

\* The bucket denies: a probe is released unused and the slot given back.
Paced(c) ==
    LET i == Identity(c) IN
    /\ Allowed(c)
    /\ bucket[i] = "blocked"
    /\ LeftBehind(i, "none")
    /\ GiveBack(c, "sleeping")
    /\ UNCHANGED <<at, attempt, aborted, bucket>>

\* The clock is behind the bucket's last refill (Date.now was set back):
\* tryAcquire throws outside every try, execute rejects, and neither the slot
\* nor a reserved probe is given back.  A bucket made just now cannot throw.
PacerThrows(c) ==
    LET i == Identity(c) IN
    /\ Allowed(c)
    /\ bucket[i] # "none"
    /\ LeftBehind(i, c)
    /\ pc' = [pc EXCEPT ![c] = "lost"]
    /\ attempt' = [attempt EXCEPT ![c] = 1]
    /\ UNCHANGED <<at, aborted, slots, queue, bucket>>

\* The bucket admits: a token is taken, perhaps the last, and the provider is
\* called.
Dispatch(c) ==
    LET i == Identity(c)
        b == breaker[i]
        mode == IF b.state = "closed" THEN "closed" ELSE "half_open"
        older == IF b.state = "open" THEN Superseded(i) ELSE permit
    IN
    /\ Allowed(c)
    /\ bucket[i] # "blocked"
    /\ \E left \in {"eligible", "blocked"} :
         bucket' = [bucket EXCEPT ![i] = left]
    /\ breaker' = [breaker EXCEPT ![i] =
                     IF mode = "closed" THEN @ ELSE HalfOpened(@, c)]
    /\ permit' = [older EXCEPT ![c] = mode]
    /\ pc' = [pc EXCEPT ![c] = "calling"]
    /\ UNCHANGED <<at, attempt, aborted, slots, queue>>

-----------------------------------------------------------------------------

\* The provider call is over: the breaker takes the verdict, and the slot is
\* released.  In the code that is some microtasks later, in which a waiter for
\* the probe may ask for a slot: it queues, and is handed the slot it would
\* have found free here, or stands in the queue where it would have stood.
Settles(c, verdict, place) ==
    LET i == Identity(c)
        older == IF NewGeneration(c, verdict) THEN Superseded(i) ELSE permit
    IN
    /\ breaker' = [breaker EXCEPT ![i] = AfterVerdict(c, verdict)]
    /\ permit' = [older EXCEPT ![c] = "none"]
    /\ pc' = Moved(c, place, Handed(i), Notified(c, verdict))
    /\ Release(i)

Ended(c, verdict) == Settles(c, verdict, "done") /\ Forgets(c)

Succeed(c) ==
    /\ pc[c] = "calling"
    /\ Ended(c, "ok")
    /\ UNCHANGED bucket

\* RetryPolicy.execute and execute: what follows a failed attempt.
Fails(c, retryable, fallbackAllowed) ==
    LET verdict == IF retryable THEN "counted" ELSE "uncounted" IN
    /\ pc[c] = "calling"
    /\ IF aborted[c]
       THEN Ended(c, verdict)
       ELSE IF retryable /\ attempt[c] < MaxAttempts
       THEN /\ Settles(c, verdict, "sleeping")
            /\ attempt' = [attempt EXCEPT ![c] = @ + 1]
            /\ UNCHANGED <<at, aborted>>
       ELSE IF fallbackAllowed /\ at[c] < Len(PlanOf[c])
       THEN /\ Settles(c, verdict, "head")
            /\ at' = [at EXCEPT ![c] = @ + 1]
            /\ attempt' = [attempt EXCEPT ![c] = 1]
            /\ UNCHANGED aborted
       ELSE Ended(c, verdict)

\* A failure, with a Retry-After that defers the bucket or without one.
Fail(c) ==
    \E retryable, fallbackAllowed \in BOOLEAN :
       /\ Fails(c, retryable, fallbackAllowed)
       /\ \/ UNCHANGED bucket
          \/ /\ retryable
             /\ bucket' = [bucket EXCEPT ![Identity(c)] = "blocked"]

\* A failure with a Retry-After that is no whole number of milliseconds, or
\* one that comes when the clock is behind the bucket: defer throws, so the
\* breaker never hears of the failure, and the caller gets that error instead
\* of the provider's (a cancellation if it aborted).
FailUndeferrable(c) ==
    /\ pc[c] = "calling"
    /\ GiveBack(c, "misreported")
    /\ permit' = [permit EXCEPT ![c] = "none"]
    /\ Forgets(c)
    /\ UNCHANGED <<breaker, bucket>>

-----------------------------------------------------------------------------
(* Time *)

\* A timer ends a backoff, a circuit cooldown or a wait for the bucket.
Wake(c) ==
    /\ pc[c] = "sleeping"
    /\ pc' = [pc EXCEPT ![c] = "head"]
    /\ UNCHANGED <<callVars, slots, queue, breaker, bucket>>

Cooled(i) ==
    /\ breaker[i].state = "open" /\ ~breaker[i].cooled
    /\ breaker' = [breaker EXCEPT ![i].cooled = TRUE]
    /\ UNCHANGED <<pc, callVars, slots, queue, bucket>>

\* The bucket has refilled and no deferral is left.
Eligible(i) ==
    /\ bucket[i] = "blocked"
    /\ bucket' = [bucket EXCEPT ![i] = "eligible"]
    /\ UNCHANGED <<pc, callVars, slots, queue, breaker>>

\* The process dies; a new instance restores the last snapshot: the bucket
\* and the breakers, a half-open one as open with a fresh cooldown.
Reinstantiate ==
    /\ \E c \in Calls : pc[c] \notin Over \cup {"idle"}
    /\ pc' = [c \in Calls |-> IF pc[c] = "idle" THEN "idle" ELSE "done"]
    /\ at' = [c \in Calls |-> 1]
    /\ attempt' = [c \in Calls |-> 1]
    /\ permit' = [c \in Calls |-> "none"]
    /\ aborted' = [c \in Calls |-> FALSE]
    /\ slots' = [i \in Identities |-> 0]
    /\ queue' = [i \in Identities |-> << >>]
    /\ breaker' = [i \in Identities |->
                     IF breaker[i].state = "half_open"
                     THEN Opened(breaker[i]) ELSE breaker[i]]
    /\ UNCHANGED bucket

-----------------------------------------------------------------------------

\* A step of the policy's own code, and the return of a provider call.
PolicyStep(c) ==
    Enter(c) \/ GrantedAborted(c) \/ Denied(c) \/ Paced(c) \/ PacerThrows(c)
      \/ Dispatch(c) \/ Wake(c)

Returns(c) == Succeed(c) \/ Fail(c) \/ FailUndeferrable(c)

Next ==
    \/ \E c \in Calls : \/ Start(c) \/ PolicyStep(c) \/ Returns(c)
                        \/ Expire(c) \/ Abort(c)
    \/ \E i \in Identities : Cooled(i) \/ Eligible(i)
    \/ Reinstantiate

\* Timers fire and continuations run; a provider call ends, by its own
\* timeout if not before (ModelProvider.complete takes the call's timeout).
Fairness ==
    /\ \A c \in Calls : WF_vars(PolicyStep(c)) /\ WF_vars(Returns(c))
    /\ \A i \in Identities : WF_vars(Cooled(i)) /\ WF_vars(Eligible(i))

Spec == Init /\ [][Next]_vars /\ Fairness

-----------------------------------------------------------------------------

\* The calls of identity i that own one of its slots, and those that ended
\* without giving theirs back.
Owners(i) == {c \in Calls : pc[c] \in {"granted", "calling"}
                              /\ Identity(c) = i}

LostOn(i) == {c \in Calls : pc[c] = "lost" /\ Identity(c) = i}

\* inFlight is the number of calls that own a slot and of those that ended with
\* one, never more than the bound, and nobody queues while a slot is free: no
\* slot is doubled, and none is lost when a hand-off meets an abort, a deadline,
\* or a call that gives its slot back before a wait (provider-resilience.ts:541
\* and 1248).  The one way to lose a slot is named: tryAcquire throws
\* (provider-resilience.ts:1317, 400) before the try that releases it (1347).
SlotsAccounted ==
    \A i \in Identities :
       /\ slots[i] = Cardinality(Owners(i) \cup LostOn(i))
       /\ queue[i] # << >> => slots[i] = MaxConcurrency
       /\ \A c \in Calls : pc[c] = "queued" /\ Identity(c) = i =>
             Cardinality({k \in DOMAIN queue[i] : queue[i][k] = c}) = 1
       /\ \A k \in DOMAIN queue[i] :
             pc[queue[i][k]] = "queued" /\ Identity(queue[i][k]) = i

\* The probe of identity i is reserved for a call that has ended.
ProbeOrphaned(i) ==
    LET p == breaker[i].probe IN p # "none" /\ pc[p] \in Over

\* A probe that is reserved is a call in flight that holds the permit for it,
\* also after a restart.  The comment at provider-resilience.ts:1205-1208 says
\* that no probe can be orphaned.  There are two ways to orphan one, and they
\* are named, each by the way its call ended: defer throws, which
\* keeps the verdict from the breaker (provider-resilience.ts:1377, 341, 400),
\* or tryAcquire does, between the permit and the call (1317, 400).
ProbeHasOwner ==
    \A i \in Identities :
       LET p == breaker[i].probe IN
       p # "none" =>
         /\ breaker[i].state = "half_open"
         /\ \/ /\ pc[p] = "calling" /\ permit[p] = "half_open"
               /\ Identity(p) = i
            \/ pc[p] = "misreported"
            \/ pc[p] = "lost" /\ Identity(p) = i

\* Only its own probe closes or reopens a half-open circuit: a call admitted
\* before the circuit opened, or one that was never the probe, may return at
\* any moment and changes nothing (provider-resilience.ts:828).
HalfOpenEndsByProbe ==
    [][\A i \in Identities :
         /\ breaker[i].state = "half_open"
         /\ breaker'[i].state # "half_open"
         => \/ /\ breaker[i].probe # "none"
               /\ pc[breaker[i].probe] = "calling"
               /\ pc'[breaker[i].probe] # "calling"
            \/ \A c \in Calls : pc'[c] \in {"idle", "done"}]_vars

\* Once a call's signal is aborted it starts no provider call, also when the
\* abort comes between the hand-off of a slot and the code that receives it
\* (provider-resilience.ts:1248).
NoCallAfterAbort ==
    [][\A c \in Calls : pc[c] # "calling" /\ pc'[c] = "calling"
                          => ~aborted[c]]_vars

Blocked == {"queued", "probing"}

\* What may keep a blocked call: every slot of its identity was lost, or the
\* probe it waits for is an orphan.
KeptByLoss(c) ==
    \/ pc[c] = "queued" /\ Cardinality(LostOn(Identity(c))) = MaxConcurrency
    \/ pc[c] = "probing" /\ ProbeOrphaned(Identity(c))

\* A call that queues for a slot, or waits for a probe to end, goes on without
\* the help of its own deadline: no slot is held across a cooldown, a probe or
\* a quota wait, no hand-off is lost, and every end of a probe wakes its waiters
\* (provider-resilience.ts:542, 761 and 1269).  Only the losses SlotsAccounted
\* and ProbeHasOwner name can keep it: of the identity it waits for, and in the
\* queue only if no slot is left.
BlockedMoves ==
    \A c \in Calls :
       pc[c] \in Blocked ~> (pc[c] \notin Blocked \/ KeptByLoss(c))


=============================================================================
