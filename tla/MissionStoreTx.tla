---------------------------- MODULE MissionStoreTx ----------------------------
(***************************************************************************)
(* The one SQLite connection that every operation on missions shares:      *)
(* cli/src/mission/sqlite-mission-store.ts, with the operations of         *)
(* mission-engine.ts on missions and plan revisions and the admission of   *)
(* cli/src/daemon/local-control-admission.ts on top of it.                 *)
(*                                                                         *)
(* A call is a chain of asynchronous steps; between two of them any other  *)
(* call may run.  Transactions wait for each other in a queue.  A write    *)
(* outside of a transaction does not wait: when another call's transaction *)
(* is open on the connection it becomes part of that one, and shares its   *)
(* fate.  Observers are told after a commit.  A full disk makes SQLite roll*)
(* back by itself; the ROLLBACK of withTransaction then throws, and what   *)
(* it would have restored stays as it was.                                 *)
(*                                                                         *)
(* Invocations are in DispatchSeam.  A call generates its own identifiers, *)
(* so the mission it creates, or the revision it proposes, has its name.   *)
(***************************************************************************)
EXTENDS Naturals, Sequences, FiniteSets

CONSTANTS
    Calls,          \* the calls made of the store, each one once
    Requests,       \* request ids of admissions
    Payloads,       \* fingerprints of what is asked for
    Nobody,         \* no call, no mission, no revision, no row
    FirstImages,    \* what may be on disk when the process starts
    OldIds,         \* the identifiers used there
    MaxFaults       \* bound: failed writes and commits, and crashes

VARIABLES
    disk,       \* what is committed
    conn,       \* what the connection reads
    open,       \* a transaction is open on the connection
    tx,         \* the call inside withTransaction, or Nobody
    queue,      \* the calls waiting for transactionQueue
    pending,    \* the mutations collected for tx: the last one per mission
    deaf,       \* pendingMutations was left behind by a failed ROLLBACK
    view,       \* what observers were last told of every mission
    call,       \* the calls
    stale,      \* history: a call wrote what it had read before another write
    torn,       \* history: a transaction was rolled back under its owner
    faults

storeVars == <<disk, conn, open, tx, queue, pending, deaf, view>>
txVars == <<storeVars, call, stale, torn, faults>>

Ids == Calls \cup OldIds

Terminal == {"completed", "cancelled"}

States == {"created", "planning", "ready", "waiting", "paused"} \cup Terminal

Rows == [state : States, from : States \cup {Nobody},
         plan : Ids \cup {Nobody}, granted : BOOLEAN]

NewRow == [state |-> "created", from |-> Nobody, plan |-> Nobody,
           granted |-> FALSE]

\* The operations that read, and then write without a transaction.
PlainKinds == {"pause", "resume", "approve", "wait", "restore", "complete"}

\* Those that read first, and then do their work in a transaction.
GuardedKinds == {"cancel", "propose", "accept"}

Revisions == [mission : Ids, status : {"proposed", "accepted", "superseded"},
              number : Nat]

Admissions == [mission : Ids, payload : Payloads]

Images == [mission : [Ids -> Rows \cup {Nobody}],
           revision : [Ids -> Revisions \cup {Nobody}],
           admission : [Requests -> Admissions \cup {Nobody}],
           done : SUBSET Calls]

\* No call has made its mission, or its revision, before it began.
ASSUME StoreAssumption ==
    /\ IsFiniteSet(Ids)
    /\ Calls \cap OldIds = {}
    /\ Nobody \notin Ids \cup Rows \cup Revisions \cup Admissions
    /\ FirstImages \subseteq Images
    /\ \A img \in FirstImages :
         /\ \A m \in Calls : img.mission[m] = Nobody /\ img.revision[m] = Nobody
         /\ \A q \in Requests : img.admission[q] # Nobody =>
                                  img.admission[q].mission \in OldIds

RevisionsOf(img, m) ==
    {r \in Ids : img.revision[r] # Nobody /\ img.revision[r].mission = m}

\* The revisions of a mission have different numbers up to how many there are.
Numbered(img) ==
    \A r \in Ids : img.revision[r] # Nobody =>
      LET all == RevisionsOf(img, img.revision[r].mission)
      IN /\ img.revision[r].number <= Cardinality(all)
         /\ \A s \in all \ {r} : img.revision[s].number # img.revision[r].number

\* Revision r is the plan of its mission.
InForce(img, r) == LET m == img.revision[r].mission
                   IN img.mission[m] # Nobody /\ img.mission[m].plan = r

\* The revisions that are accepted.
AcceptedIn(img) ==
    {r \in Ids : img.revision[r] # Nobody /\ img.revision[r].status = "accepted"}

\* Only the plan of a mission is accepted.
Planned(img) == \A r \in AcceptedIn(img) : InForce(img, r)

\* What earlier calls left on disk: numbers that proposePlan gave, and plans
\* that acceptPlan put in force, none of them from a stale read.
ASSUME HistoryAssumption == \A img \in FirstImages : Numbered(img) /\ Planned(img)

Idle == [kind |-> "none", pc |-> "idle", mission |-> Nobody, req |-> Nobody,
         payload |-> Nobody, rev |-> Nobody, seen |-> Nobody, cur |-> Nobody,
         number |-> 0, host |-> Nobody]

Ended == {"acked", "refused", "conflict", "failed", "lost"}

TxInit ==
    /\ disk \in FirstImages
    /\ conn = disk
    /\ open = FALSE
    /\ tx = Nobody
    /\ queue = <<>>
    /\ pending = [m \in Ids |-> Nobody]
    /\ deaf = FALSE
    /\ view = disk.mission
    /\ call = [c \in Calls |-> Idle]
    /\ stale = FALSE
    /\ torn = FALSE
    /\ faults = 0

Fault == faults < MaxFaults /\ faults' = faults + 1

-----------------------------------------------------------------------------
(* The connection *)

\* A statement: committed at once unless a transaction is open.
Store(img) ==
    /\ conn' = img
    /\ disk' = IF open THEN disk ELSE img

\* Mutant of Publish: observers are told at once, transaction or not.
PublishAtOnce(m, r) ==
    /\ view' = [view EXCEPT ![m] = r]
    /\ UNCHANGED pending

\* publishMutation: kept while a transaction runs, told at once otherwise.
Publish(m, r) ==
    IF tx # Nobody
    THEN pending' = [pending EXCEPT ![m] = r] /\ UNCHANGED view
    ELSE /\ view' = IF deaf THEN view ELSE [view EXCEPT ![m] = r]
         /\ UNCHANGED pending

\* createMission of the store, by call c: an upsert of the whole row.
PutMission(c, m, r) ==
    /\ Store([conn EXCEPT !.mission[m] = r, !.done = @ \cup {c}])
    /\ Publish(m, r)

Goto(c, pc) == [call EXCEPT ![c].pc = pc]

\* Whose transaction a write of c becomes part of, if not its own.
Host(c) == IF open /\ tx # c THEN tx ELSE Nobody

-----------------------------------------------------------------------------
(* A call begins *)

StartAdmit(c) ==
    /\ call[c].pc = "idle"
    /\ \E q \in Requests, p \in Payloads :
         call' = [call EXCEPT ![c] = [Idle EXCEPT !.kind = "admit", !.req = q,
                                        !.payload = p, !.pc = "queued"]]
    /\ queue' = Append(queue, c)
    /\ UNCHANGED <<disk, conn, open, tx, pending, deaf, view, stale, torn,
                   faults>>

\* readProjection, listMissionPage.
StartRead(c) ==
    /\ call[c].pc = "idle"
    /\ call' = [call EXCEPT ![c] = [Idle EXCEPT !.kind = "read",
                                                !.pc = "queued"]]
    /\ queue' = Append(queue, c)
    /\ UNCHANGED <<disk, conn, open, tx, pending, deaf, view, stale, torn,
                   faults>>

\* The revisions accept may be asked for; the other kinds name none.
Wanted(kind, m) ==
    IF kind # "accept" THEN {Nobody}
    ELSE {r \in Ids : disk.revision[r] # Nobody /\ disk.revision[r].mission = m}

\* requireMission, the first read of every operation on a mission.  Its
\* identifier was learned from something committed; what is read may not be.
StartOnMission(c) ==
    /\ call[c].pc = "idle"
    /\ \E k \in PlainKinds \cup GuardedKinds, m \in Ids :
         /\ disk.mission[m] # Nobody
         /\ \E r \in Wanted(k, m) :
              call' = [call EXCEPT ![c] =
                [Idle EXCEPT !.kind = k, !.mission = m, !.rev = r,
                             !.seen = conn.mission[m], !.pc = "guard"]]
    /\ UNCHANGED <<storeVars, stale, torn, faults>>

-----------------------------------------------------------------------------
(* Operations without a transaction *)

\* What each of them asks of the mission it read.
Allowed(kind, r) ==
    /\ r.state \notin Terminal
    /\ kind = "pause" => r.state # "paused"
    /\ kind = "resume" =>
         r.state = "paused" /\ r.from \notin Terminal \cup {"paused", Nobody}
    /\ kind = "approve" => r.plan # Nobody
    /\ kind = "restore" => r.state = "waiting"

\* What each of them writes over the row cur, from the row it read first.
Updated(kind, seen, cur) ==
    CASE kind = "pause"    -> [cur EXCEPT !.state = "paused",
                                          !.from = seen.state]
      [] kind = "resume"   -> [cur EXCEPT !.state = seen.from, !.from = Nobody]
      [] kind = "approve"  -> [cur EXCEPT !.granted = TRUE,
                                 !.state = IF seen.state = "waiting"
                                           THEN "ready" ELSE seen.state]
      [] kind = "wait"     -> [cur EXCEPT !.state = "waiting"]
      [] kind = "restore"  -> [cur EXCEPT !.state = "ready"]
      [] kind = "complete" -> [cur EXCEPT !.state = "completed"]
      [] kind = "cancel"   -> [cur EXCEPT !.state = "cancelled"]
      [] kind = "propose"  -> [cur EXCEPT !.state = "planning"]

\* Pausing a paused mission answers with it.
GuardFails(c) ==
    /\ call[c].pc = "guard"
    /\ call[c].kind \in PlainKinds \/ call[c].kind \in {"cancel", "propose"}
    /\ ~Allowed(call[c].kind, call[c].seen)
    /\ call' = Goto(c, "refused")
    /\ UNCHANGED <<storeVars, stale, torn, faults>>

\* updateMission reads the row it is going to merge into.
Reread(c) ==
    /\ \/ call[c].pc = "guard" /\ call[c].kind \in PlainKinds
          /\ Allowed(call[c].kind, call[c].seen)
       \/ call[c].pc = "reread"
    /\ LET cur == conn.mission[call[c].mission]
       IN call' = [call EXCEPT ![c].cur = cur,
                               ![c].pc = IF cur # Nobody THEN "write"
                                         ELSE IF tx = c THEN "rollback"
                                         ELSE "failed"]
    /\ UNCHANGED <<storeVars, stale, torn, faults>>

\* acceptPlan: the new plan, waiting when an approval of it is missing.
Accepted(c, cur) ==
    [cur EXCEPT !.plan = call[c].rev, !.granted = call[c].seen.granted,
                !.state = IF call[c].seen.granted THEN "ready" ELSE "waiting"]

\* ... and writes the merged row.  An operation without a transaction is
\* answered then.
Write(c) ==
    /\ call[c].pc = "write"
    /\ LET m == call[c].mission
           cur == call[c].cur
       IN /\ PutMission(c, m, IF call[c].kind = "accept" THEN Accepted(c, cur)
                              ELSE Updated(call[c].kind, call[c].seen, cur))
          /\ stale' = (stale \/ conn.mission[m] # cur)
    /\ call' = [call EXCEPT ![c].host = Host(c),
                            ![c].pc = IF tx = c THEN "commit" ELSE "acked"]
    /\ UNCHANGED <<open, tx, queue, deaf, torn, faults>>

-----------------------------------------------------------------------------
(* withTransaction *)

\* The guards of cancelMission, proposePlan and acceptPlan, and their place
\* in the queue.
Enqueue(c) ==
    /\ call[c].pc = "guard"
    /\ call[c].kind \in GuardedKinds
    /\ Allowed(call[c].kind, call[c].seen)
    /\ call[c].kind = "accept" => /\ conn.revision[call[c].rev] # Nobody
                                  /\ conn.revision[call[c].rev].status = "proposed"
    /\ call' = Goto(c, "queued")
    /\ queue' = Append(queue, c)
    /\ UNCHANGED <<disk, conn, open, tx, pending, deaf, view, stale, torn,
                   faults>>

\* A revision that is not proposed, or not there, is not accepted.
AcceptRefused(c) ==
    /\ call[c].pc = "guard"
    /\ call[c].kind = "accept"
    /\ \/ ~Allowed("accept", call[c].seen)
       \/ conn.revision[call[c].rev] = Nobody
       \/ conn.revision[call[c].rev].status # "proposed"
    /\ call' = Goto(c, "refused")
    /\ UNCHANGED <<storeVars, stale, torn, faults>>

\* Mutant of FirstStep: a known request is answered whatever it asks for.
FirstStepUnchecked(c) ==
    CASE call[c].kind = "admit" ->
           IF conn.admission[call[c].req] = Nobody THEN "create" ELSE "commit"
      [] call[c].kind = "propose" -> "count"
      [] call[c].kind = "accept" -> "supersede"
      [] call[c].kind = "cancel" -> "reread"
      [] call[c].kind = "read"   -> "commit"

\* Where the body of a transaction goes from its first read.
FirstStep(c) ==
    CASE call[c].kind = "admit" ->
           LET a == conn.admission[call[c].req]
           IN IF a = Nobody THEN "create"
              ELSE IF a.payload # call[c].payload THEN "clash"
              ELSE IF conn.mission[a.mission] = Nobody THEN "rollback"
              ELSE "commit"
      [] call[c].kind = "propose" ->
           LET r == conn.mission[call[c].mission]
           IN IF r = Nobody \/ r.state \in Terminal THEN "rollback" ELSE "count"
      [] call[c].kind = "accept" -> "supersede"
      [] call[c].kind = "cancel" -> "reread"
      [] call[c].kind = "read"   -> "commit"

\* BEGIN, and the body up to its first await.
Begin(c) ==
    /\ tx = Nobody
    /\ queue # <<>> /\ Head(queue) = c
    /\ queue' = Tail(queue)
    /\ tx' = c
    /\ open' = TRUE
    /\ pending' = [m \in Ids |-> Nobody]
    /\ call' = [call EXCEPT
         ![c].pc = FirstStep(c),
         ![c].mission = IF call[c].kind = "admit" /\ FirstStep(c) = "commit"
                        THEN conn.admission[call[c].req].mission ELSE @]
    /\ stale' = (stale \/ /\ call[c].kind = "accept"
                          /\ \/ conn.mission[call[c].mission] = Nobody
                             \/ conn.mission[call[c].mission].plan
                                  # call[c].seen.plan
                             \/ conn.revision[call[c].rev] = Nobody
                             \/ conn.revision[call[c].rev].status # "proposed")
    /\ UNCHANGED <<disk, conn, deaf, view, torn, faults>>

\* engine.createMission inside an admission.
Create(c) ==
    /\ call[c].pc = "create"
    /\ PutMission(c, c, NewRow)
    /\ call' = [call EXCEPT ![c].mission = c, ![c].pc = "record"]
    /\ UNCHANGED <<open, tx, queue, deaf, stale, torn, faults>>

\* createMissionAdmission.
Record(c) ==
    /\ call[c].pc = "record"
    /\ Store([conn EXCEPT !.admission[call[c].req] =
                [mission |-> call[c].mission, payload |-> call[c].payload]])
    /\ call' = Goto(c, "commit")
    /\ UNCHANGED <<open, tx, queue, pending, deaf, view, stale, torn, faults>>

\* proposePlan counts the revisions,
Count(c) ==
    /\ call[c].pc = "count"
    /\ call' = [call EXCEPT ![c].pc = "save",
                  ![c].number = Cardinality(RevisionsOf(conn, call[c].mission))]
    /\ UNCHANGED <<storeVars, stale, torn, faults>>

\* and saves the next one.
Save(c) ==
    /\ call[c].pc = "save"
    /\ Store([conn EXCEPT !.revision[c] =
                [mission |-> call[c].mission, status |-> "proposed",
                 number |-> call[c].number + 1]])
    /\ call' = Goto(c, "reread")
    /\ UNCHANGED <<open, tx, queue, pending, deaf, view, stale, torn, faults>>

\* updatePlanRevisionStatus: a revision that is not there throws.
SetStatus(c, r, status, pc) ==
    IF conn.revision[r] = Nobody
    THEN call' = Goto(c, "rollback") /\ UNCHANGED <<conn, disk>>
    ELSE /\ Store([conn EXCEPT !.revision[r].status = status])
         /\ call' = Goto(c, pc)

\* Mutant of Supersede: the plan in force is left accepted.
SupersedeNothing(c) ==
    /\ call[c].pc = "supersede"
    /\ call' = Goto(c, "accept")
    /\ UNCHANGED <<storeVars, stale, torn, faults>>

\* acceptPlan marks the plan it read as superseded,
Supersede(c) ==
    /\ call[c].pc = "supersede"
    /\ IF call[c].seen.plan = Nobody
       THEN call' = Goto(c, "accept") /\ UNCHANGED <<conn, disk>>
       ELSE SetStatus(c, call[c].seen.plan, "superseded", "accept")
    /\ UNCHANGED <<open, tx, queue, pending, deaf, view, stale, torn, faults>>

\* and the new one as accepted.
Accept(c) ==
    /\ call[c].pc = "accept"
    /\ SetStatus(c, call[c].rev, "accepted", "reread")
    /\ UNCHANGED <<open, tx, queue, pending, deaf, view, stale, torn, faults>>

\* dispatchMutations, after the commit.
Told == [m \in Ids |-> IF pending[m] # Nobody THEN pending[m] ELSE view[m]]

\* COMMIT, and the answer.
Commit(c) ==
    /\ call[c].pc = "commit"
    /\ open
    /\ disk' = conn
    /\ open' = FALSE
    /\ tx' = Nobody
    /\ view' = Told
    /\ pending' = [m \in Ids |-> Nobody]
    /\ call' = Goto(c, "acked")
    /\ UNCHANGED <<conn, queue, deaf, stale, torn, faults>>

\* Mutant of Undone: the connection is left inside the transaction's writes.
UndoneUnrolled(c, answer) ==
    /\ open' = FALSE
    /\ tx' = Nobody
    /\ pending' = [m \in Ids |-> Nobody]
    /\ call' = Goto(c, answer)
    /\ UNCHANGED <<conn, disk, queue, view>>

\* The end of a transaction that did not commit.
Undone(c, answer) ==
    /\ conn' = disk
    /\ open' = FALSE
    /\ tx' = Nobody
    /\ pending' = [m \in Ids |-> Nobody]
    /\ call' = Goto(c, answer)
    /\ UNCHANGED <<disk, queue, view>>

\* ROLLBACK, after the body threw.  With no transaction left it throws as
\* well, before pendingMutations is restored.
Rollback(c) ==
    /\ call[c].pc \in {"rollback", "clash"}
    /\ Undone(c, IF call[c].pc = "clash" THEN "conflict" ELSE "failed")
    /\ deaf' = (deaf \/ ~open)
    /\ UNCHANGED <<stale, torn, faults>>

-----------------------------------------------------------------------------
(* Faults *)

\* COMMIT throws, with the transaction still there or rolled back by SQLite.
CommitFails(c) ==
    /\ call[c].pc = "commit"
    /\ open
    /\ Fault
    /\ Undone(c, "failed")
    /\ deaf' \in {deaf, TRUE}
    /\ UNCHANGED <<stale, torn>>

\* COMMIT throws because the transaction was rolled back before.
NothingToCommit(c) ==
    /\ call[c].pc = "commit"
    /\ ~open
    /\ Undone(c, "failed")
    /\ deaf' = TRUE
    /\ UNCHANGED <<stale, torn, faults>>

\* The steps that write.
Writing == {"write", "create", "record", "save", "supersede", "accept"}

\* A write of the transaction's owner throws.
OwnerWriteFails(c) ==
    /\ tx = c
    /\ call[c].pc \in Writing
    /\ Fault
    /\ Undone(c, "failed")
    /\ deaf' \in {deaf \/ ~open, TRUE}
    /\ UNCHANGED <<stale, torn>>

\* A write without a transaction throws.  A full disk rolls back the open
\* transaction with it, whoever owns it; the owner goes on without.
PlainWriteFails(c) ==
    /\ tx # c
    /\ call[c].pc = "write"
    /\ Fault
    /\ \/ UNCHANGED <<conn, open, torn>>
       \/ open /\ conn' = disk /\ open' = FALSE /\ torn' = TRUE
    /\ call' = Goto(c, "failed")
    /\ UNCHANGED <<disk, tx, queue, pending, deaf, view, stale>>

\* The process dies and comes back; its observers read the disk anew.
Crash ==
    /\ Fault
    /\ conn' = disk
    /\ open' = FALSE
    /\ tx' = Nobody
    /\ queue' = <<>>
    /\ pending' = [m \in Ids |-> Nobody]
    /\ deaf' = FALSE
    /\ view' = disk.mission
    /\ call' = [c \in Calls |-> IF call[c].pc \in Ended \cup {"idle"}
                                THEN call[c] ELSE [call[c] EXCEPT !.pc = "lost"]]
    /\ UNCHANGED <<disk, stale, torn>>

\* Every call was made and has ended.
AllEnded ==
    /\ \A c \in Calls : call[c].pc \in Ended
    /\ UNCHANGED txVars

TxNext ==
    \/ \E c \in Calls :
         \/ StartAdmit(c) \/ StartRead(c) \/ StartOnMission(c)
         \/ GuardFails(c) \/ Reread(c) \/ Write(c)
         \/ Enqueue(c) \/ AcceptRefused(c) \/ Begin(c)
         \/ Create(c) \/ Record(c) \/ Count(c) \/ Save(c)
         \/ Supersede(c) \/ Accept(c) \/ Commit(c) \/ Rollback(c)
         \/ CommitFails(c) \/ NothingToCommit(c)
         \/ OwnerWriteFails(c) \/ PlainWriteFails(c)
    \/ Crash
    \/ AllEnded

TxSpec == TxInit /\ [][TxNext]_txVars

-----------------------------------------------------------------------------
(* Properties *)

\* Outside of a transaction the connection reads what is committed and
\* nothing is collected.  A mission is on disk exactly when the admission
\* that made it is, unless a transaction was rolled back under its owner
\* (withTransaction, sqlite-mission-store.ts:2354-2377).
StoreTypeOK ==
    /\ \A img \in {disk, conn} :
         /\ img.mission \in [Ids -> Rows \cup {Nobody}]
         /\ img.done \in SUBSET Calls
    /\ ~open => conn = disk
    /\ open => tx # Nobody
    /\ tx = Nobody => pending = [m \in Ids |-> Nobody]
    /\ \A c \in Calls : call[c].pc = "queued" <=>
                          \E i \in 1 .. Len(queue) : queue[i] = c
    /\ ~torn => \A m \in Calls :
         disk.mission[m] # Nobody <=>
           \E q \in Requests : /\ disk.admission[q] # Nobody
                               /\ disk.admission[q].mission = m

\* What the scheduler and the live projection were last told of a mission is
\* what is committed, however writes and transactions interleave; until an
\* error that made SQLite roll back by itself leaves the store collecting for
\* a transaction that is over (publishMutation and withTransaction,
\* sqlite-mission-store.ts:1126-1146, 2354-2377).
ObserverSeesCommitted ==
    ~deaf /\ ~(tx # Nobody /\ ~open) => view = disk.mission

\* An answer is on disk.  An admission answered with a mission has its row,
\* so that every answer to one request names one mission and one payload; a
\* conflict is with a row that is there.  Any other acknowledged call is
\* there too, unless its write went into the transaction of a call that was
\* not acknowledged (local-control-admission.ts:134-189,
\* local-control-command.ts:56-102).
AnswersAreDurable ==
    \A c \in Calls :
      /\ call[c].pc = "acked" /\ call[c].kind = "admit" =>
           /\ disk.admission[call[c].req] = [mission |-> call[c].mission,
                                             payload |-> call[c].payload]
           /\ disk.mission[call[c].mission] # Nobody
      /\ call[c].pc = "conflict" =>
           /\ disk.admission[call[c].req] # Nobody
           /\ disk.admission[call[c].req].payload # call[c].payload
      /\ call[c].pc = "acked" /\ call[c].kind \in PlainKinds \cup GuardedKinds =>
           \/ c \in disk.done
           \/ call[c].host # Nobody /\ call[call[c].host].pc # "acked"

\* Revisions of a mission have different numbers, whatever is proposed at
\* once; and while no call has written what it had read before another
\* write, and no transaction lost its owner, at most one revision is
\* accepted, and it is the mission's plan (proposePlan and acceptPlan,
\* mission-engine.ts:489-655).
PlanHistory ==
    \A r, s \in Ids :
      (/\ disk.revision[r] # Nobody /\ disk.revision[s] # Nobody /\ r # s
       /\ disk.revision[r].mission = disk.revision[s].mission) =>
           /\ disk.revision[r].number # disk.revision[s].number
           /\ ~stale /\ ~torn /\ disk.revision[r].status = "accepted" =>
                /\ disk.revision[s].status # "accepted"
                /\ disk.mission[disk.revision[r].mission].plan = r

=============================================================================
