------------------------- MODULE MissionStoreTxProofs -------------------------
(***************************************************************************)
(* Proofs about MissionStoreTx, for any calls, requests, payloads, first   *)
(* images and number of faults.                                            *)
(*                                                                         *)
(* Two invariants.  The heart of the first, TxInv, is that exactly one     *)
(* call is inside withTransaction, whatever writes without a transaction   *)
(* come between (OwnerOK); with it an admission is written only where      *)
(* there is none (AnswersOK), what is committed grows (ImagesOK), and what *)
(* was collected for the observers is the difference between the           *)
(* connection and the disk (ViewOK).  A write that joined a transaction is *)
(* there or shares the fate of its owner (Joined).  The second, PlanInv,   *)
(* is about plan revisions and stands on the first.                        *)
(***************************************************************************)
EXTENDS MissionStoreTx, FiniteSetTheorems, TLAPS

\* Operations on missions.
Kinds == PlainKinds \cup GuardedKinds

\* Where a call can be.
Places == {"idle", "guard", "queued", "create", "record", "count", "save",
           "supersede", "accept", "reread", "write", "commit", "rollback",
           "clash"} \cup Ended

\* The records of calls.
CallTypes == [kind : {"none", "admit", "read"} \cup Kinds, pc : Places,
              mission : Ids \cup {Nobody}, req : Requests \cup {Nobody},
              payload : Payloads \cup {Nobody}, rev : Ids \cup {Nobody},
              seen : Rows \cup {Nobody}, cur : Rows \cup {Nobody},
              number : Nat, host : Calls \cup {Nobody}]

\* What a call knows at each place.
CallKnows(c) ==
    /\ call[c].pc \in {"guard", "write"} => call[c].kind \in Kinds
    /\ call[c].pc \in {"create", "record", "clash", "conflict"} =>
         call[c].kind = "admit"
    /\ call[c].pc \in {"count", "save"} => call[c].kind = "propose"
    /\ call[c].pc \in {"supersede", "accept"} => call[c].kind = "accept"
    /\ call[c].pc = "reread" => call[c].kind \in GuardedKinds
    /\ call[c].pc \in {"queued", "commit"} =>
         call[c].kind \in {"admit", "read"} \cup GuardedKinds
    /\ call[c].kind = "admit" =>
         call[c].req \in Requests /\ call[c].payload \in Payloads
    /\ call[c].kind \in Kinds =>
         /\ call[c].seen \in Rows
         /\ call[c].mission \in Ids
         /\ disk.mission[call[c].mission] # Nobody
    /\ call[c].kind = "accept" => call[c].rev \in Ids
    /\ call[c].pc = "write" => call[c].cur \in Rows
    /\ call[c].pc = "write" /\ call[c].kind \in PlainKinds =>
         Allowed(call[c].kind, call[c].seen)
    /\ call[c].pc = "record" => call[c].mission = c

\* The types of the calls, and what each of them knows.
CallsOK == call \in [Calls -> CallTypes] /\ \A c \in Calls : CallKnows(c)

\* What is there in a stays in b.
Grown(a, b) ==
    /\ \A m \in Ids : a.mission[m] # Nobody => b.mission[m] # Nobody
    /\ \A q \in Requests :
         a.admission[q] # Nobody => b.admission[q] = a.admission[q]
    /\ a.done \subseteq b.done

\* The connection and what is committed.
ImagesOK ==
    /\ disk \in Images
    /\ conn \in Images
    /\ Grown(disk, conn)
    /\ open \in BOOLEAN
    /\ torn \in BOOLEAN
    /\ tx \in Calls \cup {Nobody}
    /\ ~open => conn = disk
    /\ open => tx # Nobody
    /\ ~torn => (open <=> tx # Nobody)

\* Call c waits for its transaction.
InQueue(c) == \E i \in 1 .. Len(queue) : queue[i] = c

\* The queue holds the calls that wait, each one once.
QueueOK ==
    /\ queue \in Seq(Calls)
    /\ \A i, j \in 1 .. Len(queue) : queue[i] = queue[j] => i = j
    /\ \A c \in Calls : call[c].pc = "queued" <=> InQueue(c)

\* Where the call inside withTransaction can be.
InTx(c) ==
    \/ call[c].pc \in {"create", "record", "count", "save", "supersede",
                       "accept", "reread", "commit", "rollback", "clash"}
    \/ call[c].pc = "write" /\ call[c].kind \in GuardedKinds

\* Only the owner is there.
OwnerOK == \A c \in Calls : InTx(c) <=> tx = c

\* What observers know, and what they will be told.
ViewOK ==
    /\ view \in [Ids -> Rows \cup {Nobody}]
    /\ pending \in [Ids -> Rows \cup {Nobody}]
    /\ deaf \in BOOLEAN
    /\ tx = Nobody => pending = [m \in Ids |-> Nobody]
    /\ ~deaf /\ (open \/ tx = Nobody) => view = disk.mission
    /\ ~deaf /\ open => \A m \in Ids : conn.mission[m] = Told[m]

\* A write that joined a transaction shares its fate.
Joined(c) ==
    /\ call[c].host \in Calls
    /\ \/ tx = call[c].host /\ (open => c \in conn.done)
       \/ call[call[c].host].pc \in {"failed", "conflict", "lost"}

\* An image has what the admission a answers with.
Answered(img, a) ==
    /\ a.mission \in Ids
    /\ img.mission[a.mission] # Nobody
    /\ img.admission[a.req] = [mission |-> a.mission, payload |-> a.payload]

\* An answer given is on disk, and one about to be given is in the
\* transaction.
AnswerOK(c) ==
    /\ call[c].pc \in {"create", "record"} =>
         conn.admission[call[c].req] = Nobody
    /\ call[c].pc = "record" /\ open => conn.mission[call[c].mission] # Nobody
    /\ call[c].pc \in {"clash", "conflict"} =>
         /\ disk.admission[call[c].req] # Nobody
         /\ disk.admission[call[c].req].payload # call[c].payload
    /\ call[c].kind = "admit" =>
         /\ call[c].pc = "commit" /\ open => Answered(conn, call[c])
         /\ call[c].pc = "acked" => Answered(disk, call[c])
    /\ call[c].kind \in GuardedKinds =>
         /\ call[c].pc = "commit" /\ open => c \in conn.done
         /\ call[c].pc = "acked" => c \in disk.done
    /\ call[c].kind \in PlainKinds /\ call[c].pc = "acked" =>
         c \in disk.done \/ Joined(c)

\* The answers of all calls.
AnswersOK == \A c \in Calls : AnswerOK(c)

\* An admission names mission m.
Admitted(img, m) == \E q \in Requests : /\ img.admission[q] # Nobody
                                        /\ img.admission[q].mission = m

\* Missions and admissions come together.
MatchOK ==
    ~torn => \A m \in Calls :
      /\ disk.mission[m] # Nobody <=> Admitted(disk, m)
      /\ Admitted(conn, m) => conn.mission[m] # Nobody
      /\ conn.mission[m] # Nobody => \/ Admitted(conn, m)
                                     \/ tx = m /\ call[m].pc = "record"

\* The inductive invariant.
TxInv == /\ ImagesOK /\ CallsOK /\ QueueOK /\ OwnerOK /\ ViewOK /\ AnswersOK
         /\ MatchOK

-----------------------------------------------------------------------------
(* The invariant at the start *)

\* Nobody is no identifier, row, revision, admission or call.
LEMMA NobodyIsNone ==
  /\ Nobody \notin Ids
  /\ Nobody \notin Rows
  /\ Nobody \notin Revisions
  /\ Nobody \notin Admissions
  /\ Nobody \notin Calls
BY StoreAssumption DEF Ids

\* A new mission is a row.
LEMMA NewRowIsRow == NewRow \in Rows
BY DEF NewRow, Rows, States, Terminal

\* The invariant holds of a store that is opened.
LEMMA TxInvInitially == TxInit => TxInv
<1> SUFFICES ASSUME TxInit PROVE TxInv
  OBVIOUS
<1> USE DEF TxInit
<1>0. \A c \in Calls : call[c] = Idle /\ Idle.pc = "idle" /\ Idle.kind = "none"
  BY DEF Idle
<1>1. ImagesOK
  BY StoreAssumption DEF ImagesOK, Grown
<1>2. CallsOK
  <2>1. Idle \in CallTypes
    BY DEF Idle, CallTypes, Places
  <2>2. call \in [Calls -> CallTypes]
    BY <2>1
  <2> QED BY <1>0, <2>2
             DEF CallsOK, CallKnows, Kinds, PlainKinds, GuardedKinds, Idle
<1>3. QueueOK
  BY <1>0 DEF QueueOK, InQueue
<1>4. OwnerOK
  BY <1>0, NobodyIsNone DEF OwnerOK, InTx
<1>5. ViewOK
  BY <1>1, StoreAssumption DEF ViewOK, Images
<1>6. AnswersOK
  BY <1>0 DEF AnswersOK, AnswerOK, Kinds, PlainKinds, GuardedKinds
<1>7. MatchOK
  <2> SUFFICES ASSUME NEW m \in Calls
               PROVE  disk.mission[m] = Nobody /\ ~Admitted(disk, m)
    BY DEF MatchOK
  <2> QED BY StoreAssumption DEF Admitted
<1> QED BY <1>1, <1>2, <1>3, <1>4, <1>5, <1>6, <1>7 DEF TxInv

-----------------------------------------------------------------------------
(* Facts used by several actions *)

\* A row that an operation writes is a row.
LEMMA UpdatedIsRow ==
  ASSUME NEW kind \in PlainKinds \cup {"cancel", "propose"},
         NEW seen \in Rows, NEW cur \in Rows,
         kind \in PlainKinds => Allowed(kind, seen)
  PROVE  Updated(kind, seen, cur) \in Rows
<1>1. CASE kind = "resume"
  <2>1. seen.from \in States
    BY <1>1 DEF Allowed, Rows, PlainKinds
  <2> QED BY <1>1, <2>1 DEF Updated, Rows
<1>2. CASE kind = "pause"
  <2>1. Updated(kind, seen, cur) = [cur EXCEPT !.state = "paused", !.from = seen.state]
    BY <1>2 DEF Updated
  <2>2. seen.state \in States /\ "paused" \in States
    BY DEF Rows, States
  <2> QED BY <2>1, <2>2 DEF Rows
<1>3. CASE kind = "approve"
  <2>1. seen.state \in States /\ "ready" \in States
    BY DEF Rows, States
  <2>2. \E s \in States :
          Updated(kind, seen, cur) = [cur EXCEPT !.granted = TRUE, !.state = s]
    BY <1>3, <2>1 DEF Updated
  <2> QED BY <2>2 DEF Rows
<1>4. CASE kind \in {"wait", "restore", "complete", "cancel", "propose"}
  <2>1. {"waiting", "ready", "completed", "cancelled", "planning"} \subseteq States
    BY DEF States, Terminal
  <2>2. \E s \in States : Updated(kind, seen, cur) = [cur EXCEPT !.state = s]
    BY <1>4, <2>1 DEF Updated
  <2> QED BY <2>2 DEF Rows
<1> QED BY <1>1, <1>2, <1>3, <1>4 DEF PlainKinds

\* What grew twice has grown.
LEMMA GrownTwice ==
  ASSUME NEW a, NEW b, NEW d, Grown(a, b), Grown(b, d)
  PROVE  Grown(a, d)
BY DEF Grown

\* An image has grown from itself.
LEMMA GrownSelf ==
  ASSUME NEW a
  PROVE  Grown(a, a)
BY DEF Grown

\* An answer that is in an image is in every image grown from it.
LEMMA AnswerStays ==
  ASSUME NEW a, NEW b, Grown(a, b), NEW r, r.req \in Requests,
         r.payload \in Payloads, Answered(a, r)
  PROVE  Answered(b, r)
<1>1. [mission |-> r.mission, payload |-> r.payload] \in Admissions
  BY DEF Admissions, Answered
<1> QED BY <1>1, NobodyIsNone DEF Answered, Grown

\* A statement keeps the images, whether it commits at once or not.
LEMMA StoreKeepsImages ==
  ASSUME ImagesOK, NEW img \in Images, Grown(conn, img), Store(img),
         UNCHANGED <<open, tx, torn>>
  PROVE  ImagesOK' /\ Grown(disk, disk') /\ Grown(conn, conn')
<1>1. conn' = img /\ disk' = IF open THEN disk ELSE img
  BY DEF Store
<1>2. Grown(disk, img) /\ Grown(img, img)
  BY GrownTwice, GrownSelf DEF ImagesOK
<1>3. ImagesOK'
  <2>1. CASE open
    <3>1. disk' = disk /\ conn' = img
      BY <1>1, <2>1
    <3> QED BY <3>1, <1>2, <2>1 DEF ImagesOK
  <2>2. CASE ~open
    <3>1. disk' = img /\ conn' = img
      BY <1>1, <2>2
    <3> QED BY <3>1, <1>2, <2>2 DEF ImagesOK
  <2> QED BY <2>1, <2>2
<1>4. Grown(disk, disk')
  BY <1>1, <1>2, GrownSelf
<1> QED BY <1>1, <1>3, <1>4

\* What a call knows, it knows as long as its record stays.
LEMMA StillKnows ==
  ASSUME NEW d \in Calls, CallKnows(d), call'[d] = call[d], Grown(disk, disk')
  PROVE  CallKnows(d)'
BY DEF CallKnows, Grown

\* A step that changes nothing but what call c remembers.
LEMMA CallStep ==
  ASSUME TxInv, NEW c \in Calls, NEW r \in CallTypes,
         call' = [call EXCEPT ![c] = r],
         UNCHANGED <<disk, conn, open, tx, pending, deaf, view, torn>>,
         call[c].pc \notin Ended \cup {"record"},
         CallKnows(c)', AnswerOK(c)', InTx(c)' <=> InTx(c), QueueOK'
  PROVE  TxInv'
<1>1. \A d \in Calls \ {c} : call'[d] = call[d]
  BY DEF TxInv, CallsOK
<1>2. ImagesOK' /\ Grown(disk, disk')
  BY GrownSelf DEF TxInv, ImagesOK
<1>3. CallsOK'
  <2>1. call' \in [Calls -> CallTypes]
    BY DEF TxInv, CallsOK
  <2>2. \A d \in Calls \ {c} : CallKnows(d)'
    BY <1>1, <1>2, StillKnows DEF TxInv, CallsOK
  <2> QED BY <2>1, <2>2 DEF CallsOK
<1>4. OwnerOK'
  BY <1>1 DEF TxInv, OwnerOK, InTx
<1>5. ViewOK'
  BY DEF TxInv, ViewOK, Told
<1>6. AnswersOK'
  <2> SUFFICES ASSUME NEW d \in Calls \ {c} PROVE AnswerOK(d)'
    BY DEF AnswersOK
  <2>1. AnswerOK(d) /\ call'[d] = call[d]
    BY <1>1 DEF TxInv, AnswersOK
  <2>2. Joined(d) => Joined(d)'
    BY <2>1, <1>1 DEF Joined, Ended
  <2>3. Answered(conn, call[d])' <=> Answered(conn, call[d])
    BY <2>1 DEF Answered
  <2>4. Answered(disk, call[d])' <=> Answered(disk, call[d])
    BY <2>1 DEF Answered
  <2> QED BY <2>1, <2>2, <2>3, <2>4 DEF AnswerOK
<1>7. MatchOK'
  BY <1>1 DEF TxInv, MatchOK, Admitted
<1> QED BY <1>2, <1>3, <1>4, <1>5, <1>6, <1>7 DEF TxInv

\* Joining the queue.
LEMMA JoinsQueue ==
  ASSUME QueueOK, NEW c \in Calls, call[c].pc # "queued",
         call'[c].pc = "queued",
         \A d \in Calls \ {c} : call'[d] = call[d], queue' = Append(queue, c)
  PROVE  QueueOK'
<1>1. /\ queue' \in Seq(Calls)
      /\ Len(queue') = Len(queue) + 1
      /\ \A i \in 1 .. Len(queue) : queue'[i] = queue[i]
      /\ queue'[Len(queue) + 1] = c
      /\ Len(queue) \in Nat
  BY DEF QueueOK
<1>2. \A i \in 1 .. Len(queue) : queue[i] # c
  BY DEF QueueOK, InQueue
<1>3. \A i, j \in 1 .. Len(queue') : queue'[i] = queue'[j] => i = j
  <2> SUFFICES ASSUME NEW i \in 1 .. Len(queue'), NEW j \in 1 .. Len(queue'),
                      queue'[i] = queue'[j]
               PROVE  i = j
    OBVIOUS
  <2>1. CASE i \in 1 .. Len(queue) /\ j \in 1 .. Len(queue)
    BY <2>1, <1>1 DEF QueueOK
  <2>2. CASE i = Len(queue) + 1 \/ j = Len(queue) + 1
    BY <2>2, <1>1, <1>2
  <2> QED BY <2>1, <2>2, <1>1
<1>4. \A d \in Calls : call'[d].pc = "queued" <=> InQueue(d)'
  <2> SUFFICES ASSUME NEW d \in Calls
               PROVE  call'[d].pc = "queued" <=> InQueue(d)'
    OBVIOUS
  <2>1. CASE d = c
    BY <2>1, <1>1 DEF InQueue
  <2>2. CASE d # c
    BY <2>2, <1>1 DEF InQueue, QueueOK
  <2> QED BY <2>1, <2>2
<1> QED BY <1>1, <1>3, <1>4 DEF QueueOK

\* Leaving it.
LEMMA LeavesQueue ==
  ASSUME QueueOK, NEW c \in Calls, queue # <<>>, Head(queue) = c,
         queue' = Tail(queue), call'[c].pc # "queued",
         \A d \in Calls \ {c} : call'[d] = call[d]
  PROVE  QueueOK' /\ call[c].pc = "queued"
<1>1. /\ queue' \in Seq(Calls)
      /\ Len(queue') = Len(queue) - 1
      /\ \A i \in 1 .. Len(queue') : queue'[i] = queue[i + 1]
      /\ queue[1] = c
      /\ Len(queue) \in Nat \ {0}
  BY DEF QueueOK
<1>2. call[c].pc = "queued"
  BY <1>1 DEF QueueOK, InQueue
<1>3. \A i, j \in 1 .. Len(queue') : queue'[i] = queue'[j] => i = j
  <2> SUFFICES ASSUME NEW i \in 1 .. Len(queue'), NEW j \in 1 .. Len(queue'),
                      queue'[i] = queue'[j]
               PROVE  i = j
    OBVIOUS
  <2>1. i + 1 \in 1 .. Len(queue) /\ j + 1 \in 1 .. Len(queue)
    BY <1>1
  <2>2. queue[i + 1] = queue[j + 1]
    BY <1>1
  <2>3. i + 1 = j + 1
    BY <2>1, <2>2 DEF QueueOK
  <2> QED BY <2>3
<1>4. ~InQueue(c)'
  <2> SUFFICES ASSUME NEW i \in 1 .. Len(queue'), queue'[i] = c PROVE FALSE
    BY DEF InQueue
  <2>1. /\ i + 1 \in 1 .. Len(queue)
        /\ queue[i + 1] = queue[1]
        /\ 1 \in 1 .. Len(queue)
    BY <1>1
  <2>2. i + 1 = 1
    BY <2>1 DEF QueueOK
  <2> QED BY <2>2
<1>5. \A d \in Calls \ {c} : call'[d].pc = "queued" <=> InQueue(d)'
  <2> SUFFICES ASSUME NEW d \in Calls \ {c} PROVE InQueue(d) <=> InQueue(d)'
    BY DEF QueueOK
  <2>1. ASSUME NEW i \in 1 .. Len(queue), queue[i] = d PROVE InQueue(d)'
    <3>1. i # 1
      BY <2>1, <1>1
    <3>2. i - 1 \in 1 .. Len(queue') /\ queue'[i - 1] = queue[(i - 1) + 1]
      BY <3>1, <1>1
    <3>3. (i - 1) + 1 = i
      OBVIOUS
    <3> QED BY <2>1, <3>2, <3>3 DEF InQueue
  <2>2. ASSUME NEW i \in 1 .. Len(queue'), queue'[i] = d PROVE InQueue(d)
    <3>1. i + 1 \in 1 .. Len(queue) /\ queue[i + 1] = d
      BY <2>2, <1>1
    <3> QED BY <3>1 DEF InQueue
  <2> QED BY <2>1, <2>2 DEF InQueue
<1> QED BY <1>1, <1>2, <1>3, <1>4, <1>5 DEF QueueOK

\* The queue stays when nobody is queued or taken from it.
LEMMA QueueStays ==
  ASSUME QueueOK, NEW c \in Calls, queue' = queue,
         call[c].pc # "queued", call'[c].pc # "queued",
         \A d \in Calls \ {c} : call'[d] = call[d]
  PROVE  QueueOK'
BY DEF QueueOK, InQueue

-----------------------------------------------------------------------------
(* Calls begin, and steps that write nothing *)

\* An admission, a read and an operation begin.
LEMMA StartAdmitInv ==
  ASSUME TxInv, NEW c \in Calls, StartAdmit(c)
  PROVE  TxInv'
<1>1. PICK q \in Requests, p \in Payloads :
        call' = [call EXCEPT ![c] = [Idle EXCEPT !.kind = "admit", !.req = q,
                                        !.payload = p, !.pc = "queued"]]
  BY DEF StartAdmit
<1> DEFINE r == [Idle EXCEPT !.kind = "admit", !.req = q, !.payload = p,
                             !.pc = "queued"]
<1>2. /\ r.kind = "admit" /\ r.pc = "queued" /\ r.req = q /\ r.payload = p
      /\ r \in CallTypes
  BY DEF Idle, CallTypes, Places
<1>3. call'[c] = r /\ \A d \in Calls \ {c} : call'[d] = call[d]
  BY <1>1 DEF TxInv, CallsOK
<1>4. call[c].pc = "idle"
  BY DEF StartAdmit
<1> HIDE DEF r
<1>5. QueueOK'
  BY <1>2, <1>3, <1>4, JoinsQueue DEF StartAdmit, TxInv
<1>6. CallKnows(c)'
  BY <1>2, <1>3 DEF CallKnows, Kinds, PlainKinds, GuardedKinds
<1>7. AnswerOK(c)'
  BY <1>2, <1>3 DEF AnswerOK, PlainKinds, GuardedKinds
<1>8. InTx(c)' <=> InTx(c)
  BY <1>2, <1>3, <1>4 DEF InTx
<1>9. call' = [call EXCEPT ![c] = r]
  BY <1>1 DEF r
<1> QED BY <1>2, <1>4, <1>5, <1>6, <1>7, <1>8, <1>9, CallStep
           DEF StartAdmit, Ended

LEMMA StartReadInv ==
  ASSUME TxInv, NEW c \in Calls, StartRead(c)
  PROVE  TxInv'
<1> DEFINE r == [Idle EXCEPT !.kind = "read", !.pc = "queued"]
<1>1. call' = [call EXCEPT ![c] = r] /\ call[c].pc = "idle"
  BY DEF StartRead
<1>2. r.kind = "read" /\ r.pc = "queued" /\ r \in CallTypes
  BY DEF Idle, CallTypes, Places
<1> HIDE DEF r
<1>3. call'[c] = r /\ \A d \in Calls \ {c} : call'[d] = call[d]
  BY <1>1 DEF TxInv, CallsOK
<1>5. QueueOK'
  BY <1>1, <1>2, <1>3, JoinsQueue DEF StartRead, TxInv
<1>6. CallKnows(c)'
  BY <1>2, <1>3 DEF CallKnows, Kinds, PlainKinds, GuardedKinds
<1>7. AnswerOK(c)'
  BY <1>2, <1>3 DEF AnswerOK, PlainKinds, GuardedKinds
<1>8. InTx(c)' <=> InTx(c)
  BY <1>1, <1>2, <1>3 DEF InTx
<1> QED BY <1>1, <1>2, <1>5, <1>6, <1>7, <1>8, CallStep DEF StartRead, Ended

LEMMA StartOnMissionInv ==
  ASSUME TxInv, NEW c \in Calls, StartOnMission(c)
  PROVE  TxInv'
<1>1. PICK k \in Kinds, m \in Ids :
        disk.mission[m] # Nobody /\ \E v \in Wanted(k, m) :
        call' = [call EXCEPT ![c] =
                [Idle EXCEPT !.kind = k, !.mission = m, !.rev = v,
                             !.seen = conn.mission[m], !.pc = "guard"]]
  BY DEF StartOnMission, Kinds
<1>2. PICK v \in Wanted(k, m) :
        call' = [call EXCEPT ![c] =
                [Idle EXCEPT !.kind = k, !.mission = m, !.rev = v,
                             !.seen = conn.mission[m], !.pc = "guard"]]
  BY <1>1
<1> DEFINE r == [Idle EXCEPT !.kind = k, !.mission = m, !.rev = v,
                             !.seen = conn.mission[m], !.pc = "guard"]
<1>3. v \in Ids \cup {Nobody} /\ (k = "accept" => v \in Ids)
  BY DEF Wanted
<1>4. conn.mission[m] \in Rows
  BY <1>1 DEF TxInv, ImagesOK, Images, Grown
<1>5. /\ r.kind = k /\ r.pc = "guard" /\ r.mission = m /\ r.rev = v
      /\ r.seen \in Rows /\ r \in CallTypes
  BY <1>3, <1>4 DEF Idle, CallTypes, Places
<1>6. call' = [call EXCEPT ![c] = r] /\ call[c].pc = "idle"
  BY <1>2 DEF StartOnMission
<1> HIDE DEF r
<1>7. call'[c] = r /\ \A d \in Calls \ {c} : call'[d] = call[d]
  BY <1>6 DEF TxInv, CallsOK
<1>8. UNCHANGED <<disk, conn, open, tx, queue, pending, deaf, view, torn>>
  BY DEF StartOnMission, storeVars
<1>9. QueueOK'
  BY <1>5, <1>6, <1>7, <1>8, QueueStays DEF TxInv
<1>10. CallKnows(c)'
  BY <1>1, <1>3, <1>5, <1>7, <1>8
     DEF CallKnows, Kinds, PlainKinds, GuardedKinds
<1>11. AnswerOK(c)'
  BY <1>5, <1>7 DEF AnswerOK, PlainKinds, GuardedKinds
<1>12. InTx(c)' <=> InTx(c)
  BY <1>5, <1>6, <1>7 DEF InTx
<1> QED BY <1>5, <1>6, <1>8, <1>9, <1>10, <1>11, <1>12, CallStep DEF Ended

\* A step that moves call c from one place to another.
LEMMA Moves ==
  ASSUME TxInv, NEW c \in Calls, NEW pc \in Places, call' = Goto(c, pc)
  PROVE  /\ call'[c] \in CallTypes /\ call'[c] = [call[c] EXCEPT !.pc = pc]
         /\ call' = [call EXCEPT ![c] = call'[c]]
         /\ call'[c].pc = pc
         /\ call'[c].kind = call[c].kind /\ call'[c].mission = call[c].mission
         /\ call'[c].req = call[c].req /\ call'[c].payload = call[c].payload
         /\ call'[c].rev = call[c].rev /\ call'[c].seen = call[c].seen
         /\ call'[c].cur = call[c].cur /\ call'[c].host = call[c].host
         /\ \A d \in Calls \ {c} : call'[d] = call[d]
BY DEF TxInv, CallsOK, CallTypes, Goto

\* A step that moves call c and changes nothing else.
LEMMA MoveStep ==
  ASSUME TxInv, NEW c \in Calls, NEW pc \in Places, call' = Goto(c, pc),
         UNCHANGED <<disk, conn, open, tx, pending, deaf, view, torn>>,
         call[c].pc \notin Ended \cup {"record"},
         CallKnows(c)', AnswerOK(c)', InTx(c)' <=> InTx(c), QueueOK'
  PROVE  TxInv'
<1> DEFINE r == [call[c] EXCEPT !.pc = pc]
<1>1. r \in CallTypes /\ call' = [call EXCEPT ![c] = r]
  BY DEF TxInv, CallsOK, CallTypes, Goto
<1> HIDE DEF r
<1> QED BY <1>1, CallStep

\* An operation refuses.
LEMMA RefusedInv ==
  ASSUME TxInv, NEW c \in Calls, GuardFails(c) \/ AcceptRefused(c)
  PROVE  TxInv'
<1>1. /\ call[c].pc = "guard" /\ call' = Goto(c, "refused")
      /\ UNCHANGED <<disk, conn, open, tx, queue, pending, deaf, view, torn>>
  BY DEF GuardFails, AcceptRefused, storeVars
<1>2. "refused" \in Places
  BY DEF Places, Ended
<1>3. CallKnows(c)'
  BY <1>1, <1>2, Moves, ZenonT(60) DEF TxInv, CallsOK, CallKnows
<1>4. AnswerOK(c)'
  BY <1>1, <1>2, Moves DEF AnswerOK
<1>5. InTx(c)' <=> InTx(c)
  BY <1>1, <1>2, Moves DEF InTx
<1>6. QueueOK'
  BY <1>1, <1>2, Moves, QueueStays DEF TxInv
<1> QED BY <1>1, <1>2, <1>3, <1>4, <1>5, <1>6, MoveStep DEF Ended

\* An operation waits for its transaction.
LEMMA EnqueueInv ==
  ASSUME TxInv, NEW c \in Calls, Enqueue(c)
  PROVE  TxInv'
<1>1. /\ call[c].pc = "guard" /\ call' = Goto(c, "queued")
      /\ call[c].kind \in GuardedKinds /\ queue' = Append(queue, c)
      /\ UNCHANGED <<disk, conn, open, tx, pending, deaf, view, torn>>
  BY DEF Enqueue
<1>2. "queued" \in Places
  BY DEF Places
<1>3. CallKnows(c)'
  <2>1. CallKnows(c)
    BY DEF TxInv, CallsOK
  <2>2. call'[c].pc = "queued"
    BY <1>1, <1>2, Moves
  <2>3. /\ call'[c].kind = call[c].kind /\ call'[c].mission = call[c].mission
        /\ call'[c].req = call[c].req /\ call'[c].payload = call[c].payload
        /\ call'[c].rev = call[c].rev /\ call'[c].seen = call[c].seen
        /\ call'[c].cur = call[c].cur /\ call'[c].host = call[c].host
    BY <1>1, <1>2, Moves
  <2> QED BY <1>1, <2>1, <2>2, <2>3 DEF CallKnows
<1>4. AnswerOK(c)'
  BY <1>1, <1>2, Moves DEF AnswerOK
<1>5. InTx(c)' <=> InTx(c)
  BY <1>1, <1>2, Moves DEF InTx
<1>6. QueueOK'
  BY <1>1, <1>2, Moves, JoinsQueue DEF TxInv
<1> QED BY <1>1, <1>2, <1>3, <1>4, <1>5, <1>6, MoveStep DEF Ended

\* updateMission reads; the row is there.
LEMMA RereadInv ==
  ASSUME TxInv, NEW c \in Calls, Reread(c)
  PROVE  TxInv'
<1> DEFINE cur == conn.mission[call[c].mission]
           pc == IF cur # Nobody THEN "write"
                 ELSE IF tx = c THEN "rollback" ELSE "failed"
           r == [call[c] EXCEPT !.cur = cur, !.pc = pc]
<1>1. /\ call' = [call EXCEPT ![c] = r]
      /\ UNCHANGED <<disk, conn, open, tx, queue, pending, deaf, view, torn>>
  BY DEF Reread, storeVars, TxInv, CallsOK, CallTypes
<1>2. \/ call[c].pc = "guard" /\ call[c].kind \in PlainKinds
         /\ Allowed(call[c].kind, call[c].seen)
      \/ call[c].pc = "reread" /\ call[c].kind \in GuardedKinds
  BY DEF Reread, TxInv, CallsOK, CallKnows
<1>3. call[c].kind \in Kinds /\ call[c].mission \in Ids
      /\ disk.mission[call[c].mission] # Nobody
  BY <1>2 DEF Kinds, TxInv, CallsOK, CallKnows
<1>4. cur \in Rows
  BY <1>3 DEF TxInv, ImagesOK, Images, Grown
<1>5. pc = "write"
  BY <1>4, NobodyIsNone
<1>6. /\ r \in CallTypes /\ r.pc = "write" /\ r.cur = cur
      /\ r.kind = call[c].kind
      /\ r.seen = call[c].seen /\ r.mission = call[c].mission
      /\ r.rev = call[c].rev
  BY <1>4, <1>5, ZenonT(60) DEF TxInv, CallsOK, CallTypes, Places
<1> HIDE DEF r, cur, pc
<1>7. call'[c] = r /\ \A d \in Calls \ {c} : call'[d] = call[d]
  BY <1>1 DEF TxInv, CallsOK
<1>8. CallKnows(c)'
  BY <1>1, <1>2, <1>3, <1>4, <1>6, <1>7
     DEF TxInv, CallsOK, CallKnows, Kinds, PlainKinds, GuardedKinds
<1>9. AnswerOK(c)'
  BY <1>2, <1>6, <1>7 DEF AnswerOK, PlainKinds, GuardedKinds
<1>10. InTx(c)' <=> InTx(c)
  BY <1>2, <1>6, <1>7 DEF InTx, PlainKinds, GuardedKinds
<1>11. QueueOK'
  BY <1>1, <1>2, <1>6, <1>7, QueueStays DEF TxInv
<1> QED BY <1>1, <1>2, <1>6, <1>8, <1>9, <1>10, <1>11, CallStep DEF Ended

\* proposePlan counts; the number is natural.
LEMMA CountInv ==
  ASSUME TxInv, NEW c \in Calls, Count(c)
  PROVE  TxInv'
<1> DEFINE n == Cardinality(RevisionsOf(conn, call[c].mission))
           r == [call[c] EXCEPT !.pc = "save", !.number = n]
<1>1. /\ call' = [call EXCEPT ![c] = r] /\ call[c].pc = "count"
      /\ UNCHANGED <<disk, conn, open, tx, queue, pending, deaf, view, torn>>
  BY DEF Count, storeVars, TxInv, CallsOK, CallTypes
<1>2. n \in Nat
  <2>1. RevisionsOf(conn, call[c].mission) \in SUBSET Ids
    BY DEF RevisionsOf
  <2> QED BY <2>1, StoreAssumption, FS_Subset, FS_CardinalityType
<1>3. /\ r \in CallTypes /\ r.pc = "save" /\ r.kind = call[c].kind
      /\ r.seen = call[c].seen /\ r.mission = call[c].mission
  BY <1>2, ZenonT(60) DEF TxInv, CallsOK, CallTypes, Places
<1> HIDE DEF r, n
<1>4. call'[c] = r /\ \A d \in Calls \ {c} : call'[d] = call[d]
  BY <1>1 DEF TxInv, CallsOK
<1>5. call[c].kind = "propose"
  BY <1>1 DEF TxInv, CallsOK, CallKnows
<1>6. CallKnows(c)'
  BY <1>1, <1>3, <1>4, <1>5 DEF TxInv, CallsOK, CallKnows, Kinds
<1>7. AnswerOK(c)'
  BY <1>3, <1>4, <1>5 DEF AnswerOK, PlainKinds
<1>8. InTx(c)' <=> InTx(c)
  BY <1>1, <1>3, <1>4 DEF InTx
<1>9. QueueOK'
  BY <1>1, <1>3, <1>4, QueueStays DEF TxInv
<1> QED BY <1>1, <1>3, <1>6, <1>7, <1>8, <1>9, CallStep DEF Ended

-----------------------------------------------------------------------------
(* Steps that write *)

\* The other calls do not notice a statement, unless it is theirs.
LEMMA StatementAndOthers ==
  ASSUME TxInv, ImagesOK', NEW c \in Calls, NEW img \in Images,
         Grown(conn, img), Store(img), UNCHANGED <<open, tx, torn>>,
         tx = c \/ img.admission = conn.admission,
         \A d \in Calls \ {c} : call'[d] = call[d],
         call[c].pc \notin Ended
  PROVE  \A d \in Calls \ {c} : CallKnows(d)' /\ AnswerOK(d)'
<1> SUFFICES ASSUME NEW d \in Calls \ {c} PROVE CallKnows(d)' /\ AnswerOK(d)'
  OBVIOUS
<1>1. Grown(disk, disk') /\ Grown(conn, conn')
  BY StoreKeepsImages DEF TxInv
<1>2. CallKnows(d) /\ AnswerOK(d) /\ call'[d] = call[d]
      /\ call[d] \in CallTypes
  BY DEF TxInv, CallsOK, AnswersOK
<1>3. CallKnows(d)'
  BY <1>1, <1>2, StillKnows
<1>4. /\ call[d].kind = "admit" =>
           call[d].req \in Requests /\ call[d].payload \in Payloads
      /\ call[d].pc \in {"create", "record", "clash", "conflict"} =>
           call[d].kind = "admit"
      /\ call[d].pc = "record" => call[d].mission \in Ids
  BY <1>2 DEF CallKnows, Ids
<1>5. call[d].pc \in {"create", "record", "commit", "clash"} => tx = d
  BY DEF TxInv, OwnerOK, InTx
<1>6. Answered(disk, call[d]) /\ call[d].kind = "admit" =>
        Answered(disk, call[d])'
  BY <1>1, <1>2, <1>4, AnswerStays
<1>7. Answered(conn, call[d]) /\ call[d].kind = "admit" =>
        Answered(conn, call[d])'
  BY <1>1, <1>2, <1>4, AnswerStays
<1>8. Joined(d) => Joined(d)'
  BY <1>1, <1>2 DEF Joined, Grown, Ended
<1>9. conn' = img
  BY DEF Store
<1> QED BY <1>1, <1>2, <1>3, <1>4, <1>5, <1>6, <1>7, <1>8, <1>9
        DEF AnswerOK, Grown

\* The image after PutMission, and what observers know.
With(c, m, r) == [conn EXCEPT !.mission[m] = r, !.done = @ \cup {c}]

\* That image is one, and has grown from what the connection reads.
LEMMA PutIsImage ==
  ASSUME ImagesOK, NEW c \in Calls, NEW m \in Ids, NEW r \in Rows
  PROVE  /\ With(c, m, r) \in Images
         /\ Grown(conn, With(c, m, r))
         /\ With(c, m, r).admission = conn.admission
         /\ With(c, m, r).mission = [conn.mission EXCEPT ![m] = r]
         /\ With(c, m, r).done = conn.done \cup {c}
<1> DEFINE img == With(c, m, r)
<1>1. /\ img \in Images
      /\ img.admission = conn.admission
      /\ img.mission = [conn.mission EXCEPT ![m] = r]
      /\ img.done = conn.done \cup {c}
  BY DEF ImagesOK, Images, With
<1> HIDE DEF img
<1>2. Grown(conn, img)
  BY <1>1, NobodyIsNone DEF Grown, ImagesOK, Images
<1> QED BY <1>1, <1>2 DEF img

\* Observers know, or will be told, what PutMission writes.
LEMMA PutKeepsView ==
  ASSUME TxInv, NEW c \in Calls, NEW m \in Ids, NEW r \in Rows,
         PutMission(c, m, r), UNCHANGED <<open, tx, deaf, torn>>
  PROVE  ViewOK'
<1> DEFINE img == With(c, m, r)
<1>1. img.mission = [conn.mission EXCEPT ![m] = r] /\ img \in Images
  BY PutIsImage DEF TxInv
<1>2. conn' = img /\ (disk' = IF open THEN disk ELSE img)
  BY DEF PutMission, Store, With
<1> HIDE DEF img
<1>3. /\ conn.mission \in [Ids -> Rows \cup {Nobody}]
      /\ disk.mission \in [Ids -> Rows \cup {Nobody}]
      /\ view \in [Ids -> Rows \cup {Nobody}]
      /\ pending \in [Ids -> Rows \cup {Nobody}]
  BY DEF TxInv, ImagesOK, ViewOK, Images
<1>4. CASE tx = Nobody
  <2>1. ~open /\ conn = disk /\ ~open' /\ tx' = Nobody
    BY <1>4 DEF TxInv, ImagesOK
  <2>2. /\ pending' = pending
        /\ view' = IF deaf THEN view ELSE [view EXCEPT ![m] = r]
    BY <1>4 DEF PutMission, Publish
  <2>3. disk' = img /\ (~deaf => view = disk.mission)
    BY <1>2, <2>1, <1>4 DEF TxInv, ViewOK
  <2>4. ~deaf => view' = disk'.mission
    BY <1>1, <2>1, <2>2, <2>3
  <2> QED BY <1>3, <1>4, <2>1, <2>2, <2>4 DEF TxInv, ViewOK
<1>5. CASE tx # Nobody
  <2>1. view' = view /\ pending' = [pending EXCEPT ![m] = r]
    BY <1>5 DEF PutMission, Publish
  <2>2. CASE open /\ ~deaf
    <3>1. \A i \in Ids : conn.mission[i] = Told[i]
      BY <2>2 DEF TxInv, ViewOK
    <3>2. \A i \in Ids : conn'.mission[i] = Told'[i]
      BY <3>1, <1>1, <1>2, <1>3, <2>1, NobodyIsNone DEF Told
    <3>3. disk' = disk /\ view = disk.mission
      BY <2>2, <1>2 DEF TxInv, ViewOK
    <3> QED BY <3>2, <3>3, <2>1, <1>3, <1>5 DEF TxInv, ViewOK
  <2>3. CASE ~(open /\ ~deaf)
    BY <2>3, <2>1, <1>3, <1>5 DEF TxInv, ViewOK
  <2> QED BY <2>2, <2>3
<1> QED BY <1>4, <1>5

\* A write over a mission that is there.
LEMMA WriteInv ==
  ASSUME TxInv, NEW c \in Calls, Write(c)
  PROVE  TxInv'
<1> DEFINE m == call[c].mission
           cur == call[c].cur
           row == IF call[c].kind = "accept" THEN Accepted(c, cur)
                  ELSE Updated(call[c].kind, call[c].seen, cur)
           img == With(c, m, row)
           pc == IF tx = c THEN "commit" ELSE "acked"
           r == [call[c] EXCEPT !.host = Host(c), !.pc = pc]
<1>1. /\ PutMission(c, m, row) /\ call[c].pc = "write"
      /\ UNCHANGED <<open, tx, queue, deaf, torn>>
  BY DEF Write
<1>2. call' = [call EXCEPT ![c] = r]
  BY DEF Write, TxInv, CallsOK, CallTypes
<1>3. /\ call[c].kind \in Kinds /\ m \in Ids /\ cur \in Rows
      /\ call[c].seen \in Rows /\ disk.mission[m] # Nobody
      /\ call[c].kind \in PlainKinds => Allowed(call[c].kind, call[c].seen)
      /\ call[c].kind = "accept" => call[c].rev \in Ids
  BY <1>1 DEF TxInv, CallsOK, CallKnows
<1>4. row \in Rows
  <2>1. CASE call[c].kind = "accept"
    BY <2>1, <1>3 DEF Accepted, Rows, States
  <2>2. CASE call[c].kind # "accept"
    BY <2>2, <1>3, UpdatedIsRow DEF Kinds, GuardedKinds
  <2> QED BY <2>1, <2>2
<1>5. /\ img \in Images /\ Grown(conn, img) /\ img.admission = conn.admission
      /\ img.mission = [conn.mission EXCEPT ![m] = row]
      /\ img.done = conn.done \cup {c}
  BY <1>3, <1>4, PutIsImage DEF TxInv
<1>6. Store(img)
  BY <1>1 DEF PutMission, With
<1>7. Host(c) \in Calls \cup {Nobody}
  BY DEF Host, TxInv, ImagesOK
<1>8. /\ r \in CallTypes /\ r.pc = pc /\ r.kind = call[c].kind
      /\ r.seen = call[c].seen /\ r.mission = m /\ r.rev = call[c].rev
      /\ r.host = Host(c)
  BY <1>7, ZenonT(60) DEF TxInv, CallsOK, CallTypes, Places, Ended
<1>9. ViewOK'
  BY <1>1, <1>3, <1>4, PutKeepsView
<1> HIDE DEF row, img, r
<1>10. call'[c] = r /\ \A d \in Calls \ {c} : call'[d] = call[d]
  BY <1>2 DEF TxInv, CallsOK
<1>11. ImagesOK' /\ Grown(disk, disk') /\ Grown(conn, conn')
  BY <1>1, <1>5, <1>6, StoreKeepsImages DEF TxInv
<1>12. \A d \in Calls \ {c} : CallKnows(d)' /\ AnswerOK(d)'
  BY <1>1, <1>5, <1>6, <1>10, <1>11, StatementAndOthers DEF Ended
<1>13. tx = c <=> call[c].kind \in GuardedKinds
  BY <1>1 DEF TxInv, OwnerOK, InTx
<1>14. CallKnows(c)'
  BY <1>3, <1>8, <1>10, <1>11, <1>13
     DEF CallKnows, Grown, Kinds, PlainKinds, GuardedKinds
<1>15. conn' = img /\ disk' = IF open THEN disk ELSE img
  BY <1>6 DEF Store
<1>16. AnswerOK(c)'
  <2>1. CASE tx = c
    BY <2>1, <1>5, <1>8, <1>10, <1>13, <1>15
       DEF AnswerOK, PlainKinds, GuardedKinds
  <2>2. CASE tx # c
    <3>1. call[c].kind \in PlainKinds /\ r.pc = "acked"
      BY <2>2, <1>3, <1>8, <1>13 DEF Kinds
    <3>2. CASE open
      <4>1. r.host = tx /\ tx \in Calls /\ tx' = tx
        BY <3>2, <2>2, <1>1, <1>8 DEF Host, TxInv, ImagesOK
      <4>2. c \in conn'.done
        BY <1>5, <1>15
      <4> QED BY <3>1, <4>1, <4>2, <1>8, <1>10
              DEF AnswerOK, Joined, PlainKinds, GuardedKinds
    <3>3. CASE ~open
      <4>1. c \in disk'.done
        BY <3>3, <1>5, <1>15
      <4> QED BY <3>1, <4>1, <1>8, <1>10 DEF AnswerOK, PlainKinds, GuardedKinds
    <3> QED BY <3>2, <3>3
  <2> QED BY <2>1, <2>2
<1>17. CallsOK' /\ AnswersOK'
  BY <1>2, <1>8, <1>10, <1>12, <1>14, <1>16 DEF TxInv, CallsOK, AnswersOK
<1>18. OwnerOK'
  BY <1>1, <1>8, <1>10, <1>13 DEF TxInv, OwnerOK, InTx
<1>19. QueueOK'
  BY <1>1, <1>8, <1>10, QueueStays DEF TxInv
<1>20. MatchOK'
  <2> SUFFICES ASSUME ~torn', NEW i \in Calls
               PROVE  /\ disk'.mission[i] # Nobody <=> Admitted(disk', i)
                      /\ Admitted(conn', i) => conn'.mission[i] # Nobody
                      /\ conn'.mission[i] # Nobody =>
                           \/ Admitted(conn', i)
                           \/ tx' = i /\ call'[i].pc = "record"
    BY DEF MatchOK
  <2>1. i \in Ids /\ conn.mission \in [Ids -> Rows \cup {Nobody}]
    BY DEF Ids, TxInv, ImagesOK, Images
  <2>2. conn.mission[m] # Nobody /\ conn'.mission[m] = row /\ row # Nobody
    BY <1>3, <1>4, <1>5, <1>15, <2>1, NobodyIsNone DEF TxInv, ImagesOK, Grown
  <2>3. conn'.mission[i] # Nobody <=> conn.mission[i] # Nobody
    BY <2>1, <2>2, <1>5, <1>15
  <2>4. Admitted(conn', i) <=> Admitted(conn, i)
    BY <1>5, <1>15 DEF Admitted
  <2>5. /\ disk.mission[i] # Nobody <=> Admitted(disk, i)
        /\ Admitted(conn, i) => conn.mission[i] # Nobody
        /\ conn.mission[i] # Nobody => \/ Admitted(conn, i)
                                       \/ tx = i /\ call[i].pc = "record"
    BY <1>1 DEF TxInv, MatchOK
  <2>6. call[i].pc = "record" => i # c /\ call'[i].pc = "record"
    BY <1>1, <1>10
  <2>7. CASE open
    BY <2>3, <2>4, <2>5, <2>6, <2>7, <1>1, <1>15
  <2>8. CASE ~open
    <3>1. conn = disk /\ tx = Nobody /\ disk' = conn' /\ i # Nobody
      BY <2>8, <1>1, <1>15, NobodyIsNone DEF TxInv, ImagesOK
    <3> QED BY <2>3, <2>4, <2>5, <3>1, <1>1
  <2> QED BY <2>7, <2>8
<1> QED BY <1>9, <1>11, <1>17, <1>18, <1>19, <1>20 DEF TxInv

\* The owner goes on inside its transaction.
LEMMA OwnerStays ==
  ASSUME OwnerOK, NEW c \in Calls, tx = c, tx' = tx, InTx(c)',
         \A d \in Calls \ {c} : call'[d] = call[d]
  PROVE  OwnerOK'
BY DEF OwnerOK, InTx

\* The mission of an admission, whose name nobody has.
LEMMA CreateInv ==
  ASSUME TxInv, NEW c \in Calls, Create(c)
  PROVE  TxInv'
<1> DEFINE img == With(c, c, NewRow)
           r == [call[c] EXCEPT !.mission = c, !.pc = "record"]
<1>1. /\ PutMission(c, c, NewRow) /\ call[c].pc = "create"
      /\ UNCHANGED <<open, tx, queue, deaf, torn>>
      /\ c \in Ids /\ c # Nobody
  BY NobodyIsNone DEF Create, Ids
<1>2. call' = [call EXCEPT ![c] = r]
  BY DEF Create, TxInv, CallsOK, CallTypes
<1>3. /\ img \in Images /\ Grown(conn, img) /\ img.admission = conn.admission
      /\ img.mission = [conn.mission EXCEPT ![c] = NewRow]
      /\ img.done = conn.done \cup {c}
  BY <1>1, NewRowIsRow, PutIsImage DEF TxInv
<1>4. Store(img)
  BY <1>1 DEF PutMission, With
<1>5. /\ r \in CallTypes /\ r.pc = "record" /\ r.kind = call[c].kind
      /\ r.mission = c /\ r.req = call[c].req /\ r.payload = call[c].payload
  BY <1>1, ZenonT(60) DEF TxInv, CallsOK, CallTypes, Places
<1>6. ViewOK'
  BY <1>1, NewRowIsRow, PutKeepsView
<1> HIDE DEF img, r
<1>7. call'[c] = r /\ \A d \in Calls \ {c} : call'[d] = call[d]
  BY <1>2 DEF TxInv, CallsOK
<1>8. ImagesOK'
  BY <1>1, <1>3, <1>4, StoreKeepsImages DEF TxInv
<1>9. \A d \in Calls \ {c} : CallKnows(d)' /\ AnswerOK(d)'
  BY <1>1, <1>3, <1>4, <1>7, <1>8, StatementAndOthers DEF Ended
<1>10. tx = c
  BY <1>1 DEF TxInv, OwnerOK, InTx
<1>11. conn' = img /\ disk' = IF open THEN disk ELSE img
  BY <1>4 DEF Store
<1>12. call[c].kind = "admit" /\ CallKnows(c) /\ AnswerOK(c)
  BY <1>1 DEF TxInv, CallsOK, CallKnows, AnswersOK
<1>13. CallKnows(c)'
  BY <1>5, <1>7, <1>12 DEF CallKnows, Kinds, PlainKinds, GuardedKinds
<1>14. conn'.mission[c] = NewRow /\ NewRow # Nobody
  BY <1>1, <1>3, <1>11, NewRowIsRow, NobodyIsNone DEF TxInv, ImagesOK, Images
<1>15. AnswerOK(c)'
  BY <1>1, <1>3, <1>5, <1>7, <1>11, <1>12, <1>14
     DEF AnswerOK, PlainKinds, GuardedKinds
<1>16. CallsOK' /\ AnswersOK'
  BY <1>2, <1>5, <1>7, <1>9, <1>13, <1>15 DEF TxInv, CallsOK, AnswersOK
<1>17. OwnerOK'
  BY <1>1, <1>5, <1>7, <1>10 DEF TxInv, OwnerOK, InTx
<1>18. QueueOK'
  BY <1>1, <1>5, <1>7, QueueStays DEF TxInv
<1>19. MatchOK'
  <2> SUFFICES ASSUME ~torn', NEW i \in Calls
               PROVE  /\ disk'.mission[i] # Nobody <=> Admitted(disk', i)
                      /\ Admitted(conn', i) => conn'.mission[i] # Nobody
                      /\ conn'.mission[i] # Nobody =>
                           \/ Admitted(conn', i)
                           \/ tx' = i /\ call'[i].pc = "record"
    BY DEF MatchOK
  <2>1. open /\ disk' = disk
    BY <1>1, <1>10, <1>11 DEF TxInv, ImagesOK
  <2>2. Admitted(conn', i) <=> Admitted(conn, i)
    BY <1>3, <1>11 DEF Admitted
  <2>3. /\ disk.mission[i] # Nobody <=> Admitted(disk, i)
        /\ Admitted(conn, i) => conn.mission[i] # Nobody
        /\ conn.mission[i] # Nobody => \/ Admitted(conn, i)
                                       \/ tx = i /\ call[i].pc = "record"
    BY <1>1 DEF TxInv, MatchOK
  <2>4. CASE i = c
    BY <2>4, <2>1, <2>3, <1>1, <1>5, <1>7, <1>10, <1>14
  <2>5. CASE i # c
    <3>1. conn'.mission[i] = conn.mission[i]
      BY <2>5, <1>3, <1>11 DEF Ids, TxInv, ImagesOK, Images
    <3> QED BY <3>1, <2>1, <2>2, <2>3, <2>5, <1>10
  <2> QED BY <2>4, <2>5
<1> QED BY <1>6, <1>8, <1>16, <1>17, <1>18, <1>19 DEF TxInv

\* Its admission, where there was none.
LEMMA RecordInv ==
  ASSUME TxInv, NEW c \in Calls, Record(c)
  PROVE  TxInv'
<1> DEFINE q == call[c].req
           a == [mission |-> call[c].mission, payload |-> call[c].payload]
           img == [conn EXCEPT !.admission[q] = a]
<1>1. /\ Store(img) /\ call[c].pc = "record" /\ call' = Goto(c, "commit")
      /\ UNCHANGED <<open, tx, queue, pending, deaf, view, torn>>
  BY DEF Record
<1>2. /\ call[c].kind = "admit" /\ q \in Requests
      /\ call[c].payload \in Payloads
      /\ call[c].mission = c /\ c \in Ids /\ CallKnows(c) /\ AnswerOK(c)
  BY <1>1 DEF TxInv, CallsOK, CallKnows, AnswersOK, Ids
<1>3. a \in Admissions /\ a # Nobody /\ a.mission = c
  BY <1>2, NobodyIsNone DEF Admissions
<1>4. conn.admission[q] = Nobody /\ (open => conn.mission[c] # Nobody)
  BY <1>1, <1>2 DEF AnswerOK
<1>5. /\ img \in Images /\ img.mission = conn.mission /\ img.done = conn.done
      /\ img.admission = [conn.admission EXCEPT ![q] = a]
  BY <1>2, <1>3 DEF TxInv, ImagesOK, Images
<1> HIDE DEF img, a
<1>6. img.admission[q] = a /\ \A p \in Requests \ {q} :
                                  img.admission[p] = conn.admission[p]
  BY <1>2, <1>5 DEF TxInv, ImagesOK, Images
<1>7. Grown(conn, img)
  BY <1>4, <1>5, <1>6 DEF Grown
<1>8. "commit" \in Places
  BY DEF Places
<1>9. tx = c
  BY <1>1 DEF TxInv, OwnerOK, InTx
<1>10. conn' = img /\ disk' = IF open THEN disk ELSE img
  BY <1>1 DEF Store
<1>11. ImagesOK'
  BY <1>1, <1>5, <1>7, StoreKeepsImages DEF TxInv
<1>12. \A d \in Calls \ {c} : CallKnows(d)' /\ AnswerOK(d)'
  BY <1>1, <1>5, <1>7, <1>8, <1>9, <1>11, Moves, StatementAndOthers DEF Ended
<1>13. CallKnows(c)'
  BY <1>1, <1>2, <1>8, Moves DEF CallKnows, Kinds, PlainKinds, GuardedKinds
<1>14. AnswerOK(c)'
  <2>1. /\ call'[c].pc = "commit" /\ call'[c].kind = "admit"
        /\ call'[c].req = q /\ call'[c].mission = c
        /\ call'[c].payload = call[c].payload
    BY <1>1, <1>2, <1>8, Moves
  <2>2. open => Answered(img, call'[c])
    BY <2>1, <1>2, <1>4, <1>5, <1>6 DEF Answered, a
  <2> QED BY <2>1, <2>2, <1>1, <1>10 DEF AnswerOK, PlainKinds, GuardedKinds
<1>15. CallsOK' /\ AnswersOK'
  BY <1>1, <1>8, <1>12, <1>13, <1>14, Moves DEF TxInv, CallsOK, AnswersOK, Goto
<1>16. OwnerOK'
  <2>1. InTx(c)'
    BY <1>1, <1>8, Moves DEF InTx
  <2> QED BY <2>1, <1>1, <1>8, <1>9, Moves, OwnerStays DEF TxInv
<1>17. QueueOK'
  BY <1>1, <1>8, Moves, QueueStays DEF TxInv
<1>18. ViewOK'
  <2>1. ~open => (conn = disk /\ ~open')
    BY <1>1 DEF TxInv, ImagesOK
  <2>2. conn'.mission = conn.mission /\ disk'.mission = disk.mission
    BY <2>1, <1>5, <1>10
  <2> QED BY <1>1, <2>2 DEF TxInv, ViewOK, Told
<1>19. MatchOK'
  <2> SUFFICES ASSUME ~torn', NEW i \in Calls
               PROVE  /\ disk'.mission[i] # Nobody <=> Admitted(disk', i)
                      /\ Admitted(conn', i) => conn'.mission[i] # Nobody
                      /\ conn'.mission[i] # Nobody => Admitted(conn', i)
    BY DEF MatchOK
  <2>1. open /\ disk' = disk
    BY <1>1, <1>9, <1>10, NobodyIsNone DEF TxInv, ImagesOK
  <2>2. Admitted(img, c)
    BY <1>2, <1>3, <1>6 DEF Admitted
  <2>3. i # c => (Admitted(img, i) <=> Admitted(conn, i))
    BY <1>3, <1>4, <1>6 DEF Admitted
  <2>4. /\ disk.mission[i] # Nobody <=> Admitted(disk, i)
        /\ Admitted(conn, i) => conn.mission[i] # Nobody
        /\ conn.mission[i] # Nobody => Admitted(conn, i) \/ tx = i
    BY <1>1 DEF TxInv, MatchOK
  <2> QED BY <2>1, <2>2, <2>3, <2>4, <1>4, <1>5, <1>9, <1>10
<1> QED BY <1>11, <1>15, <1>16, <1>17, <1>18, <1>19 DEF TxInv

\* The owner of the transaction writes revisions.
LEMMA RevisionStep ==
  ASSUME TxInv, NEW c \in Calls, NEW pc \in {"reread", "accept", "rollback"},
         NEW img \in Images, img.mission = conn.mission,
         img.admission = conn.admission, img.done = conn.done,
         Store(img) \/ UNCHANGED <<disk, conn>>,
         call' = Goto(c, pc), call[c].pc \in {"save", "supersede", "accept"},
         UNCHANGED <<open, tx, queue, pending, deaf, view, torn>>,
         pc = "accept" => call[c].kind = "accept"
  PROVE  TxInv'
<1>1. pc \in Places
  BY DEF Places
<1>2. tx = c
  BY DEF TxInv, OwnerOK, InTx
<1>3. call[c].kind \in GuardedKinds /\ CallKnows(c) /\ AnswerOK(c)
  BY DEF TxInv, CallsOK, CallKnows, AnswersOK, GuardedKinds
<1>4. PICK b \in Images : /\ Store(b) /\ b.mission = conn.mission
                          /\ b.admission = conn.admission /\ b.done = conn.done
  <2>1. CASE Store(img)
    BY <2>1
  <2>2. CASE UNCHANGED <<disk, conn>>
    <3>1. Store(conn) /\ conn \in Images
      BY <2>2 DEF Store, TxInv, ImagesOK
    <3> QED BY <3>1
  <2> QED BY <2>1, <2>2
<1>5. Grown(conn, b)
  BY <1>4 DEF Grown
<1>6. conn' = b /\ disk' = IF open THEN disk ELSE b
  BY <1>4 DEF Store
<1>7. ImagesOK' /\ Grown(disk, disk')
  BY <1>4, <1>5, StoreKeepsImages DEF TxInv
<1>8. \A d \in Calls \ {c} : CallKnows(d)' /\ AnswerOK(d)'
  BY <1>1, <1>2, <1>4, <1>5, <1>7, Moves, StatementAndOthers DEF Ended
<1>9. CallKnows(c)'
  BY <1>1, <1>3, <1>7, Moves, ZenonT(60)
     DEF CallKnows, Grown, Kinds, PlainKinds, GuardedKinds
<1>10. AnswerOK(c)'
  BY <1>1, <1>3, Moves DEF AnswerOK, PlainKinds, GuardedKinds
<1>11. CallsOK' /\ AnswersOK'
  BY <1>1, <1>8, <1>9, <1>10, Moves DEF TxInv, CallsOK, AnswersOK, Goto
<1>12. OwnerOK'
  <2>1. InTx(c)'
    BY <1>1, Moves DEF InTx
  <2> QED BY <2>1, <1>1, <1>2, Moves, OwnerStays DEF TxInv
<1>13. QueueOK'
  BY <1>1, Moves, QueueStays DEF TxInv
<1>14. disk'.mission = disk.mission /\ disk'.admission = disk.admission
  BY <1>4, <1>6 DEF TxInv, ImagesOK
<1>15. ViewOK'
  BY <1>4, <1>6, <1>14 DEF TxInv, ViewOK, Told
<1>16. MatchOK'
  <2>1. \A i \in Calls : /\ Admitted(conn', i) <=> Admitted(conn, i)
                         /\ Admitted(disk', i) <=> Admitted(disk, i)
    BY <1>4, <1>6, <1>14 DEF Admitted
  <2>2. call[c].pc # "record" /\ \A d \in Calls \ {c} : call'[d] = call[d]
    BY <1>1, Moves
  <2> QED BY <2>1, <2>2, <1>4, <1>6, <1>14 DEF TxInv, MatchOK
<1> QED BY <1>7, <1>11, <1>12, <1>13, <1>15, <1>16 DEF TxInv

\* The steps of proposePlan and acceptPlan on revisions.
LEMMA SaveInv ==
  ASSUME TxInv, NEW c \in Calls, Save(c)
  PROVE  TxInv'
<1> DEFINE rev == [mission |-> call[c].mission, status |-> "proposed",
                   number |-> call[c].number + 1]
           img == [conn EXCEPT !.revision[c] = rev]
<1>1. /\ call[c].kind \in Kinds
      /\ call[c].mission \in Ids
      /\ call[c].number \in Nat
  BY DEF Save, TxInv, CallsOK, CallKnows, CallTypes, Kinds, GuardedKinds
<1>2. rev \in Revisions /\ c \in Ids
  BY <1>1 DEF Revisions, Ids
<1>3. /\ img \in Images /\ img.mission = conn.mission /\ img.done = conn.done
      /\ img.admission = conn.admission
  BY <1>2 DEF TxInv, ImagesOK, Images
<1>4. Store(img)
  BY DEF Save
<1> HIDE DEF img
<1> QED BY <1>3, <1>4, RevisionStep DEF Save

\* A status is written, or there is no such revision.
LEMMA SetStatusInv ==
  ASSUME TxInv, NEW c \in Calls, NEW v \in Ids,
         NEW status \in {"superseded", "accepted"},
         NEW pc \in {"accept", "reread"}, SetStatus(c, v, status, pc),
         call[c].pc \in {"supersede", "accept"},
         UNCHANGED <<open, tx, queue, pending, deaf, view, torn>>
  PROVE  TxInv'
<1>1. call[c].kind = "accept" /\ conn \in Images
  BY DEF TxInv, CallsOK, CallKnows, ImagesOK
<1>2. CASE conn.revision[v] = Nobody
  <2>1. call' = Goto(c, "rollback") /\ UNCHANGED <<disk, conn>>
    BY <1>2 DEF SetStatus
  <2> QED BY <1>1, <2>1, RevisionStep
<1>3. CASE conn.revision[v] # Nobody
  <2> DEFINE img == [conn EXCEPT !.revision[v].status = status]
  <2>1. conn.revision[v] \in Revisions
    BY <1>1, <1>3 DEF Images
  <2>2. [conn.revision[v] EXCEPT !.status = status] \in Revisions
    BY <2>1 DEF Revisions
  <2>3. /\ img \in Images /\ img.mission = conn.mission /\ img.done = conn.done
        /\ img.admission = conn.admission
    BY <1>1, <2>2 DEF Images
  <2>4. Store(img) /\ call' = Goto(c, pc)
    BY <1>3 DEF SetStatus
  <2> HIDE DEF img
  <2> QED BY <1>1, <2>3, <2>4, RevisionStep
<1> QED BY <1>2, <1>3

LEMMA SupersedeInv ==
  ASSUME TxInv, NEW c \in Calls, Supersede(c)
  PROVE  TxInv'
<1>1. /\ call[c].kind = "accept" /\ call[c].seen \in Rows /\ conn \in Images
      /\ call[c].seen.plan \in Ids \cup {Nobody}
  BY
     DEF Supersede, TxInv, CallsOK, CallKnows, ImagesOK, Kinds,
         GuardedKinds, Rows
<1>2. CASE call[c].seen.plan = Nobody
  BY <1>1, <1>2, RevisionStep DEF Supersede
<1>3. CASE call[c].seen.plan # Nobody
  BY <1>1, <1>3, SetStatusInv DEF Supersede
<1> QED BY <1>2, <1>3

LEMMA AcceptInv ==
  ASSUME TxInv, NEW c \in Calls, Accept(c)
  PROVE  TxInv'
<1>1. call[c].rev \in Ids
  BY DEF Accept, TxInv, CallsOK, CallKnows
<1> QED BY <1>1, SetStatusInv DEF Accept

-----------------------------------------------------------------------------
(* Transactions begin and end *)

\* Where the body of a transaction goes, and what it has read then.
LEMMA FirstStepReads ==
  ASSUME TxInv, NEW c \in Calls, call[c].pc = "queued"
  PROVE  /\ FirstStep(c) \in {"create", "clash", "rollback", "commit", "count",
                              "supersede", "reread"}
         /\ FirstStep(c) = "create" => /\ call[c].kind = "admit"
                                       /\ conn.admission[call[c].req] = Nobody
         /\ FirstStep(c) = "clash" =>
              /\ call[c].kind = "admit"
              /\ conn.admission[call[c].req] # Nobody
              /\ conn.admission[call[c].req].payload # call[c].payload
         /\ FirstStep(c) = "commit" => call[c].kind \in {"admit", "read"}
         /\ FirstStep(c) = "commit" /\ call[c].kind = "admit" =>
              LET a == conn.admission[call[c].req]
              IN a # Nobody /\ a.payload = call[c].payload
                 /\ conn.mission[a.mission] # Nobody
         /\ FirstStep(c) = "count" => call[c].kind = "propose"
         /\ FirstStep(c) = "supersede" => call[c].kind = "accept"
         /\ FirstStep(c) = "reread" => call[c].kind \in GuardedKinds
<1>1. call[c].kind \in {"admit", "read", "cancel", "propose", "accept"}
  BY DEF TxInv, CallsOK, CallKnows, GuardedKinds
<1>2. CASE call[c].kind = "admit"
  BY <1>2 DEF FirstStep, GuardedKinds
<1>3. CASE call[c].kind = "read"
  BY <1>3 DEF FirstStep, GuardedKinds
<1>4. CASE call[c].kind = "cancel"
  BY <1>4 DEF FirstStep, GuardedKinds
<1>5. CASE call[c].kind = "propose"
  BY <1>5 DEF FirstStep, GuardedKinds
<1>6. CASE call[c].kind = "accept"
  BY <1>6 DEF FirstStep, GuardedKinds
<1> QED BY <1>1, <1>2, <1>3, <1>4, <1>5, <1>6

\* BEGIN, on a connection that reads what is committed.
LEMMA BeginInv ==
  ASSUME TxInv, NEW c \in Calls, Begin(c)
  PROVE  TxInv'
<1> DEFINE pc == FirstStep(c)
           a == conn.admission[call[c].req]
           m == IF call[c].kind = "admit" /\ pc = "commit"
                THEN a.mission ELSE call[c].mission
           r == [call[c] EXCEPT !.pc = pc, !.mission = m]
<1>1. /\ tx = Nobody /\ tx' = c /\ open' = TRUE
      /\ pending' = [i \in Ids |-> Nobody]
      /\ UNCHANGED <<disk, conn, deaf, view, torn>>
  BY DEF Begin
<1>2. call' = [call EXCEPT ![c] = r]
  BY DEF Begin, TxInv, CallsOK, CallTypes
<1>3. ~open /\ conn = disk /\ conn \in Images
  BY <1>1 DEF TxInv, ImagesOK
<1>4. \A d \in Calls \ {c} : call'[d] = call[d]
  BY <1>2 DEF TxInv, CallsOK
<1>5. queue # <<>> /\ Head(queue) = c /\ queue' = Tail(queue)
  BY DEF Begin
<1>6. call[c].pc = "queued"
  <2>1. queue \in Seq(Calls) /\ queue[1] = c /\ 1 \in 1 .. Len(queue)
    BY <1>5 DEF TxInv, QueueOK
  <2> QED BY <2>1 DEF TxInv, QueueOK, InQueue
<1>7. CallKnows(c) /\ call[c] \in CallTypes
  BY DEF TxInv, CallsOK
<1>8. call[c].kind = "admit" /\ pc = "commit" =>
        /\ a \in Admissions /\ m = a.mission /\ m \in Ids
        /\ a.payload = call[c].payload /\ conn.mission[m] # Nobody
  BY <1>3, <1>6, <1>7, FirstStepReads DEF CallKnows, Images, Admissions
<1>9. call[c].kind \in Kinds => m = call[c].mission
  BY DEF Kinds, PlainKinds, GuardedKinds
<1>10. pc \in Places /\ pc # "queued"
  BY <1>6, FirstStepReads DEF Places
<1>11. r \in CallTypes
  <2>1. pc \in Places /\ m \in Ids \cup {Nobody}
    BY <1>7, <1>8, <1>10 DEF CallTypes, Places
  <2> HIDE DEF pc, m
  <2> QED BY <2>1, <1>7 DEF CallTypes
<1>12. /\ r.pc = pc /\ r.mission = m /\ r.kind = call[c].kind
       /\ r.req = call[c].req /\ r.payload = call[c].payload
       /\ r.seen = call[c].seen /\ r.rev = call[c].rev /\ call'[c] = r
  BY <1>2, <1>7 DEF CallTypes, TxInv, CallsOK
<1> HIDE DEF r, m, pc
<1>13. QueueOK'
  BY <1>4, <1>5, <1>10, <1>12, LeavesQueue DEF TxInv
<1>14. CallKnows(c)'
  BY <1>1, <1>6, <1>7, <1>9, <1>12, FirstStepReads
     DEF CallKnows, Kinds, PlainKinds, GuardedKinds, pc
<1>15. AnswerOK(c)'
  <2>1. pc = "commit" /\ call[c].kind = "admit" => Answered(conn, r)
    BY <1>8, <1>12 DEF Answered, Admissions, a
  <2> QED BY <2>1, <1>1, <1>3, <1>6, <1>12, FirstStepReads
          DEF AnswerOK, PlainKinds, GuardedKinds, pc
<1>16. \A d \in Calls \ {c} : CallKnows(d)' /\ AnswerOK(d)'
  <2> SUFFICES ASSUME NEW d \in Calls \ {c} PROVE CallKnows(d)' /\ AnswerOK(d)'
    OBVIOUS
  <2>1. CallKnows(d) /\ AnswerOK(d) /\ call'[d] = call[d]
    BY <1>4 DEF TxInv, CallsOK, AnswersOK
  <2>2. CallKnows(d)'
    BY <2>1, <1>1, StillKnows, GrownSelf
  <2>3. call[d].pc \notin {"create", "record", "commit", "clash"}
    BY <1>1, NobodyIsNone DEF TxInv, OwnerOK, InTx
  <2>4. Joined(d) => Joined(d)'
    BY <2>1, <1>1, <1>4, <1>6, NobodyIsNone DEF Joined
  <2>5. Answered(disk, call[d]) <=> Answered(disk, call[d])'
    BY <2>1, <1>1 DEF Answered
  <2> QED BY <2>1, <2>2, <2>3, <2>4, <2>5, <1>1 DEF AnswerOK
<1>17. CallsOK' /\ AnswersOK'
  BY <1>2, <1>11, <1>14, <1>15, <1>16 DEF TxInv, CallsOK, AnswersOK
<1>18. ImagesOK'
  BY <1>1, <1>3, NobodyIsNone DEF TxInv, ImagesOK
<1>19. OwnerOK'
  <2>1. InTx(c)'
    BY <1>6, <1>12, FirstStepReads DEF InTx, pc
  <2>2. \A d \in Calls \ {c} : ~InTx(d)'
    BY <1>1, <1>4, NobodyIsNone DEF TxInv, OwnerOK, InTx
  <2> QED BY <2>1, <2>2, <1>1 DEF OwnerOK
<1>20. ViewOK'
  BY <1>1, <1>3, NobodyIsNone DEF TxInv, ViewOK, Told, Images
<1>21. MatchOK'
  BY <1>1, <1>3, NobodyIsNone DEF TxInv, MatchOK, Admitted
<1> QED BY <1>13, <1>17, <1>18, <1>19, <1>20, <1>21 DEF TxInv

\* A transaction is over: call c was its owner.
LEMMA Leaves ==
  ASSUME TxInv, NEW c \in Calls, tx = c, tx' = Nobody,
         NEW pc \in {"acked", "failed", "conflict"}, call' = Goto(c, pc),
         queue' = queue
  PROVE  OwnerOK' /\ QueueOK' /\ call[c].pc \notin Ended \cup {"queued"}
<1>1. pc \in Places /\ InTx(c)
  BY DEF Places, Ended, TxInv, OwnerOK
<1>2. call[c].pc \notin Ended \cup {"queued"}
  BY <1>1 DEF InTx, Ended
<1>3. QueueOK'
  BY <1>1, <1>2, Moves, QueueStays DEF TxInv
<1>4. ~InTx(c)' /\ \A d \in Calls \ {c} : ~InTx(d)'
  <2>1. call'[c].pc = pc /\ \A d \in Calls \ {c} : call'[d] = call[d]
    BY <1>1, Moves
  <2>2. ~InTx(c)'
    BY <2>1 DEF InTx
  <2>3. \A d \in Calls \ {c} : ~InTx(d)
    BY DEF TxInv, OwnerOK
  <2> QED BY <2>1, <2>2, <2>3 DEF InTx
<1> QED BY <1>2, <1>3, <1>4, NobodyIsNone DEF OwnerOK

\* COMMIT: what the owner wrote, and what joined it, is on disk.
LEMMA CommitInv ==
  ASSUME TxInv, NEW c \in Calls, Commit(c)
  PROVE  TxInv'
<1>1. /\ call[c].pc = "commit" /\ open /\ disk' = conn /\ open' = FALSE
      /\ tx' = Nobody /\ view' = Told /\ pending' = [m \in Ids |-> Nobody]
      /\ call' = Goto(c, "acked") /\ UNCHANGED <<conn, queue, deaf, torn>>
  BY DEF Commit
<1>2. tx = c
  BY <1>1 DEF TxInv, OwnerOK, InTx
<1>3. "acked" \in Places
  BY DEF Places, Ended
<1>4. ImagesOK' /\ Grown(disk, disk')
  BY <1>1, GrownSelf DEF TxInv, ImagesOK
<1>5. OwnerOK' /\ QueueOK'
  BY <1>1, <1>2, Leaves
<1>6. CallKnows(c)' /\ AnswerOK(c)'
  <2>1. CallKnows(c) /\ AnswerOK(c)
    BY DEF TxInv, CallsOK, AnswersOK
  <2>2. CallKnows(c)'
    BY <2>1, <1>1, <1>3, <1>4, Moves, ZenonT(60) DEF CallKnows, Grown
  <2>3. Answered(conn, call[c]) => Answered(disk', call'[c])
    BY <1>1, <1>3, Moves DEF Answered
  <2>4. call[c].kind \notin PlainKinds
    BY <2>1, <1>1 DEF CallKnows, PlainKinds, GuardedKinds
  <2> QED BY <2>1, <2>2, <2>3, <2>4, <1>1, <1>3, Moves DEF AnswerOK
<1>7. \A d \in Calls \ {c} : CallKnows(d)' /\ AnswerOK(d)'
  <2> SUFFICES ASSUME NEW d \in Calls \ {c} PROVE CallKnows(d)' /\ AnswerOK(d)'
    OBVIOUS
  <2>1. CallKnows(d) /\ AnswerOK(d) /\ call'[d] = call[d]
    BY <1>1, <1>3, Moves DEF TxInv, CallsOK, AnswersOK
  <2>2. CallKnows(d)'
    BY <2>1, <1>4, StillKnows
  <2>3. call[d].pc \notin {"create", "record", "commit", "clash"}
    BY <1>2 DEF TxInv, OwnerOK, InTx
  <2>4. Joined(d) => d \in disk'.done \/ Joined(d)'
    <3>1. \A e \in Calls \ {c} : call'[e] = call[e]
      BY <1>1, <1>3, Moves
    <3>2. CASE call[d].host = c
      BY <3>2, <1>1, <1>2 DEF Joined
    <3>3. CASE call[d].host # c
      BY <3>1, <3>3, <2>1, <1>2 DEF Joined
    <3> QED BY <3>2, <3>3
  <2>5. Answered(disk, call[d]) /\ call[d].kind = "admit" =>
          Answered(disk', call'[d])
    BY <2>1, <1>4, AnswerStays DEF CallKnows
  <2> QED BY <2>1, <2>2, <2>3, <2>4, <2>5, <1>1, <1>4
          DEF AnswerOK, Grown, CallKnows
<1>8. CallsOK' /\ AnswersOK'
  BY <1>1, <1>3, <1>6, <1>7, Moves DEF TxInv, CallsOK, AnswersOK, Goto
<1>9. ViewOK'
  <2>1. /\ view \in [Ids -> Rows \cup {Nobody}]
        /\ pending \in [Ids -> Rows \cup {Nobody}]
        /\ conn.mission \in [Ids -> Rows \cup {Nobody}]
    BY DEF TxInv, ViewOK, ImagesOK, Images
  <2>2. view' \in [Ids -> Rows \cup {Nobody}]
    BY <2>1, <1>1 DEF Told
  <2>3. ~deaf => view' = conn.mission
    <3>1. ~deaf => \A m \in Ids : Told[m] = conn.mission[m]
      BY <1>1 DEF TxInv, ViewOK
    <3> QED BY <3>1, <2>1, <2>2, <1>1
  <2> QED BY <2>2, <2>3, <1>1 DEF TxInv, ViewOK
<1>10. MatchOK'
  BY <1>1, <1>2 DEF TxInv, MatchOK, Admitted
<1> QED BY <1>4, <1>5, <1>8, <1>9, <1>10 DEF TxInv

\* The end of a transaction that did not commit.
LEMMA UndoneInv ==
  ASSUME TxInv, NEW c \in Calls, tx = c, NEW pc \in {"failed", "conflict"},
         Undone(c, pc), pc = "conflict" => call[c].pc = "clash",
         deaf' \in BOOLEAN, ~deaf' => open /\ ~deaf, torn' = torn
  PROVE  TxInv'
<1>1. /\ conn' = disk /\ open' = FALSE /\ tx' = Nobody
      /\ pending' = [m \in Ids |-> Nobody] /\ call' = Goto(c, pc)
      /\ UNCHANGED <<disk, queue, view>>
  BY DEF Undone
<1>2. pc \in Places
  BY DEF Places, Ended
<1>3. ImagesOK'
  BY <1>1, GrownSelf DEF TxInv, ImagesOK
<1>4. OwnerOK' /\ QueueOK' /\ call[c].pc \notin Ended
  BY <1>1, Leaves
<1>5. CallKnows(c)' /\ AnswerOK(c)'
  <2>1. CallKnows(c) /\ AnswerOK(c)
    BY DEF TxInv, CallsOK, AnswersOK
  <2> QED BY <2>1, <1>1, <1>2, Moves DEF CallKnows, AnswerOK
<1>6. \A d \in Calls \ {c} : CallKnows(d)' /\ AnswerOK(d)'
  <2> SUFFICES ASSUME NEW d \in Calls \ {c} PROVE CallKnows(d)' /\ AnswerOK(d)'
    OBVIOUS
  <2>1. CallKnows(d) /\ AnswerOK(d) /\ call'[d] = call[d]
    BY <1>1, <1>2, Moves DEF TxInv, CallsOK, AnswersOK
  <2>2. CallKnows(d)'
    BY <2>1, <1>1, GrownSelf, StillKnows
  <2>3. call[d].pc \notin {"create", "record", "commit", "clash"}
    BY DEF TxInv, OwnerOK, InTx
  <2>4. Joined(d) => Joined(d)'
    <3>1. call'[c].pc = pc /\ \A e \in Calls \ {c} : call'[e] = call[e]
      BY <1>1, <1>2, Moves
    <3>2. CASE call[d].host = c
      BY <3>1, <3>2, <2>1 DEF Joined
    <3>3. CASE call[d].host # c
      BY <3>1, <3>3, <2>1 DEF Joined
    <3> QED BY <3>2, <3>3
  <2>5. Answered(disk, call[d]) => Answered(disk', call'[d])
    BY <2>1, <1>1
  <2> QED BY <2>1, <2>2, <2>3, <2>4, <2>5, <1>1 DEF AnswerOK
<1>7. CallsOK' /\ AnswersOK'
  BY <1>1, <1>2, <1>5, <1>6, Moves DEF TxInv, CallsOK, AnswersOK, Goto
<1>8. ViewOK'
  BY <1>1 DEF TxInv, ViewOK
<1>9. MatchOK'
  BY <1>1 DEF TxInv, MatchOK, Admitted
<1> QED BY <1>3, <1>4, <1>7, <1>8, <1>9 DEF TxInv

\* The four ways to get there.
LEMMA NotCommittedInv ==
  ASSUME TxInv, NEW c \in Calls,
         \/ Rollback(c) \/ CommitFails(c)
         \/ NothingToCommit(c) \/ OwnerWriteFails(c)
  PROVE  TxInv'
<1>1. tx = c /\ deaf \in BOOLEAN /\ open \in BOOLEAN
  BY DEF Rollback, CommitFails, NothingToCommit, OwnerWriteFails,
         TxInv, OwnerOK, InTx, ViewOK, ImagesOK
<1>2. CASE Rollback(c)
  <2>1. CASE call[c].pc = "clash"
    BY <2>1, <1>1, <1>2, UndoneInv DEF Rollback
  <2>2. CASE call[c].pc # "clash"
    BY <2>2, <1>1, <1>2, UndoneInv DEF Rollback
  <2> QED BY <2>1, <2>2
<1>3. CASE CommitFails(c)
  <2>1. deaf' \in BOOLEAN /\ (~deaf' => ~deaf)
    <3>1. deaf' = deaf \/ deaf' = TRUE
      BY <1>3 DEF CommitFails
    <3>2. CASE deaf' = deaf
      BY <3>2, <1>1
    <3>3. CASE deaf' = TRUE
      BY <3>3
    <3> QED BY <3>1, <3>2, <3>3
  <2>2. Undone(c, "failed") /\ open /\ torn' = torn
    BY <1>3 DEF CommitFails
  <2> QED BY <2>1, <2>2, <1>1, UndoneInv
<1>4. CASE NothingToCommit(c)
  BY <1>1, <1>4, UndoneInv DEF NothingToCommit
<1>5. CASE OwnerWriteFails(c)
  BY <1>1, <1>5, UndoneInv DEF OwnerWriteFails
<1> QED BY <1>2, <1>3, <1>4, <1>5

-----------------------------------------------------------------------------
(* Faults outside of the owner *)

\* A write without a transaction fails, and may end the open one.
LEMMA PlainWriteFailsInv ==
  ASSUME TxInv, NEW c \in Calls, PlainWriteFails(c)
  PROVE  TxInv'
<1>1. /\ call[c].pc = "write" /\ tx # c /\ call' = Goto(c, "failed")
      /\ UNCHANGED <<disk, tx, queue, pending, deaf, view>>
      /\ \/ UNCHANGED <<conn, open, torn>>
         \/ open /\ conn' = disk /\ open' = FALSE /\ torn' = TRUE
  BY DEF PlainWriteFails
<1>2. "failed" \in Places
  BY DEF Places, Ended
<1>3. ImagesOK'
  <2>1. CASE UNCHANGED <<conn, open, torn>>
    BY <2>1, <1>1 DEF TxInv, ImagesOK
  <2>2. CASE open /\ conn' = disk /\ open' = FALSE /\ torn' = TRUE
    BY <2>2, <1>1, GrownSelf DEF TxInv, ImagesOK
  <2> QED BY <2>1, <2>2, <1>1
<1>4. QueueOK'
  BY <1>1, <1>2, Moves, QueueStays DEF TxInv
<1>5. OwnerOK'
  <2>1. ~InTx(c)'
    BY <1>1, <1>2, Moves DEF InTx
  <2>2. \A d \in Calls \ {c} : InTx(d)' <=> InTx(d)
    BY <1>1, <1>2, Moves DEF InTx
  <2> QED BY <2>1, <2>2, <1>1 DEF TxInv, OwnerOK
<1>6. CallKnows(c)' /\ AnswerOK(c)'
  <2>1. CallKnows(c)
    BY DEF TxInv, CallsOK
  <2> QED BY <2>1, <1>1, <1>2, Moves DEF CallKnows, AnswerOK
<1>7. \A d \in Calls \ {c} : CallKnows(d)' /\ AnswerOK(d)'
  <2> SUFFICES ASSUME NEW d \in Calls \ {c} PROVE CallKnows(d)' /\ AnswerOK(d)'
    OBVIOUS
  <2>1. CallKnows(d) /\ AnswerOK(d) /\ call'[d] = call[d]
    BY <1>1, <1>2, Moves DEF TxInv, CallsOK, AnswersOK
  <2>2. CallKnows(d)'
    BY <2>1, <1>1, GrownSelf, StillKnows
  <2>3. \A e \in Calls : call[e].pc \in {"failed", "conflict", "lost"} =>
                           call'[e].pc = call[e].pc
    <3>1. \A e \in Calls \ {c} : call'[e] = call[e]
      BY <1>1, <1>2, Moves
    <3> QED BY <3>1, <1>1
  <2>4. Joined(d) => Joined(d)'
    BY <2>1, <2>3, <1>1 DEF Joined
  <2>5. Answered(disk, call[d]) => Answered(disk', call'[d])
    BY <2>1, <1>1
  <2>6. open' => conn' = conn /\ open
    BY <1>1
  <2>7. /\ call[d].pc \in {"create", "record"} => call[d].req \in Requests
        /\ \A q \in Requests : conn.admission[q] = Nobody =>
                                 conn'.admission[q] = Nobody
    BY <2>1, <1>1 DEF CallKnows, TxInv, ImagesOK, Grown
  <2> QED BY <2>1, <2>2, <2>4, <2>5, <2>6, <2>7, <1>1 DEF AnswerOK
<1>8. CallsOK' /\ AnswersOK'
  BY <1>1, <1>2, <1>6, <1>7, Moves DEF TxInv, CallsOK, AnswersOK, Goto
<1>9. ViewOK'
  <2>1. CASE UNCHANGED <<conn, open, torn>>
    BY <2>1, <1>1 DEF TxInv, ViewOK, Told
  <2>2. CASE open /\ open' = FALSE
    BY <2>2, <1>1 DEF TxInv, ViewOK, ImagesOK
  <2> QED BY <2>1, <2>2, <1>1
<1>10. MatchOK'
  <2>1. \A d \in Calls : call[d].pc = "record" => call'[d].pc = "record"
    BY <1>1, <1>2, Moves, ZenonT(60)
  <2> QED BY <2>1, <1>1 DEF TxInv, MatchOK, Admitted
<1> QED BY <1>3, <1>4, <1>5, <1>8, <1>9, <1>10 DEF TxInv

\* The process dies: what is committed stays.
LEMMA CrashInv ==
  ASSUME TxInv, Crash
  PROVE  TxInv'
<1>1. /\ conn' = disk /\ open' = FALSE /\ tx' = Nobody /\ queue' = <<>>
      /\ pending' = [m \in Ids |-> Nobody] /\ deaf' = FALSE
      /\ view' = disk.mission /\ UNCHANGED <<disk, torn>>
      /\ call' = [c \in Calls |-> IF call[c].pc \in Ended \cup {"idle"}
                                  THEN call[c]
                                  ELSE [call[c] EXCEPT !.pc = "lost"]]
  BY DEF Crash
<1>2. ImagesOK'
  BY <1>1, GrownSelf DEF TxInv, ImagesOK
<1>3. ASSUME NEW d \in Calls
      PROVE  /\ call'[d] \in CallTypes /\ call'[d].pc \in Ended \cup {"idle"}
             /\ \/ call'[d] = call[d]
                \/ /\ call'[d] = [call[d] EXCEPT !.pc = "lost"]
                   /\ call'[d].pc = "lost"
                   /\ call'[d].kind = call[d].kind
                   /\ call'[d].req = call[d].req
                   /\ call'[d].payload = call[d].payload
                   /\ call'[d].seen = call[d].seen
                   /\ call'[d].mission = call[d].mission
                   /\ call'[d].rev = call[d].rev
                   /\ call[d].pc \notin Ended
  <2>1. call[d] \in CallTypes
    BY DEF TxInv, CallsOK
  <2>2. CASE call[d].pc \in Ended \cup {"idle"}
    BY <2>1, <2>2, <1>1
  <2>3. CASE call[d].pc \notin Ended \cup {"idle"}
    BY <2>1, <2>3, <1>1 DEF CallTypes, Places, Ended
  <2> QED BY <2>2, <2>3
<1>4. ASSUME NEW d \in Calls PROVE CallKnows(d)' /\ AnswerOK(d)'
  <2>1. CallKnows(d) /\ AnswerOK(d)
    BY DEF TxInv, CallsOK, AnswersOK
  <2>2. CallKnows(d)'
    BY <2>1, <1>1, <1>3 DEF CallKnows, Ended
  <2>3. \A e \in Calls : call'[e].pc \notin {"failed", "conflict", "lost"} =>
                           call[e].pc \notin {"failed", "conflict", "lost"}
                           /\ tx # e
    BY <1>3 DEF Ended, TxInv, OwnerOK, InTx
  <2>4. call'[d] = call[d] /\ Joined(d) => Joined(d)'
    BY <2>3 DEF Joined
  <2>5. call'[d] = call[d] =>
          (Answered(disk, call[d]) => Answered(disk', call'[d]))
    BY <1>1
  <2>6. CASE call'[d] = call[d]
    <3>1. call[d].pc \in Ended \cup {"idle"}
      BY <2>6, <1>3
    <3>2. call'[d].pc \notin {"create", "record", "commit", "clash"}
      BY <2>6, <3>1 DEF Ended
    <3> QED BY <2>1, <2>2, <2>4, <2>5, <2>6, <3>2, <1>1 DEF AnswerOK
  <2>7. CASE call'[d].pc = "lost"
    BY <2>2, <2>7 DEF AnswerOK
  <2> QED BY <2>2, <2>6, <2>7, <1>3
<1>5. CallsOK' /\ AnswersOK'
  <2>1. call' \in [Calls -> CallTypes]
    BY <1>1, <1>3
  <2> QED BY <2>1, <1>4 DEF CallsOK, AnswersOK
<1>6. QueueOK'
  BY <1>1, <1>3 DEF QueueOK, InQueue, Ended
<1>7. OwnerOK'
  BY <1>1, <1>3, NobodyIsNone DEF OwnerOK, InTx, Ended
<1>8. ViewOK'
  BY <1>1 DEF ViewOK, TxInv, ImagesOK, Images
<1>9. MatchOK'
  BY <1>1 DEF TxInv, MatchOK, Admitted
<1> QED BY <1>2, <1>5, <1>6, <1>7, <1>8, <1>9 DEF TxInv

\* Nothing changes.
LEMMA StutterInv ==
  ASSUME TxInv, UNCHANGED txVars
  PROVE  TxInv'
BY DEF txVars, storeVars, TxInv, ImagesOK, CallsOK, CallKnows, QueueOK,
       InQueue, OwnerOK, InTx, ViewOK, Told, AnswersOK, AnswerOK, Answered,
       Joined, MatchOK, Admitted

\* Every step keeps the invariant.
LEMMA TxInvInductive == TxInv /\ [TxNext]_txVars => TxInv'
<1> SUFFICES ASSUME TxInv, [TxNext]_txVars PROVE TxInv'
  OBVIOUS
<1>1. ASSUME NEW c \in Calls, StartAdmit(c) PROVE TxInv'
  BY <1>1, StartAdmitInv
<1>2. ASSUME NEW c \in Calls, StartRead(c) PROVE TxInv'
  BY <1>2, StartReadInv
<1>3. ASSUME NEW c \in Calls, StartOnMission(c) PROVE TxInv'
  BY <1>3, StartOnMissionInv
<1>4. ASSUME NEW c \in Calls, GuardFails(c) \/ AcceptRefused(c) PROVE TxInv'
  BY <1>4, RefusedInv
<1>5. ASSUME NEW c \in Calls, Reread(c) PROVE TxInv'
  BY <1>5, RereadInv
<1>6. ASSUME NEW c \in Calls, Write(c) PROVE TxInv'
  BY <1>6, WriteInv
<1>7. ASSUME NEW c \in Calls, Enqueue(c) PROVE TxInv'
  BY <1>7, EnqueueInv
<1>8. ASSUME NEW c \in Calls, Begin(c) PROVE TxInv'
  BY <1>8, BeginInv
<1>9. ASSUME NEW c \in Calls, Create(c) PROVE TxInv'
  BY <1>9, CreateInv
<1>10. ASSUME NEW c \in Calls, Record(c) PROVE TxInv'
  BY <1>10, RecordInv
<1>11. ASSUME NEW c \in Calls, Count(c) PROVE TxInv'
  BY <1>11, CountInv
<1>12. ASSUME NEW c \in Calls, Save(c) PROVE TxInv'
  BY <1>12, SaveInv
<1>13. ASSUME NEW c \in Calls, Supersede(c) PROVE TxInv'
  BY <1>13, SupersedeInv
<1>14. ASSUME NEW c \in Calls, Accept(c) PROVE TxInv'
  BY <1>14, AcceptInv
<1>15. ASSUME NEW c \in Calls, Commit(c) PROVE TxInv'
  BY <1>15, CommitInv
<1>16. ASSUME NEW c \in Calls,
              \/ Rollback(c) \/ CommitFails(c) \/ NothingToCommit(c)
              \/ OwnerWriteFails(c)
       PROVE  TxInv'
  BY <1>16, NotCommittedInv
<1>17. ASSUME NEW c \in Calls, PlainWriteFails(c) PROVE TxInv'
  BY <1>17, PlainWriteFailsInv
<1>18. CASE Crash
  BY <1>18, CrashInv
<1>19. CASE AllEnded \/ UNCHANGED txVars
  BY <1>19, StutterInv DEF AllEnded
<1> QED BY <1>1, <1>2, <1>3, <1>4, <1>5, <1>6, <1>7, <1>8, <1>9, <1>10, <1>11,
           <1>12, <1>13, <1>14, <1>15, <1>16, <1>17, <1>18, <1>19 DEF TxNext

-----------------------------------------------------------------------------
(* Theorems *)

\* Outside of a transaction the connection reads what is committed, the queue
\* holds the calls that wait, and a mission is on disk exactly when its
\* admission is (withTransaction, sqlite-mission-store.ts:2354-2377).
THEOREM StoreIsTyped == TxSpec => []StoreTypeOK
<1>1. TxInv => StoreTypeOK
  <2> SUFFICES ASSUME TxInv PROVE StoreTypeOK
    OBVIOUS
  <2>1. /\ \A img \in {disk, conn} :
             /\ img.mission \in [Ids -> Rows \cup {Nobody}]
             /\ img.done \in SUBSET Calls
        /\ ~open => conn = disk
        /\ open => tx # Nobody
    BY DEF TxInv, ImagesOK, Images
  <2>2. tx = Nobody => pending = [m \in Ids |-> Nobody]
    BY DEF TxInv, ViewOK
  <2>3. \A c \in Calls : call[c].pc = "queued" <=>
                           \E i \in 1 .. Len(queue) : queue[i] = c
    BY DEF TxInv, QueueOK, InQueue
  <2>4. ~torn => \A m \in Calls :
         disk.mission[m] # Nobody <=>
           \E q \in Requests : /\ disk.admission[q] # Nobody
                               /\ disk.admission[q].mission = m
    BY DEF TxInv, MatchOK, Admitted
  <2> QED BY <2>1, <2>2, <2>3, <2>4 DEF StoreTypeOK
<1> QED BY TxInvInitially, TxInvInductive, <1>1, PTL DEF TxSpec

\* Whatever writes and transactions interleave, observers were told what is
\* committed (publishMutation, sqlite-mission-store.ts:1126-1146).
THEOREM ObserversSeeCommitted == TxSpec => []ObserverSeesCommitted
<1>1. TxInv => ObserverSeesCommitted
  BY DEF TxInv, ViewOK, ImagesOK, ObserverSeesCommitted
<1> QED BY TxInvInitially, TxInvInductive, <1>1, PTL DEF TxSpec

\* An answer that was given is on disk, and stays there
\* (local-control-admission.ts:134-189).
THEOREM AnswersSurvive == TxSpec => []AnswersAreDurable
<1>1. TxInv => AnswersAreDurable
  <2> SUFFICES ASSUME TxInv, NEW c \in Calls
               PROVE  /\ call[c].pc = "acked" /\ call[c].kind = "admit" =>
                           /\ disk.admission[call[c].req] =
                                [mission |-> call[c].mission,
                                 payload |-> call[c].payload]
                           /\ disk.mission[call[c].mission] # Nobody
                      /\ call[c].pc = "conflict" =>
                           /\ disk.admission[call[c].req] # Nobody
                           /\ disk.admission[call[c].req].payload
                                # call[c].payload
                      /\ (/\ call[c].pc = "acked"
                          /\ call[c].kind \in PlainKinds \cup GuardedKinds) =>
                           \/ c \in disk.done
                           \/ /\ call[c].host # Nobody
                              /\ call[call[c].host].pc # "acked"
    BY DEF AnswersAreDurable
  <2>1. AnswerOK(c)
    BY DEF TxInv, AnswersOK
  <2>2. Joined(c) => /\ call[c].host # Nobody
                     /\ call[call[c].host].pc # "acked"
    BY NobodyIsNone DEF Joined, TxInv, OwnerOK, InTx
  <2> QED BY <2>1, <2>2 DEF AnswerOK, Answered
<1> QED BY TxInvInitially, TxInvInductive, <1>1, PTL DEF TxSpec

-----------------------------------------------------------------------------
(***************************************************************************)
(* The history of plans.                                                   *)
(*                                                                         *)
(* Revisions are only added, and only by the one call that proposes in a   *)
(* transaction; until it saves its own, the connection has those that are  *)
(* on disk, so its count is still the number of them when it does          *)
(* (CallPlans).  While nothing stale was written and no transaction lost   *)
(* its owner, only plans in force are accepted, except in a transaction    *)
(* that accepts one: there the plan in force was superseded first, and the *)
(* new one is the only other (Outlook).                                    *)
(***************************************************************************)

\* The revisions of a are those of b, or some of them.
RevGrown(a, b) ==
    \A r \in Ids : a.revision[r] # Nobody =>
      /\ b.revision[r] # Nobody
      /\ b.revision[r].mission = a.revision[r].mission
      /\ b.revision[r].number = a.revision[r].number

\* What is numbered, on disk and on the connection.
RevisionsOK == RevGrown(disk, conn) /\ Numbered(disk) /\ Numbered(conn)

\* Where the mission of a call, and its revision, are not there yet.
Unmade == {"idle", "guard", "queued", "create"}
Unsaved == Unmade \cup {"count", "save"}

\* What a call can rely on.
CallPlans(c) ==
    /\ call[c].pc \in Unmade => conn.mission[c] = Nobody
    /\ call[c].pc \in Unsaved => conn.revision[c] = Nobody
    /\ call[c].pc \in {"count", "save"} => conn.revision = disk.revision
    /\ call[c].pc = "save" =>
         call[c].number = Cardinality(RevisionsOf(conn, call[c].mission))
    /\ call[c].kind = "accept" =>
         /\ disk.revision[call[c].rev] # Nobody
         /\ disk.revision[call[c].rev].mission = call[c].mission

\* The plan in force is superseded, and the new one not yet in force.
Accepting(c) ==
    call[c].kind = "accept" /\ call[c].pc \in {"accept", "reread", "write"}

\* The transaction is not going to commit.
Doomed(c) == call[c].pc \in {"rollback", "clash"}

\* What the connection reads in the transaction of call c.
Outlook(c) ==
    /\ ~Accepting(c) /\ ~Doomed(c) => Planned(conn)
    /\ call[c].kind = "accept" /\ call[c].pc = "supersede" =>
         /\ conn.mission[call[c].mission] # Nobody
         /\ conn.mission[call[c].mission].plan = call[c].seen.plan
    /\ Accepting(c) =>
         \A r \in AcceptedIn(conn) :
           \/ InForce(conn, r) /\ conn.revision[r].mission # call[c].mission
           \/ call[c].pc # "accept" /\ r = call[c].rev

\* Only plans in force are accepted.
PlansOK ==
    ~stale /\ ~torn => /\ Planned(disk)
                       /\ tx = Nobody => Planned(conn)
                       /\ tx # Nobody => Outlook(tx)

\* The invariant of plans, on top of TxInv.
PlanInv == RevisionsOK /\ (\A c \in Calls : CallPlans(c)) /\ PlansOK

-----------------------------------------------------------------------------
\* It holds of a store that is opened.
LEMMA PlanInvInitially == TxInit => PlanInv
<1> SUFFICES ASSUME TxInit PROVE PlanInv
  OBVIOUS
<1>1. conn = disk /\ tx = Nobody /\ disk \in FirstImages
  BY DEF TxInit
<1>2. Numbered(disk) /\ Planned(disk)
  BY <1>1, HistoryAssumption
<1>3. RevisionsOK
  BY <1>1, <1>2 DEF RevisionsOK, RevGrown
<1>4. ASSUME NEW c \in Calls PROVE CallPlans(c)
  <2>1. call[c].pc = "idle" /\ call[c].kind = "none"
    BY DEF TxInit, Idle
  <2>2. disk.mission[c] = Nobody /\ disk.revision[c] = Nobody
    BY <1>1, StoreAssumption
  <2> QED BY <1>1, <2>1, <2>2 DEF CallPlans
<1>5. PlansOK
  BY <1>1, <1>2 DEF PlansOK
<1> QED BY <1>3, <1>4, <1>5 DEF PlanInv

\* What only depends on the revisions.
LEMMA SameRevisions ==
  ASSUME NEW a, NEW b, a.revision = b.revision
  PROVE  /\ Numbered(a) => Numbered(b)
         /\ \A m : RevisionsOf(a, m) = RevisionsOf(b, m)
         /\ AcceptedIn(a) = AcceptedIn(b)
<1>1. \A m : RevisionsOf(a, m) = RevisionsOf(b, m)
  BY DEF RevisionsOf
<1>2. AcceptedIn(a) = AcceptedIn(b)
  BY DEF AcceptedIn
<1>3. ASSUME Numbered(a) PROVE Numbered(b)
  BY <1>1, <1>3 DEF Numbered
<1> QED BY <1>1, <1>2, <1>3

\* A step after which the connection and the disk have revisions that one of
\* them had before.
LEMMA RevisionsStay ==
  ASSUME RevisionsOK,
         \/ conn'.revision = conn.revision /\ disk'.revision \in {disk.revision, conn.revision}
         \/ conn'.revision = disk.revision /\ disk'.revision = disk.revision
  PROVE  RevisionsOK'
<1>1. Numbered(disk) /\ Numbered(conn) /\ RevGrown(disk, conn)
  BY DEF RevisionsOK
<1>2. Numbered(disk') /\ Numbered(conn')
  BY <1>1, SameRevisions
<1>3. RevGrown(disk', conn')
  BY <1>1 DEF RevGrown
<1> QED BY <1>2, <1>3 DEF RevisionsOK

\* What a call relies on, it can rely on after such a step.
LEMMA PlansStay ==
  ASSUME RevisionsOK, NEW d \in Calls, CallPlans(d), call'[d] = call[d],
         call[d].kind = "accept" => call[d].rev \in Ids,
         \/ conn'.revision = conn.revision /\ disk'.revision \in {disk.revision, conn.revision}
         \/ conn'.revision = disk.revision /\ disk'.revision = disk.revision,
         call[d].pc \in Unmade => conn'.mission[d] = Nobody
  PROVE  CallPlans(d)'
<1>1. call[d].pc \in Unsaved => conn'.revision[d] = Nobody
  BY DEF CallPlans, RevisionsOK, RevGrown, Ids
<1>2. call[d].pc \in {"count", "save"} =>
        conn'.revision = conn.revision /\ conn'.revision = disk'.revision
  BY DEF CallPlans
<1>3. call[d].pc = "save" =>
        call[d].number = Cardinality(RevisionsOf(conn', call[d].mission))
  BY <1>2, SameRevisions DEF CallPlans
<1>4. call[d].kind = "accept" =>
        /\ disk'.revision[call[d].rev] # Nobody
        /\ disk'.revision[call[d].rev].mission = call[d].mission
  BY DEF CallPlans, RevisionsOK, RevGrown
<1> QED BY <1>1, <1>2, <1>3, <1>4 DEF CallPlans

\* What depends on the missions' plans and on the revisions.
LEMMA SamePlans ==
  ASSUME NEW a, NEW b, a.revision = b.revision, a.mission = b.mission
  PROVE  /\ Planned(a) => Planned(b)
         /\ \A r : InForce(a, r) => InForce(b, r)
         /\ AcceptedIn(a) = AcceptedIn(b)
<1>1. AcceptedIn(a) = AcceptedIn(b)
  BY DEF AcceptedIn
<1>2. \A r : InForce(a, r) => InForce(b, r)
  BY DEF InForce
<1> QED BY <1>1, <1>2 DEF Planned

\* The call inside withTransaction is where it works.
LEMMA OwnerIsThere ==
  ASSUME TxInv, NEW c \in Calls
  PROVE  /\ tx = c <=> InTx(c)
         /\ tx \in Calls \cup {Nobody}
         /\ c # Nobody
BY NobodyIsNone DEF TxInv, OwnerOK, ImagesOK

-----------------------------------------------------------------------------
(* Steps that write nothing *)

\* A step that leaves both images alone and moves call c.
LEMMA QuietStep ==
  ASSUME TxInv, PlanInv, NEW c \in Calls,
         UNCHANGED <<disk, conn, tx, stale, torn>>,
         \A d \in Calls \ {c} : call'[d] = call[d],
         CallPlans(c)', tx = c /\ ~stale /\ ~torn => Outlook(c)'
  PROVE  PlanInv'
<1>1. RevisionsOK'
  BY RevisionsStay DEF PlanInv
<1>2. ASSUME NEW d \in Calls \ {c} PROVE CallPlans(d)'
  <2>1. call[d].kind = "accept" => call[d].rev \in Ids
    BY DEF TxInv, CallsOK, CallKnows
  <2> QED BY <2>1, PlansStay DEF PlanInv, CallPlans
<1>3. PlansOK'
  <2> SUFFICES ASSUME ~stale, ~torn
               PROVE  /\ Planned(disk)' /\ (tx' = Nobody => Planned(conn)')
                      /\ (tx' # Nobody => Outlook(tx)')
    BY DEF PlansOK
  <2>1. Planned(disk) /\ (tx = Nobody => Planned(conn)) /\ (tx # Nobody => Outlook(tx))
    BY DEF PlanInv, PlansOK
  <2>2. ASSUME tx \in Calls, tx # c PROVE Outlook(tx)'
    BY <2>1, <2>2, OwnerIsThere DEF Outlook, Accepting, Doomed
  <2> QED BY <2>1, <2>2, OwnerIsThere
<1> QED BY <1>1, <1>2, <1>3 DEF PlanInv

\* An admission, a read and an operation begin.
LEMMA StartPlans ==
  ASSUME TxInv, PlanInv, NEW c \in Calls,
         StartAdmit(c) \/ StartRead(c) \/ StartOnMission(c)
  PROVE  PlanInv'
<1>1. /\ call[c].pc = "idle" /\ UNCHANGED <<disk, conn, tx, stale, torn>>
      /\ call \in [Calls -> CallTypes]
  BY DEF StartAdmit, StartRead, StartOnMission, storeVars, TxInv, CallsOK
<1>2. /\ \A d \in Calls \ {c} : call'[d] = call[d]
      /\ call'[c].pc \in {"guard", "queued"}
      /\ call'[c].kind = "accept" => /\ disk.revision[call'[c].rev] # Nobody
                                     /\ disk.revision[call'[c].rev].mission = call'[c].mission
  <2>1. CASE StartAdmit(c)
    <3>1. PICK q \in Requests, p \in Payloads :
            call' = [call EXCEPT ![c] = [Idle EXCEPT !.kind = "admit", !.req = q,
                                            !.payload = p, !.pc = "queued"]]
      BY <2>1 DEF StartAdmit
    <3> QED BY <1>1, <3>1 DEF Idle
  <2>2. CASE StartRead(c)
    BY <1>1, <2>2 DEF StartRead, Idle
  <2>3. CASE StartOnMission(c)
    <3>0. PICK k \in PlainKinds \cup GuardedKinds, m \in Ids :
            \E v \in Wanted(k, m) :
              call' = [call EXCEPT ![c] =
                       [Idle EXCEPT !.kind = k, !.mission = m, !.rev = v,
                                    !.seen = conn.mission[m], !.pc = "guard"]]
      BY <2>3 DEF StartOnMission
    <3>1. PICK v \in Wanted(k, m) :
            call' = [call EXCEPT ![c] =
                       [Idle EXCEPT !.kind = k, !.mission = m, !.rev = v,
                                    !.seen = conn.mission[m], !.pc = "guard"]]
      BY <3>0
    <3>2. k = "accept" => disk.revision[v] # Nobody /\ disk.revision[v].mission = m
      BY DEF Wanted
    <3>3. /\ call'[c].pc = "guard" /\ call'[c].kind = k /\ call'[c].mission = m
          /\ call'[c].rev = v /\ \A d \in Calls \ {c} : call'[d] = call[d]
      BY <1>1, <3>1 DEF Idle
    <3> QED BY <3>2, <3>3
  <2> QED BY <2>1, <2>2, <2>3
<1>3. CallPlans(c)'
  BY <1>1, <1>2 DEF PlanInv, CallPlans, Unmade, Unsaved
<1>4. tx # c
  BY <1>1, OwnerIsThere DEF InTx
<1> QED BY <1>1, <1>2, <1>3, <1>4, QuietStep

\* A guard refuses, or the call waits for its transaction.
LEMMA GuardPlans ==
  ASSUME TxInv, PlanInv, NEW c \in Calls,
         GuardFails(c) \/ AcceptRefused(c) \/ Enqueue(c)
  PROVE  PlanInv'
<1>1. PICK pc \in {"refused", "queued"} : call' = Goto(c, pc)
  BY DEF GuardFails, AcceptRefused, Enqueue
<1>2. call[c].pc = "guard" /\ UNCHANGED <<disk, conn, tx, stale, torn>>
  BY DEF GuardFails, AcceptRefused, Enqueue, storeVars
<1>3. pc \in Places
  BY DEF Places, Ended
<1>4. /\ call'[c].pc = pc /\ call'[c].kind = call[c].kind
      /\ call'[c].mission = call[c].mission /\ call'[c].rev = call[c].rev
      /\ \A d \in Calls \ {c} : call'[d] = call[d]
  BY <1>1, <1>3, Moves
<1>5. CallPlans(c)'
  BY <1>2, <1>4 DEF PlanInv, CallPlans, Unmade, Unsaved
<1>6. tx # c
  BY <1>2, OwnerIsThere DEF InTx
<1> QED BY <1>2, <1>4, <1>5, <1>6, QuietStep

\* updateMission reads, and proposePlan counts.
LEMMA ReadPlans ==
  ASSUME TxInv, PlanInv, NEW c \in Calls, Reread(c) \/ Count(c)
  PROVE  PlanInv'
<1>1. /\ UNCHANGED <<disk, conn, tx, stale, torn>> /\ call \in [Calls -> CallTypes]
      /\ \A d \in Calls \ {c} : call'[d] = call[d]
      /\ call'[c].kind = call[c].kind /\ call'[c].mission = call[c].mission
      /\ call'[c].rev = call[c].rev
  BY DEF Reread, Count, storeVars, TxInv, CallsOK, CallTypes
<1>2. CASE Reread(c)
  <2>1. /\ call'[c].pc \in {"write", "rollback", "failed"}
        /\ call[c].pc \in {"guard", "reread"}
        /\ call[c].pc = "guard" => call[c].kind \in PlainKinds
    BY <1>1, <1>2 DEF Reread, CallTypes
  <2>2. CallPlans(c)'
    BY <1>1, <2>1 DEF PlanInv, CallPlans, Unmade, Unsaved
  <2>3. ASSUME tx = c, ~stale, ~torn PROVE Outlook(c)'
    <3>1. call[c].pc = "reread" /\ Outlook(c)
      BY <2>1, <2>3, OwnerIsThere DEF InTx, PlanInv, PlansOK
    <3>2. call'[c].pc # "failed"
      BY <1>1, <1>2, <2>3 DEF Reread, CallTypes
    <3> QED BY <1>1, <2>1, <3>1, <3>2 DEF Outlook, Accepting, Doomed
  <2> QED BY <1>1, <2>2, <2>3, QuietStep
<1>3. CASE Count(c)
  <2>1. /\ call[c].pc = "count" /\ call'[c].pc = "save"
        /\ call'[c].number = Cardinality(RevisionsOf(conn, call[c].mission))
    BY <1>1, <1>3 DEF Count, CallTypes
  <2>2. call[c].kind = "propose"
    BY <2>1 DEF TxInv, CallsOK, CallKnows
  <2>3. CallPlans(c)'
    BY <1>1, <2>1 DEF PlanInv, CallPlans, Unmade, Unsaved
  <2>4. ASSUME tx = c, ~stale, ~torn PROVE Outlook(c)'
    BY <1>1, <2>1, <2>2, <2>4, OwnerIsThere
       DEF PlanInv, PlansOK, Outlook, Accepting, Doomed
  <2> QED BY <1>1, <2>3, <2>4, QuietStep
<1> QED BY <1>2, <1>3

-----------------------------------------------------------------------------
(* Steps that write a mission *)

\* What PutMission leaves behind.
LEMMA PutFacts ==
  ASSUME TxInv, NEW c \in Calls, NEW m \in Ids, NEW r \in Rows, PutMission(c, m, r)
  PROVE  /\ conn'.revision = conn.revision
         /\ conn'.mission = [conn.mission EXCEPT ![m] = r]
         /\ disk' = IF open THEN disk ELSE conn'
         /\ disk'.revision \in {disk.revision, conn.revision}
<1>1. conn' = With(c, m, r) /\ disk' = IF open THEN disk ELSE conn'
  BY DEF PutMission, Store, With
<1>2. conn'.mission = [conn.mission EXCEPT ![m] = r]
  BY <1>1, PutIsImage DEF TxInv
<1>3. conn'.revision = conn.revision
  BY <1>1 DEF With, TxInv, ImagesOK, Images
<1> QED BY <1>1, <1>2, <1>3

\* The plans in force stay in force when a row is written with its own plan.
LEMMA PlansInForce ==
  ASSUME TxInv, NEW m \in Ids, NEW r \in Rows,
         conn'.revision = conn.revision, conn'.mission = [conn.mission EXCEPT ![m] = r],
         conn.mission[m] = Nobody \/ r.plan = conn.mission[m].plan
  PROVE  /\ \A v \in Ids : InForce(conn, v) => InForce(conn', v)
         /\ AcceptedIn(conn') = AcceptedIn(conn)
         /\ Planned(conn) => Planned(conn')
<1>1. conn.mission \in [Ids -> Rows \cup {Nobody}]
  BY DEF TxInv, ImagesOK, Images
<1>2. ASSUME NEW v \in Ids, InForce(conn, v) PROVE InForce(conn', v)
  <2>1. conn.mission[conn.revision[v].mission] # Nobody
        /\ conn.mission[conn.revision[v].mission].plan = v
    BY <1>2 DEF InForce
  <2>2. CASE conn.revision[v].mission = m
    <3>1. conn'.mission[m] = r /\ r # Nobody /\ r.plan = v
      BY <1>1, <2>1, <2>2, NobodyIsNone
    <3> QED BY <2>2, <3>1 DEF InForce
  <2>3. CASE conn.revision[v].mission # m
    <3>1. conn'.mission[conn.revision[v].mission] = conn.mission[conn.revision[v].mission]
      BY <1>1, <2>3
    <3> QED BY <2>1, <3>1 DEF InForce
  <2> QED BY <2>2, <2>3
<1>3. AcceptedIn(conn') = AcceptedIn(conn)
  BY DEF AcceptedIn
<1>4. AcceptedIn(conn) \subseteq Ids
  BY DEF AcceptedIn
<1> QED BY <1>2, <1>3, <1>4 DEF Planned

\* A row is written: who has not made its mission is not concerned.
LEMMA PutAndCalls ==
  ASSUME TxInv, PlanInv, NEW c \in Calls, NEW m \in Ids, NEW r \in Rows,
         PutMission(c, m, r), \A d \in Calls \ {c} : call'[d] = call[d],
         \A d \in Calls \ {c} : call[d].pc \in Unmade => d # m,
         CallPlans(c)'
  PROVE  RevisionsOK' /\ \A d \in Calls : CallPlans(d)'
<1>1. /\ conn'.revision = conn.revision
      /\ disk'.revision \in {disk.revision, conn.revision}
      /\ conn'.mission = [conn.mission EXCEPT ![m] = r]
  BY PutFacts
<1>2. RevisionsOK'
  BY <1>1, RevisionsStay DEF PlanInv
<1>3. ASSUME NEW d \in Calls \ {c} PROVE CallPlans(d)'
  <2>1. call[d].kind = "accept" => call[d].rev \in Ids
    BY DEF TxInv, CallsOK, CallKnows
  <2>2. call[d].pc \in Unmade => conn'.mission[d] = Nobody
    BY <1>1 DEF PlanInv, CallPlans, TxInv, ImagesOK, Images
  <2> QED BY <1>1, <2>1, <2>2, PlansStay DEF PlanInv
<1> QED BY <1>2, <1>3

\* The plans after a row was written with its own plan by a call that is not
\* accepting another, or by another than the owner.
LEMMA PutKeepsPlans ==
  ASSUME TxInv, PlanInv, NEW c \in Calls, NEW m \in Ids, NEW r \in Rows,
         PutMission(c, m, r), UNCHANGED <<open, tx, torn>>, stale => stale',
         \A d \in Calls \ {c} : call'[d] = call[d],
         ~stale' => conn.mission[m] = Nobody \/ r.plan = conn.mission[m].plan,
         tx = c => /\ ~Accepting(c) /\ ~Doomed(c)
                   /\ call'[c].kind # "accept" \/ call'[c].pc = "commit"
  PROVE  PlansOK'
<1> SUFFICES ASSUME ~stale', ~torn'
             PROVE  /\ Planned(disk)' /\ (tx' = Nobody => Planned(conn)')
                    /\ (tx' # Nobody => Outlook(tx)')
  BY DEF PlansOK
<1>1. ~stale /\ ~torn
  OBVIOUS
<1>2. /\ Planned(disk) /\ (tx = Nobody => Planned(conn))
      /\ (tx # Nobody => Outlook(tx))
  BY <1>1 DEF PlanInv, PlansOK
<1>3. /\ conn'.revision = conn.revision
      /\ conn'.mission = [conn.mission EXCEPT ![m] = r]
      /\ disk' = IF open THEN disk ELSE conn'
  BY PutFacts
<1>4. /\ \A v \in Ids : InForce(conn, v) => InForce(conn', v)
      /\ AcceptedIn(conn') = AcceptedIn(conn)
      /\ Planned(conn) => Planned(conn')
  BY <1>3, PlansInForce
<1>5. open <=> tx # Nobody
  BY <1>1 DEF TxInv, ImagesOK
<1>6. CASE tx = Nobody
  BY <1>2, <1>3, <1>4, <1>5, <1>6
<1>7. CASE tx = c
  <2>1. Planned(conn')
    BY <1>2, <1>4, <1>7, OwnerIsThere DEF Outlook
  <2>2. Outlook(c)'
    BY <2>1, <1>7 DEF Outlook, Accepting
  <2> QED BY <1>2, <1>3, <1>5, <1>7, <2>2, OwnerIsThere
<1>8. CASE tx \in Calls \ {c}
  <2>1. call'[tx] = call[tx] /\ Outlook(tx) /\ tx # Nobody
    BY <1>2, <1>8, OwnerIsThere
  <2>2. conn.mission[call[tx].mission] # Nobody /\ call[tx].kind = "accept" =>
          \/ call[tx].mission # m
          \/ r.plan = conn.mission[m].plan
    OBVIOUS
  <2>3. call[tx].kind = "accept" => call[tx].mission \in Ids
    BY <1>8 DEF TxInv, CallsOK, CallKnows, Kinds, GuardedKinds
  <2>4. /\ conn.mission \in [Ids -> Rows \cup {Nobody}]
        /\ r # Nobody
    BY NobodyIsNone DEF TxInv, ImagesOK, Images
  <2>5. call[tx].kind = "accept" /\ conn.mission[call[tx].mission] # Nobody =>
          /\ conn'.mission[call[tx].mission] # Nobody
          /\ conn'.mission[call[tx].mission].plan = conn.mission[call[tx].mission].plan
    BY <1>3, <2>2, <2>3, <2>4
  <2>6. AcceptedIn(conn) \subseteq Ids
    BY DEF AcceptedIn
  <2>7. Outlook(tx)'
    BY <1>3, <1>4, <2>1, <2>5, <2>6 DEF Outlook, Accepting, Doomed
  <2> QED BY <1>2, <1>3, <1>5, <2>1, <2>7
<1> QED BY <1>6, <1>7, <1>8, OwnerIsThere

\* A write over a mission that is there.
LEMMA WritePlans ==
  ASSUME TxInv, PlanInv, NEW c \in Calls, Write(c)
  PROVE  PlanInv'
<1> DEFINE m == call[c].mission
           cur == call[c].cur
           row == IF call[c].kind = "accept" THEN Accepted(c, cur)
                  ELSE Updated(call[c].kind, call[c].seen, cur)
<1>1. /\ PutMission(c, m, row) /\ call[c].pc = "write"
      /\ UNCHANGED <<open, tx, torn>>
      /\ stale' = (stale \/ conn.mission[m] # cur)
  BY DEF Write
<1>2. /\ call[c].kind \in Kinds /\ m \in Ids /\ cur \in Rows
      /\ call[c].seen \in Rows /\ disk.mission[m] # Nobody
      /\ call[c].kind \in PlainKinds => Allowed(call[c].kind, call[c].seen)
      /\ call[c].kind = "accept" => call[c].rev \in Ids
  BY <1>1 DEF TxInv, CallsOK, CallKnows
<1>3. row \in Rows
  <2>1. CASE call[c].kind = "accept"
    BY <2>1, <1>2 DEF Accepted, Rows, States
  <2>2. CASE call[c].kind # "accept"
    BY <2>2, <1>2, UpdatedIsRow DEF Kinds, GuardedKinds
  <2> QED BY <2>1, <2>2
<1>4. /\ call \in [Calls -> CallTypes]
      /\ \A d \in Calls \ {c} : call'[d] = call[d]
      /\ call'[c].pc = IF tx = c THEN "commit" ELSE "acked"
      /\ call'[c].kind = call[c].kind /\ call'[c].mission = m
      /\ call'[c].rev = call[c].rev
  BY DEF Write, TxInv, CallsOK, CallTypes
<1>5. call[c].kind = "accept" => row.plan = call[c].rev
  BY <1>2 DEF Accepted, Rows
<1>6. call[c].kind # "accept" => row.plan = cur.plan
  BY <1>2 DEF Updated, Rows, Kinds, PlainKinds, GuardedKinds
<1> HIDE DEF row
<1>7. \A d \in Calls \ {c} : call[d].pc \in Unmade => d # m
  BY <1>2 DEF PlanInv, CallPlans, TxInv, ImagesOK, Grown
<1>8. disk'.revision \in {disk.revision, conn.revision}
  BY <1>1, <1>2, <1>3, PutFacts
<1>9. CallPlans(c)'
  BY <1>2, <1>4, <1>8 DEF PlanInv, CallPlans, Unmade, Unsaved, RevisionsOK, RevGrown
<1>10. RevisionsOK' /\ \A d \in Calls : CallPlans(d)'
  BY <1>1, <1>2, <1>3, <1>4, <1>7, <1>9, PutAndCalls
<1>11. CASE call[c].kind # "accept"
  <2>1. tx = c => ~Accepting(c) /\ ~Doomed(c)
    BY <1>1, <1>11 DEF Accepting, Doomed
  <2>2. ~stale' => row.plan = conn.mission[m].plan
    BY <1>1, <1>6, <1>11
  <2> QED BY <1>1, <1>2, <1>3, <1>4, <1>10, <1>11, <2>1, <2>2, PutKeepsPlans DEF PlanInv
<1>12. CASE call[c].kind = "accept"
  <2>1. tx = c /\ tx' = c /\ c # Nobody
    BY <1>1, <1>12, OwnerIsThere DEF InTx, GuardedKinds
  <2>2. PlansOK'
    <3> SUFFICES ASSUME ~stale', ~torn'
                 PROVE  Planned(disk)' /\ Outlook(c)'
      BY <2>1 DEF PlansOK
    <3>1. ~stale /\ ~torn /\ open
      BY <1>1, <2>1 DEF TxInv, ImagesOK
    <3>2. Planned(disk) /\ Outlook(c) /\ Accepting(c)
      BY <1>1, <1>12, <2>1, <3>1 DEF PlanInv, PlansOK, Accepting
    <3>3. /\ conn'.revision = conn.revision
          /\ conn'.mission = [conn.mission EXCEPT ![m] = row]
          /\ disk' = disk
      BY <1>1, <1>2, <1>3, <3>1, PutFacts
    <3>4. ASSUME NEW v \in AcceptedIn(conn') PROVE InForce(conn', v)
      <4>1. v \in AcceptedIn(conn) /\ v \in Ids
        BY <3>3, <3>4 DEF AcceptedIn
      <4>2. CASE v = call[c].rev
        <5>1. conn.revision[v].mission = m
          BY <1>2, <1>12, <4>2 DEF PlanInv, CallPlans, RevisionsOK, RevGrown
        <5>2. conn'.mission[m] = row /\ row # Nobody
          BY <1>2, <1>3, <3>3, NobodyIsNone DEF TxInv, ImagesOK, Images
        <5> QED BY <1>5, <1>12, <3>3, <4>2, <5>1, <5>2 DEF InForce
      <4>3. CASE InForce(conn, v) /\ conn.revision[v].mission # m
        <5>1. conn'.mission[conn.revision[v].mission] = conn.mission[conn.revision[v].mission]
          BY <3>3, <4>3 DEF TxInv, ImagesOK, Images
        <5> QED BY <3>3, <4>3, <5>1 DEF InForce
      <4> QED BY <3>2, <4>1, <4>2, <4>3 DEF Outlook
    <3>5. Planned(conn')
      BY <3>4 DEF Planned
    <3> QED BY <1>4, <2>1, <3>2, <3>3, <3>5 DEF Outlook, Accepting
  <2> QED BY <1>10, <2>2 DEF PlanInv
<1> QED BY <1>11, <1>12

\* engine.createMission: the mission is new.
LEMMA CreatePlans ==
  ASSUME TxInv, PlanInv, NEW c \in Calls, Create(c)
  PROVE  PlanInv'
<1>1. /\ call[c].pc = "create" /\ PutMission(c, c, NewRow)
      /\ UNCHANGED <<open, tx, torn, stale>> /\ c \in Ids
  BY DEF Create, Ids
<1>2. /\ call[c].kind = "admit" /\ conn.mission[c] = Nobody
  BY <1>1 DEF TxInv, CallsOK, CallKnows, PlanInv, CallPlans, Unmade
<1>3. /\ \A d \in Calls \ {c} : call'[d] = call[d]
      /\ call'[c].pc = "record" /\ call'[c].kind = "admit"
  BY <1>2 DEF Create, TxInv, CallsOK, CallTypes
<1>4. CallPlans(c)'
  BY <1>3 DEF CallPlans, Unmade, Unsaved
<1>5. RevisionsOK' /\ \A d \in Calls : CallPlans(d)'
  BY <1>1, <1>3, <1>4, NewRowIsRow, PutAndCalls
<1>6. ~Accepting(c) /\ ~Doomed(c)
  BY <1>1 DEF Accepting, Doomed
<1>7. PlansOK'
  BY <1>1, <1>2, <1>3, <1>6, NewRowIsRow, PutKeepsPlans
<1> QED BY <1>5, <1>7 DEF PlanInv

\* createMissionAdmission touches no mission and no revision.
LEMMA RecordPlans ==
  ASSUME TxInv, PlanInv, NEW c \in Calls, Record(c)
  PROVE  PlanInv'
<1>1. /\ call[c].pc = "record" /\ UNCHANGED <<open, tx, torn, stale>>
      /\ conn' = [conn EXCEPT !.admission[call[c].req] =
                    [mission |-> call[c].mission, payload |-> call[c].payload]]
      /\ disk' = IF open THEN disk ELSE conn'
  BY DEF Record, Store
<1>2. conn'.revision = conn.revision /\ conn'.mission = conn.mission
  BY <1>1 DEF TxInv, ImagesOK, Images
<1>3. disk'.revision \in {disk.revision, conn.revision}
  BY <1>1, <1>2
<1>4. call[c].kind = "admit" /\ tx = c /\ c # Nobody
  BY <1>1, OwnerIsThere DEF TxInv, CallsOK, CallKnows, InTx
<1>5. /\ \A d \in Calls \ {c} : call'[d] = call[d]
      /\ call'[c].pc = "commit" /\ call'[c].kind = "admit"
  BY <1>4 DEF Record, Goto, TxInv, CallsOK, CallTypes
<1>6. RevisionsOK'
  BY <1>2, <1>3, RevisionsStay DEF PlanInv
<1>7. ASSUME NEW d \in Calls PROVE CallPlans(d)'
  <2>1. CASE d = c
    BY <1>5, <2>1 DEF CallPlans, Unmade, Unsaved
  <2>2. CASE d # c
    <3>1. call[d].kind = "accept" => call[d].rev \in Ids
      BY DEF TxInv, CallsOK, CallKnows
    <3>2. call[d].pc \in Unmade => conn'.mission[d] = Nobody
      BY <1>2 DEF PlanInv, CallPlans
    <3> QED BY <1>2, <1>3, <1>5, <2>2, <3>1, <3>2, PlansStay DEF PlanInv
  <2> QED BY <2>1, <2>2
<1>8. PlansOK'
  <2> SUFFICES ASSUME ~stale, ~torn PROVE Planned(disk)' /\ Outlook(c)'
    BY <1>1, <1>4 DEF PlansOK
  <2>1. open /\ Planned(disk) /\ Outlook(c)
    BY <1>4 DEF TxInv, ImagesOK, PlanInv, PlansOK
  <2>2. Planned(conn)
    BY <1>1, <2>1 DEF Outlook, Accepting, Doomed
  <2>3. Planned(conn')
    BY <1>2, <2>2, SamePlans
  <2> QED BY <1>1, <1>5, <2>1, <2>3 DEF Outlook, Accepting
<1> QED BY <1>6, <1>7, <1>8 DEF PlanInv

-----------------------------------------------------------------------------
(* Steps that write a revision *)

\* proposePlan saves the next revision: its number is one more than there are.
LEMMA SavePlans ==
  ASSUME TxInv, PlanInv, NEW c \in Calls, Save(c)
  PROVE  PlanInv'
<1> DEFINE m == call[c].mission
           n == call[c].number
           new == [mission |-> m, status |-> "proposed", number |-> n + 1]
<1>1. /\ call[c].pc = "save" /\ UNCHANGED <<open, tx, torn, stale>>
      /\ conn' = [conn EXCEPT !.revision[c] = new]
      /\ disk' = IF open THEN disk ELSE conn'
      /\ call' = Goto(c, "reread")
  BY DEF Save, Store
<1>2. /\ tx = c /\ c # Nobody /\ c \in Ids /\ call[c].kind = "propose" /\ n \in Nat
  BY <1>1, OwnerIsThere DEF InTx, TxInv, CallsOK, CallKnows, CallTypes, Ids
<1>3. /\ conn.revision \in [Ids -> Revisions \cup {Nobody}]
      /\ conn.revision[c] = Nobody
      /\ n = Cardinality(RevisionsOf(conn, m))
  BY <1>1 DEF TxInv, ImagesOK, Images, PlanInv, CallPlans, Unsaved
<1>4. /\ conn'.revision = [conn.revision EXCEPT ![c] = new]
      /\ conn'.mission = conn.mission
  BY <1>1 DEF TxInv, ImagesOK, Images
<1>5. new # Nobody
  <2>1. m \in Ids
    BY <1>2 DEF TxInv, CallsOK, CallKnows, Kinds, GuardedKinds
  <2>2. new \in Revisions
    BY <1>2, <2>1 DEF Revisions
  <2> QED BY <2>2, NobodyIsNone
<1>6. new.mission = m /\ new.number = n + 1 /\ new.status = "proposed"
  OBVIOUS
<1> HIDE DEF new
<1>7. \A r \in Ids \ {c} : conn'.revision[r] = conn.revision[r]
  BY <1>3, <1>4
<1>8. conn'.revision[c] = new
  BY <1>2, <1>3, <1>4
<1>9. /\ \A k : k # m => RevisionsOf(conn', k) = RevisionsOf(conn, k)
      /\ RevisionsOf(conn', m) = RevisionsOf(conn, m) \cup {c}
      /\ c \notin RevisionsOf(conn, m)
  BY <1>2, <1>3, <1>5, <1>6, <1>7, <1>8 DEF RevisionsOf
<1>10. Cardinality(RevisionsOf(conn', m)) = n + 1
  <2>1. IsFiniteSet(RevisionsOf(conn, m))
    BY StoreAssumption, FS_Subset DEF RevisionsOf
  <2> QED BY <1>3, <1>9, <2>1, FS_AddElement
<1>11. Numbered(conn')
  <2> SUFFICES ASSUME NEW r \in Ids, conn'.revision[r] # Nobody
               PROVE  LET all == RevisionsOf(conn', conn'.revision[r].mission)
                      IN /\ conn'.revision[r].number <= Cardinality(all)
                         /\ \A v \in all \ {r} :
                              conn'.revision[v].number # conn'.revision[r].number
    BY DEF Numbered
  <2>1. \A v \in RevisionsOf(conn, m) :
          conn.revision[v].number \in Nat /\ conn.revision[v].number <= n
    BY <1>3 DEF PlanInv, RevisionsOK, Numbered, RevisionsOf, Revisions
  <2>2. CASE r = c
    <3>1. \A v \in RevisionsOf(conn, m) : conn'.revision[v] = conn.revision[v]
      BY <1>7, <1>9 DEF RevisionsOf
    <3>2. \A v \in RevisionsOf(conn, m) : conn'.revision[v].number # n + 1
      BY <1>2, <2>1, <3>1
    <3>3. conn'.revision[r].mission = m /\ conn'.revision[r].number = n + 1
      BY <1>6, <1>8, <2>2
    <3>4. conn'.revision[r].number <= Cardinality(RevisionsOf(conn', m))
      BY <1>2, <1>10, <3>3
    <3>5. \A v \in RevisionsOf(conn', m) \ {r} : v \in RevisionsOf(conn, m)
      BY <1>9, <2>2
    <3> HIDE DEF m, n
    <3> QED BY <3>2, <3>3, <3>4, <3>5
  <2>3. CASE r # c
    <3> DEFINE k == conn.revision[r].mission
    <3>1. /\ conn'.revision[r] = conn.revision[r] /\ conn.revision[r] # Nobody
          /\ r \in RevisionsOf(conn, k)
      BY <1>7, <2>3 DEF RevisionsOf
    <3>2. /\ conn.revision[r].number <= Cardinality(RevisionsOf(conn, k))
          /\ \A v \in RevisionsOf(conn, k) \ {r} :
               conn.revision[v].number # conn.revision[r].number
      BY <3>1 DEF PlanInv, RevisionsOK, Numbered
    <3>3. \A v \in RevisionsOf(conn, k) \ {c} : conn'.revision[v] = conn.revision[v]
      BY <1>7 DEF RevisionsOf
    <3>4. c \notin RevisionsOf(conn, k)
      BY <1>3 DEF RevisionsOf
    <3>5. CASE k # m
      BY <1>9, <3>1, <3>2, <3>3, <3>4, <3>5
    <3>6. CASE k = m
      <4>1. conn.revision[r].number \in Nat /\ conn.revision[r].number <= n
        BY <2>1, <3>1, <3>6
      <4>2. conn.revision[r].number <= n + 1 /\ conn.revision[r].number # n + 1
        BY <1>2, <4>1
      <4> QED BY <1>6, <1>8, <1>9, <1>10, <3>1, <3>2, <3>3, <3>4, <3>6, <4>2
    <3> QED BY <3>5, <3>6
  <2> QED BY <2>2, <2>3
<1>12. RevGrown(conn, conn') /\ RevGrown(disk, conn')
  BY <1>3, <1>7 DEF RevGrown, PlanInv, RevisionsOK
<1>13. RevisionsOK'
  <2>1. CASE open
    <3>1. disk' = disk
      BY <1>1, <2>1
    <3> QED BY <1>11, <1>12, <3>1 DEF PlanInv, RevisionsOK
  <2>2. CASE ~open
    <3>1. disk' = conn'
      BY <1>1, <2>2
    <3> QED BY <1>11, <3>1 DEF RevisionsOK, RevGrown
  <2> QED BY <2>1, <2>2
<1>14. /\ \A d \in Calls \ {c} : call'[d] = call[d]
       /\ call'[c].pc = "reread" /\ call'[c].kind = "propose"
  BY <1>1, <1>2 DEF Goto, TxInv, CallsOK, CallTypes
<1>15. ASSUME NEW d \in Calls PROVE CallPlans(d)'
  <2>1. CASE d = c
    BY <1>14, <2>1 DEF CallPlans, Unmade, Unsaved
  <2>2. CASE d # c
    <3>1. call'[d] = call[d] /\ CallPlans(d) /\ d \in Ids
      BY <1>14, <2>2 DEF PlanInv, Ids
    <3>2. call[d].pc \notin {"count", "save"}
      BY <1>2, <2>2, OwnerIsThere DEF InTx
    <3>3. call[d].pc \in Unsaved => conn'.revision[d] = Nobody
      BY <1>7, <2>2, <3>1 DEF CallPlans
    <3>4. call[d].pc \in Unmade => conn'.mission[d] = Nobody
      BY <1>4, <3>1 DEF CallPlans
    <3>5. RevGrown(disk, disk')
      BY <1>1, <1>12 DEF RevGrown
    <3>6. call[d].kind = "accept" => call[d].rev \in Ids
      BY DEF TxInv, CallsOK, CallKnows
    <3>7. call[d].kind = "accept" =>
            /\ disk'.revision[call[d].rev] # Nobody
            /\ disk'.revision[call[d].rev].mission = call[d].mission
      BY <3>1, <3>5, <3>6 DEF CallPlans, RevGrown
    <3> QED BY <3>1, <3>2, <3>3, <3>4, <3>7 DEF CallPlans
  <2> QED BY <2>1, <2>2
<1>16. PlansOK'
  <2> SUFFICES ASSUME ~stale, ~torn PROVE Planned(disk)' /\ Outlook(c)'
    BY <1>1, <1>2 DEF PlansOK
  <2>1. open /\ Planned(disk) /\ Outlook(c)
    BY <1>2 DEF TxInv, ImagesOK, PlanInv, PlansOK
  <2>2. Planned(conn)
    BY <1>1, <1>2, <2>1 DEF Outlook, Accepting, Doomed
  <2>3. AcceptedIn(conn') \subseteq AcceptedIn(conn) \ {c}
    BY <1>6, <1>7, <1>8 DEF AcceptedIn
  <2>4. Planned(conn')
    BY <1>4, <1>7, <2>2, <2>3 DEF Planned, InForce, AcceptedIn
  <2> QED BY <1>1, <1>14, <2>1, <2>4 DEF Outlook, Accepting
<1> QED BY <1>13, <1>15, <1>16 DEF PlanInv

\* A revision gets another status, by the owner c of the transaction.
LEMMA Relabel ==
  ASSUME TxInv, PlanInv, NEW c \in Calls, tx = c, NEW r \in Ids,
         NEW s \in {"accepted", "superseded"}, conn.revision[r] # Nobody,
         Store([conn EXCEPT !.revision[r].status = s]),
         \A d \in Calls \ {c} : call'[d] = call[d],
         call'[c].kind = "accept", call'[c].pc \in {"accept", "reread"},
         call'[c].rev = call[c].rev, call'[c].mission = call[c].mission,
         call[c].kind = "accept"
  PROVE  /\ RevisionsOK' /\ \A d \in Calls : CallPlans(d)'
         /\ conn'.mission = conn.mission
         /\ \A v \in Ids \ {r} : conn'.revision[v] = conn.revision[v]
         /\ conn'.revision[r].status = s
         /\ conn'.revision[r].mission = conn.revision[r].mission
         /\ disk' = IF open THEN disk ELSE conn'
<1>1. /\ conn' = [conn EXCEPT !.revision[r].status = s]
      /\ disk' = IF open THEN disk ELSE conn'
  BY DEF Store
<1>2. conn.revision \in [Ids -> Revisions \cup {Nobody}] /\ conn.revision[r] \in Revisions
  BY DEF TxInv, ImagesOK, Images
<1>3. /\ conn'.revision = [conn.revision EXCEPT ![r] = [conn.revision[r] EXCEPT !.status = s]]
      /\ conn'.mission = conn.mission
  BY <1>1 DEF TxInv, ImagesOK, Images
<1>4. conn'.revision[r] = [conn.revision[r] EXCEPT !.status = s]
      /\ \A v \in Ids \ {r} : conn'.revision[v] = conn.revision[v]
  BY <1>2, <1>3
<1>5. /\ conn'.revision[r].status = s
      /\ conn'.revision[r].mission = conn.revision[r].mission
      /\ conn'.revision[r].number = conn.revision[r].number
      /\ conn'.revision[r] \in Revisions
  BY <1>2, <1>4 DEF Revisions
<1>6. \A v \in Ids : /\ conn'.revision[v] # Nobody <=> conn.revision[v] # Nobody
                     /\ conn.revision[v] # Nobody =>
                          /\ conn'.revision[v].mission = conn.revision[v].mission
                          /\ conn'.revision[v].number = conn.revision[v].number
  BY <1>4, <1>5, NobodyIsNone
<1>7. \A k : RevisionsOf(conn', k) = RevisionsOf(conn, k)
  BY <1>6 DEF RevisionsOf
<1>8. Numbered(conn')
  <2>1. \A k : RevisionsOf(conn, k) \subseteq Ids
               /\ \A v \in RevisionsOf(conn, k) : conn.revision[v] # Nobody
    BY DEF RevisionsOf
  <2> QED BY <1>6, <1>7, <2>1 DEF PlanInv, RevisionsOK, Numbered
<1>9. RevGrown(disk, conn') /\ RevGrown(disk, disk')
  BY <1>1, <1>6 DEF RevGrown, PlanInv, RevisionsOK
<1>10. RevisionsOK'
  <2>1. CASE open
    <3>1. disk' = disk
      BY <1>1, <2>1
    <3> QED BY <1>8, <1>9, <3>1 DEF PlanInv, RevisionsOK
  <2>2. CASE ~open
    <3>1. disk' = conn'
      BY <1>1, <2>2
    <3> QED BY <1>8, <3>1 DEF RevisionsOK, RevGrown
  <2> QED BY <2>1, <2>2
<1>11. ASSUME NEW d \in Calls PROVE CallPlans(d)'
  <2>1. CallPlans(d) /\ d \in Ids /\ (call[d].kind = "accept" => call[d].rev \in Ids)
    BY DEF PlanInv, TxInv, CallsOK, CallKnows, Ids
  <2>2. call[d].kind = "accept" =>
          /\ disk'.revision[call[d].rev] # Nobody
          /\ disk'.revision[call[d].rev].mission = call[d].mission
    BY <1>9, <2>1 DEF CallPlans, RevGrown
  <2>3. CASE d = c
    BY <2>2, <2>3 DEF CallPlans, Unmade, Unsaved
  <2>4. CASE d # c
    <3>1. call[d].pc \notin {"count", "save"} /\ call'[d] = call[d]
      BY <2>4, OwnerIsThere DEF InTx
    <3> QED BY <1>3, <1>6, <2>1, <2>2, <3>1 DEF CallPlans
  <2> QED BY <2>3, <2>4
<1> QED BY <1>1, <1>3, <1>4, <1>5, <1>10, <1>11

\* acceptPlan supersedes the plan in force, and accepts the new one.
LEMMA AcceptancePlans ==
  ASSUME TxInv, PlanInv, NEW c \in Calls, Supersede(c) \/ Accept(c)
  PROVE  PlanInv'
<1>1. /\ call[c].pc \in {"supersede", "accept"}
      /\ UNCHANGED <<open, tx, torn, stale>>
  BY DEF Supersede, Accept
<1>2. /\ tx = c /\ c # Nobody /\ call[c].kind = "accept"
      /\ call \in [Calls -> CallTypes]
      /\ call[c].rev \in Ids /\ call[c].mission \in Ids /\ call[c].seen \in Rows
  BY <1>1, OwnerIsThere DEF InTx, TxInv, CallsOK, CallKnows, Kinds, GuardedKinds
<1>3. ~stale /\ ~torn => open /\ Planned(disk) /\ Outlook(c)
  BY <1>2 DEF TxInv, ImagesOK, PlanInv, PlansOK
<1>4. ASSUME NEW pc \in Places, call' = Goto(c, pc)
      PROVE  /\ \A d \in Calls \ {c} : call'[d] = call[d]
             /\ call'[c].pc = pc /\ call'[c].kind = "accept"
             /\ call'[c].rev = call[c].rev /\ call'[c].mission = call[c].mission
             /\ call'[c].seen = call[c].seen
  BY <1>2, <1>4, Moves
<1>5. {"accept", "reread", "rollback"} \subseteq Places
  BY DEF Places
<1>6. ASSUME NEW pc \in {"accept", "rollback"}, call' = Goto(c, pc),
             UNCHANGED <<conn, disk>>,
             pc = "accept" => call[c].pc = "supersede" /\ call[c].seen.plan = Nobody
      PROVE  PlanInv'
  <2>1. /\ \A d \in Calls \ {c} : call'[d] = call[d]
        /\ call'[c].pc = pc /\ call'[c].kind = "accept"
        /\ call'[c].rev = call[c].rev /\ call'[c].mission = call[c].mission
    BY <1>4, <1>5, <1>6
  <2>2. CallPlans(c)'
    BY <1>2, <1>6, <2>1 DEF PlanInv, CallPlans, Unmade, Unsaved
  <2>3. ASSUME ~stale, ~torn PROVE Outlook(c)'
    <3>1. CASE pc = "rollback"
      BY <2>1, <3>1 DEF Outlook, Accepting, Doomed
    <3>2. CASE pc = "accept"
      <4>1. /\ Planned(conn) /\ conn.mission[call[c].mission] # Nobody
            /\ conn.mission[call[c].mission].plan = Nobody
        BY <1>2, <1>3, <1>6, <2>3, <3>2 DEF Outlook, Accepting, Doomed
      <4>2. \A v \in AcceptedIn(conn) :
              InForce(conn, v) /\ conn.revision[v].mission # call[c].mission
        BY <4>1, NobodyIsNone DEF Planned, InForce, AcceptedIn
      <4> QED BY <1>6, <2>1, <3>2, <4>2 DEF Outlook, Accepting, AcceptedIn, InForce
    <3> QED BY <3>1, <3>2
  <2> QED BY <1>1, <1>2, <1>6, <2>1, <2>2, <2>3, QuietStep
<1>7. CASE Supersede(c)
  <2> DEFINE old == call[c].seen.plan
  <2>1. CASE old = Nobody
    <3>1. call' = Goto(c, "accept") /\ UNCHANGED <<conn, disk>>
      BY <1>7, <2>1 DEF Supersede
    <3> QED BY <1>6, <1>7, <2>1, <3>1 DEF Supersede
  <2>2. CASE old # Nobody
    <3>1. SetStatus(c, old, "superseded", "accept") /\ call[c].pc = "supersede" /\ old \in Ids
      BY <1>2, <1>7, <2>2 DEF Supersede, Rows
    <3>2. CASE conn.revision[old] = Nobody
      BY <1>6, <3>1, <3>2 DEF SetStatus
    <3>3. CASE conn.revision[old] # Nobody
      <4>1. Store([conn EXCEPT !.revision[old].status = "superseded"]) /\ call' = Goto(c, "accept")
        BY <3>1, <3>3 DEF SetStatus
      <4>2. /\ \A d \in Calls \ {c} : call'[d] = call[d]
            /\ call'[c].pc = "accept" /\ call'[c].kind = "accept"
            /\ call'[c].rev = call[c].rev /\ call'[c].mission = call[c].mission
        BY <1>4, <1>5, <4>1
      <4>3. /\ RevisionsOK' /\ \A d \in Calls : CallPlans(d)'
            /\ conn'.mission = conn.mission
            /\ \A v \in Ids \ {old} : conn'.revision[v] = conn.revision[v]
            /\ conn'.revision[old].status = "superseded"
            /\ disk' = IF open THEN disk ELSE conn'
        BY <1>2, <3>1, <3>3, <4>1, <4>2, Relabel
      <4>4. PlansOK'
        <5> SUFFICES ASSUME ~stale, ~torn PROVE Planned(disk)' /\ Outlook(c)'
          BY <1>1, <1>2 DEF PlansOK
        <5>1. /\ Planned(conn) /\ conn.mission[call[c].mission].plan = old
              /\ disk' = disk
          BY <1>2, <1>3, <3>1, <4>3 DEF Outlook, Accepting, Doomed
        <5>2. ASSUME NEW v \in AcceptedIn(conn')
              PROVE  InForce(conn', v) /\ conn'.revision[v].mission # call[c].mission
          <6>1. v \in Ids \ {old}
            BY <4>3, <5>2 DEF AcceptedIn
          <6>2. v \in AcceptedIn(conn) /\ conn'.revision[v] = conn.revision[v]
            BY <4>3, <5>2, <6>1 DEF AcceptedIn
          <6>3. InForce(conn, v)
            BY <5>1, <6>2 DEF Planned
          <6> QED BY <4>3, <5>1, <6>1, <6>2, <6>3 DEF InForce
        <5> QED BY <1>3, <4>2, <5>1, <5>2 DEF Outlook, Accepting
      <4> QED BY <4>3, <4>4 DEF PlanInv
    <3> QED BY <3>2, <3>3
  <2> QED BY <2>1, <2>2
<1>8. CASE Accept(c)
  <2> DEFINE new == call[c].rev
  <2>1. SetStatus(c, new, "accepted", "reread") /\ call[c].pc = "accept" /\ new \in Ids
    BY <1>2, <1>8 DEF Accept
  <2>2. CASE conn.revision[new] = Nobody
    BY <1>6, <2>1, <2>2 DEF SetStatus
  <2>3. CASE conn.revision[new] # Nobody
    <3>1. Store([conn EXCEPT !.revision[new].status = "accepted"]) /\ call' = Goto(c, "reread")
      BY <2>1, <2>3 DEF SetStatus
    <3>2. /\ \A d \in Calls \ {c} : call'[d] = call[d]
          /\ call'[c].pc = "reread" /\ call'[c].kind = "accept"
          /\ call'[c].rev = call[c].rev /\ call'[c].mission = call[c].mission
      BY <1>4, <1>5, <3>1
    <3>3. /\ RevisionsOK' /\ \A d \in Calls : CallPlans(d)'
          /\ conn'.mission = conn.mission
          /\ \A v \in Ids \ {new} : conn'.revision[v] = conn.revision[v]
          /\ disk' = IF open THEN disk ELSE conn'
      BY <1>2, <2>1, <2>3, <3>1, <3>2, Relabel
    <3>4. PlansOK'
      <4> SUFFICES ASSUME ~stale, ~torn PROVE Planned(disk)' /\ Outlook(c)'
        BY <1>1, <1>2 DEF PlansOK
      <4>1. /\ Outlook(c) /\ Accepting(c) /\ disk' = disk
        BY <1>2, <1>3, <2>1, <3>3 DEF Accepting
      <4>2. ASSUME NEW v \in AcceptedIn(conn'), v # new
            PROVE  InForce(conn', v) /\ conn'.revision[v].mission # call[c].mission
        <5>1. v \in AcceptedIn(conn) /\ conn'.revision[v] = conn.revision[v]
          BY <3>3, <4>2 DEF AcceptedIn
        <5>2. InForce(conn, v) /\ conn.revision[v].mission # call[c].mission
          BY <2>1, <4>1, <5>1 DEF Outlook
        <5> QED BY <3>3, <5>1, <5>2 DEF InForce
      <4> QED BY <1>3, <3>2, <4>1, <4>2 DEF Outlook, Accepting
    <3> QED BY <3>3, <3>4 DEF PlanInv
  <2> QED BY <2>2, <2>3
<1> QED BY <1>7, <1>8

-----------------------------------------------------------------------------
(* Transactions begin and end *)

\* BEGIN: the connection reads what is committed, and what an acceptance
\* supersedes is the plan in force unless the mission was read before.
LEMMA BeginPlans ==
  ASSUME TxInv, PlanInv, NEW c \in Calls, Begin(c)
  PROVE  PlanInv'
<1> DEFINE pc == FirstStep(c)
<1>1. /\ tx = Nobody /\ tx' = c /\ UNCHANGED <<disk, conn, torn>>
      /\ queue # <<>> /\ Head(queue) = c
  BY DEF Begin
<1>2. call[c].pc = "queued" /\ call \in [Calls -> CallTypes]
  <2>1. queue \in Seq(Calls) /\ queue[1] = c /\ 1 \in 1 .. Len(queue)
    BY <1>1 DEF TxInv, QueueOK
  <2> QED BY <2>1 DEF TxInv, QueueOK, InQueue, CallsOK
<1>3. conn = disk
  BY <1>1 DEF TxInv, ImagesOK
<1>4. /\ \A d \in Calls \ {c} : call'[d] = call[d]
      /\ call'[c].pc = pc /\ call'[c].kind = call[c].kind /\ call'[c].rev = call[c].rev
      /\ call'[c].seen = call[c].seen
      /\ call[c].kind # "admit" => call'[c].mission = call[c].mission
  BY <1>2 DEF Begin, CallTypes
<1>5. /\ pc \in {"create", "clash", "rollback", "commit", "count", "supersede", "reread"}
      /\ call[c].kind = "accept" => pc = "supersede"
  BY <1>2 DEF FirstStep, TxInv, CallsOK, CallKnows, GuardedKinds
<1> HIDE DEF pc
<1>6. RevisionsOK'
  BY <1>1, RevisionsStay DEF PlanInv
<1>7. ASSUME NEW d \in Calls PROVE CallPlans(d)'
  <2>1. CASE d = c
    BY <1>1, <1>2, <1>3, <1>4, <1>5, <2>1 DEF PlanInv, CallPlans, Unmade, Unsaved
  <2>2. CASE d # c
    <3>1. call[d].kind = "accept" => call[d].rev \in Ids
      BY DEF TxInv, CallsOK, CallKnows
    <3> QED BY <1>1, <1>4, <2>2, <3>1, PlansStay DEF PlanInv, CallPlans
  <2> QED BY <2>1, <2>2
<1>8. PlansOK'
  <2> SUFFICES ASSUME ~stale', ~torn' PROVE Planned(disk)' /\ Outlook(c)'
    BY <1>1, OwnerIsThere DEF PlansOK
  <2>1. /\ ~stale /\ ~torn
        /\ call[c].kind = "accept" =>
             /\ conn.mission[call[c].mission] # Nobody
             /\ conn.mission[call[c].mission].plan = call[c].seen.plan
    <3> DEFINE old == /\ call[c].kind = "accept"
                      /\ \/ conn.mission[call[c].mission] = Nobody
                         \/ conn.mission[call[c].mission].plan
                              # call[c].seen.plan
                         \/ conn.revision[call[c].rev] = Nobody
                         \/ conn.revision[call[c].rev].status # "proposed"
    <3>1. stale' = (stale \/ old)
      BY DEF Begin
    <3>2. ~old /\ ~stale /\ ~torn
      <4> HIDE DEF old
      <4> QED BY <1>1, <3>1
    <3> QED BY <3>2
  <2>2. Planned(disk) /\ Planned(conn)
    BY <1>1, <2>1 DEF PlanInv, PlansOK
  <2> QED BY <1>1, <1>4, <1>5, <2>1, <2>2 DEF Outlook, Accepting
<1> QED BY <1>6, <1>7, <1>8 DEF PlanInv

\* A transaction ends: the connection reads what is on disk.
LEMMA EndPlans ==
  ASSUME TxInv, PlanInv, NEW c \in Calls, tx = c, tx' = Nobody,
         NEW pc \in {"acked", "failed", "conflict"}, call' = Goto(c, pc),
         UNCHANGED <<stale, torn>>, conn' = disk',
         disk' = disk \/ (disk' = conn /\ call[c].pc = "commit" /\ open)
  PROVE  PlanInv'
<1>1. pc \in Places
  BY DEF Places, Ended
<1>2. /\ \A d \in Calls \ {c} : call'[d] = call[d]
      /\ call'[c].pc = pc /\ call'[c].kind = call[c].kind /\ call'[c].rev = call[c].rev
      /\ call'[c].mission = call[c].mission
  BY <1>1, Moves
<1>3. \/ conn'.revision = conn.revision /\ disk'.revision \in {disk.revision, conn.revision}
      \/ conn'.revision = disk.revision /\ disk'.revision = disk.revision
  OBVIOUS
<1>4. RevisionsOK'
  BY <1>3, RevisionsStay DEF PlanInv
<1>5. ASSUME NEW d \in Calls PROVE CallPlans(d)'
  <2>1. call[d].kind = "accept" => call[d].rev \in Ids
    BY DEF TxInv, CallsOK, CallKnows
  <2>2. CASE d = c
    BY <1>2, <2>1, <2>2 DEF PlanInv, CallPlans, RevisionsOK, RevGrown, Unmade, Unsaved
  <2>3. CASE d # c
    <3>1. call[d].pc \in Unmade => conn'.mission[d] = Nobody
      BY DEF PlanInv, CallPlans, TxInv, ImagesOK, Grown, Ids
    <3> QED BY <1>2, <1>3, <2>1, <2>3, <3>1, PlansStay DEF PlanInv
  <2> QED BY <2>2, <2>3
<1>6. PlansOK'
  <2> SUFFICES ASSUME ~stale, ~torn PROVE Planned(disk)' /\ Planned(conn)'
    BY DEF PlansOK
  <2>1. Planned(disk) /\ Outlook(c)
    BY OwnerIsThere DEF PlanInv, PlansOK
  <2>2. call[c].pc = "commit" => Planned(conn)
    BY <2>1 DEF Outlook, Accepting, Doomed
  <2> QED BY <2>1, <2>2
<1> QED BY <1>4, <1>5, <1>6 DEF PlanInv

\* COMMIT, and the ways not to commit.
LEMMA CommitPlans ==
  ASSUME TxInv, PlanInv, NEW c \in Calls,
         \/ Commit(c) \/ Rollback(c) \/ CommitFails(c)
         \/ NothingToCommit(c) \/ OwnerWriteFails(c)
  PROVE  PlanInv'
<1>1. tx = c
  BY OwnerIsThere
     DEF Commit, Rollback, CommitFails, NothingToCommit, OwnerWriteFails, InTx
<1>2. CASE Commit(c)
  BY <1>1, <1>2, EndPlans DEF Commit
<1>3. ASSUME NEW pc \in {"failed", "conflict"}, Undone(c, pc), UNCHANGED <<stale, torn>>
      PROVE  PlanInv'
  BY <1>1, <1>3, EndPlans DEF Undone
<1>4. CASE Rollback(c)
  <2>1. CASE call[c].pc = "clash"
    BY <1>3, <1>4, <2>1 DEF Rollback
  <2>2. CASE call[c].pc # "clash"
    BY <1>3, <1>4, <2>2 DEF Rollback
  <2> QED BY <2>1, <2>2
<1>5. CASE CommitFails(c) \/ NothingToCommit(c) \/ OwnerWriteFails(c)
  BY <1>3, <1>5 DEF CommitFails, NothingToCommit, OwnerWriteFails
<1> QED BY <1>2, <1>4, <1>5

\* A write without a transaction fails, and may end the open one.
LEMMA PlainWriteFailsPlans ==
  ASSUME TxInv, PlanInv, NEW c \in Calls, PlainWriteFails(c)
  PROVE  PlanInv'
<1>1. /\ call[c].pc = "write" /\ tx # c /\ call' = Goto(c, "failed")
      /\ UNCHANGED <<disk, tx, stale>>
      /\ \/ UNCHANGED <<conn, torn>>
         \/ conn' = disk /\ torn' = TRUE
  BY DEF PlainWriteFails
<1>2. "failed" \in Places
  BY DEF Places, Ended
<1>3. /\ \A d \in Calls \ {c} : call'[d] = call[d]
      /\ call'[c].pc = "failed" /\ call'[c].kind = call[c].kind
      /\ call'[c].rev = call[c].rev /\ call'[c].mission = call[c].mission
  BY <1>1, <1>2, Moves
<1>4. CallPlans(c)'
  BY <1>1, <1>3 DEF PlanInv, CallPlans, Unmade, Unsaved
<1>5. CASE UNCHANGED <<conn, torn>>
  BY <1>1, <1>3, <1>4, <1>5, QuietStep
<1>6. CASE conn' = disk /\ torn' = TRUE
  <2>1. RevisionsOK'
    BY <1>1, <1>6, RevisionsStay DEF PlanInv
  <2>2. ASSUME NEW d \in Calls \ {c} PROVE CallPlans(d)'
    <3>1. call[d].kind = "accept" => call[d].rev \in Ids
      BY DEF TxInv, CallsOK, CallKnows
    <3>2. call[d].pc \in Unmade => conn'.mission[d] = Nobody
      BY <1>6 DEF PlanInv, CallPlans, TxInv, ImagesOK, Grown, Ids
    <3> QED BY <1>1, <1>3, <1>6, <3>1, <3>2, PlansStay DEF PlanInv
  <2>3. PlansOK'
    BY <1>6 DEF PlansOK
  <2> QED BY <1>4, <2>1, <2>2, <2>3 DEF PlanInv
<1> QED BY <1>1, <1>5, <1>6

\* The process dies: what is committed stays.
LEMMA CrashPlans ==
  ASSUME TxInv, PlanInv, Crash
  PROVE  PlanInv'
<1>1. /\ conn' = disk /\ tx' = Nobody /\ UNCHANGED <<disk, stale, torn>>
      /\ call' = [c \in Calls |-> IF call[c].pc \in Ended \cup {"idle"}
                                  THEN call[c]
                                  ELSE [call[c] EXCEPT !.pc = "lost"]]
  BY DEF Crash
<1>2. RevisionsOK'
  BY <1>1, RevisionsStay DEF PlanInv
<1>3. ASSUME NEW d \in Calls PROVE CallPlans(d)'
  <2>1. call[d].kind = "accept" => call[d].rev \in Ids
    BY DEF TxInv, CallsOK, CallKnows
  <2>2. CASE call[d].pc \in Ended \cup {"idle"}
    <3>1. call[d].pc \in Unmade => conn'.mission[d] = Nobody
      BY <1>1 DEF PlanInv, CallPlans, TxInv, ImagesOK, Grown, Ids
    <3> QED BY <1>1, <2>1, <2>2, <3>1, PlansStay DEF PlanInv
  <2>3. CASE call[d].pc \notin Ended \cup {"idle"}
    <3>1. /\ call'[d].pc = "lost" /\ call'[d].kind = call[d].kind
          /\ call'[d].rev = call[d].rev /\ call'[d].mission = call[d].mission
      BY <1>1, <2>3 DEF TxInv, CallsOK, CallTypes
    <3> QED BY <1>1, <3>1 DEF PlanInv, CallPlans, Unmade, Unsaved
  <2> QED BY <2>2, <2>3
<1>4. PlansOK'
  BY <1>1 DEF PlanInv, PlansOK
<1> QED BY <1>2, <1>3, <1>4 DEF PlanInv

\* Every step keeps the plans.
LEMMA PlanInvInductive == TxInv /\ PlanInv /\ [TxNext]_txVars => PlanInv'
<1> SUFFICES ASSUME TxInv, PlanInv, [TxNext]_txVars PROVE PlanInv'
  OBVIOUS
<1>1. ASSUME NEW c \in Calls, StartAdmit(c) \/ StartRead(c) \/ StartOnMission(c) PROVE PlanInv'
  BY <1>1, StartPlans
<1>2. ASSUME NEW c \in Calls, GuardFails(c) \/ AcceptRefused(c) \/ Enqueue(c) PROVE PlanInv'
  BY <1>2, GuardPlans
<1>3. ASSUME NEW c \in Calls, Reread(c) \/ Count(c) PROVE PlanInv'
  BY <1>3, ReadPlans
<1>4. ASSUME NEW c \in Calls, Write(c) PROVE PlanInv'
  BY <1>4, WritePlans
<1>5. ASSUME NEW c \in Calls, Create(c) PROVE PlanInv'
  BY <1>5, CreatePlans
<1>6. ASSUME NEW c \in Calls, Record(c) PROVE PlanInv'
  BY <1>6, RecordPlans
<1>7. ASSUME NEW c \in Calls, Save(c) PROVE PlanInv'
  BY <1>7, SavePlans
<1>8. ASSUME NEW c \in Calls, Supersede(c) \/ Accept(c) PROVE PlanInv'
  BY <1>8, AcceptancePlans
<1>9. ASSUME NEW c \in Calls, Begin(c) PROVE PlanInv'
  BY <1>9, BeginPlans
<1>10. ASSUME NEW c \in Calls,
              \/ Commit(c) \/ Rollback(c) \/ CommitFails(c)
              \/ NothingToCommit(c) \/ OwnerWriteFails(c)
       PROVE  PlanInv'
  BY <1>10, CommitPlans
<1>11. ASSUME NEW c \in Calls, PlainWriteFails(c) PROVE PlanInv'
  BY <1>11, PlainWriteFailsPlans
<1>12. CASE Crash
  BY <1>12, CrashPlans
<1>13. CASE AllEnded \/ UNCHANGED txVars
  <2>1. UNCHANGED <<disk, conn, tx, stale, torn, call>>
    BY <1>13 DEF AllEnded, txVars, storeVars
  <2>2. RevisionsOK'
    BY <2>1, RevisionsStay DEF PlanInv
  <2>3. \A c \in Calls : CallPlans(c)'
    BY <2>1 DEF PlanInv, CallPlans
  <2>4. PlansOK'
    BY <2>1 DEF PlanInv, PlansOK, Outlook, Accepting, Doomed
  <2> QED BY <2>2, <2>3, <2>4 DEF PlanInv
<1> QED BY <1>1, <1>2, <1>3, <1>4, <1>5, <1>6, <1>7, <1>8, <1>9, <1>10, <1>11,
           <1>12, <1>13 DEF TxNext

\* Revisions of a mission are numbered apart, and at most one, the plan in
\* force, is accepted, unless a call wrote what it had read before another
\* write or a transaction lost its owner (proposePlan and acceptPlan,
\* mission-engine.ts:489-655).
THEOREM PlansAreInForce == TxSpec => []PlanHistory
<1>1. PlanInv => PlanHistory
  <2> SUFFICES ASSUME PlanInv, NEW r \in Ids, NEW s \in Ids,
                      disk.revision[r] # Nobody, disk.revision[s] # Nobody, r # s,
                      disk.revision[r].mission = disk.revision[s].mission
               PROVE  /\ disk.revision[r].number # disk.revision[s].number
                      /\ ~stale /\ ~torn /\ disk.revision[r].status = "accepted" =>
                           /\ disk.revision[s].status # "accepted"
                           /\ disk.mission[disk.revision[r].mission].plan = r
    BY DEF PlanHistory
  <2>1. disk.revision[r].number # disk.revision[s].number
    BY DEF PlanInv, RevisionsOK, Numbered, RevisionsOf
  <2>2. ASSUME ~stale, ~torn, disk.revision[r].status = "accepted"
        PROVE  /\ disk.revision[s].status # "accepted"
               /\ disk.mission[disk.revision[r].mission].plan = r
    BY <2>2 DEF PlanInv, PlansOK, Planned, InForce, AcceptedIn
  <2> QED BY <2>1, <2>2
<1>2. TxInit => TxInv /\ PlanInv
  BY TxInvInitially, PlanInvInitially
<1>3. TxInv /\ PlanInv /\ [TxNext]_txVars => (TxInv /\ PlanInv)'
  BY TxInvInductive, PlanInvInductive
<1> QED BY <1>1, <1>2, <1>3, PTL DEF TxSpec
=============================================================================
