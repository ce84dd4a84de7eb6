---------------------------- MODULE LiveProjection ----------------------------
(***************************************************************************)
(* The live view of the daemon: cli/src/daemon/daemon-projection.ts, the   *)
(* web-socket half of cli/src/daemon/server.ts, and the browser's side of  *)
(* it, web/src/lib/daemon-websocket-connection.ts and                      *)
(* daemon-event-stream.ts.                                                 *)
(*                                                                         *)
(* A browser reserves a slot before its socket is upgraded.  The projection*)
(* then takes a cursor, reads a snapshot of the durable facts, and keeps   *)
(* the events of the meantime for after it.  An event that is broadcast    *)
(* has the next sequence number, and every connected client gets it, keeps *)
(* it, or is closed for being unable to.  A closure is reported with a log *)
(* line, and a log line is an event: it is broadcast from inside the       *)
(* broadcast that caused it, and can overtake it.  The browser applies     *)
(* what continues its cursor and starts over from a new snapshot when      *)
(* something is missing.                                                   *)
(*                                                                         *)
(* The daemon runs a handler to its end, so a broadcast is not interrupted *)
(* by another handler; the browsers, the clock and the program that writes *)
(* the registry do not wait for it.  owed holds what the broadcasts under  *)
(* way have still to do, of which the innermost goes on first.  A broadcast*)
(* visits its clients in the order in which they connected; the model      *)
(* leaves that order open.                                                 *)
(*                                                                         *)
(* facts counts the durable mutations committed and announced; a view is   *)
(* the number of the last one it shows.                                    *)
(***************************************************************************)
EXTENDS LocalControlAuthority, Sequences, FiniteSets

CONSTANTS
    Viewers,            \* the browsers
    Ops,                \* the client whose credential they all use
    FirstRow,           \* what it was provisioned with before the daemon began
    MaxClients,         \* maxClients of the projection
    MaxPending,         \* maxPendingEvents
    MaxReconnects,      \* maxReconnectAttempts of the browser
    MaxFacts,           \* bound: durable mutations
    MaxDisturbances     \* bound: faults, restarts of the daemon and writes of
                        \* the registry while it runs, all together

ASSUME LiveAssumption ==
    /\ Ops \in Principals /\ FirstRow \in Rows
    /\ "nobody" \notin Viewers
    /\ MaxClients \in Nat \ {0} /\ MaxPending \in Nat \ {0}
    /\ MaxReconnects \in Nat /\ MaxFacts \in Nat /\ MaxDisturbances \in Nat

VARIABLES
    slot,       \* projection.clients, with the principal of its web socket
    wire,       \* envelopes sent and not yet received
    seq,        \* projection.sequence
    orphans,    \* snapshot reads whose client is gone: inFlightSnapshots
    timer,      \* websocketAuthorizationTimer is set
    owed,       \* deliveries that broadcasts under way have still to make
    web,        \* the browsers' connections
    up,         \* the daemon runs
    facts, disturbances

serverVars == <<slot, wire, seq, orphans, timer, owed>>
countVars == <<up, facts, disturbances>>
liveVars == <<serverVars, web, countVars, authVars>>

Slots == 1 .. MaxClients

\* No snapshot was read yet.
NotRead == -1

FreeSlot == [phase |-> "free", who |-> "nobody", secret |-> "none",
             cursor |-> 0, snap |-> NotRead, pending |-> <<>>]

Envelope(k, n, v) == [event |-> k, seq |-> n, fact |-> v]

Envelopes == [event : {"snapshot", "fact", "log"}, seq : Nat, fact : 0 .. MaxFacts]

Clients == [phase : {"free", "reserved", "handshaking", "ready", "closing"},
            who : Viewers \cup {"nobody"}, secret : Secrets \cup {"none", "lapsed"},
            cursor : Nat, snap : NotRead .. MaxFacts, pending : Seq(Envelopes)]

Deliveries == [to : Slots, what : Envelopes]

Browsers == [state : {"waiting", "open", "gave_up"}, slot : 0 .. MaxClients,
             cursor : Nat, view : 0 .. MaxFacts, attempts : 0 .. MaxReconnects]

\* The connected clients that are not closing.
Connected == {s \in Slots : slot[s].phase \in {"handshaking", "ready"}}

\* Snapshot reads under way, those counted whose client is gone.
Handshaking == {s \in Slots : slot[s].phase = "handshaking"}
InFlightSnapshots == orphans + Cardinality(Handshaking)

\* A free slot is as good as new, and only a client that waits for its snapshot
\* keeps anything.
SlotTypeOK(c) ==
    /\ Len(c.pending) <= MaxPending
    /\ c.phase = "free" <=> c = FreeSlot
    /\ c.phase # "handshaking" => c.snap = NotRead /\ c.pending = <<>>

\* The shape of the state; at most maxClients snapshot reads are under way,
\* whatever outlived its client (daemon-projection.ts:114-192).
LiveTypeOK ==
    /\ AuthorityTypeOK
    /\ slot \in [Slots -> Clients] /\ \A s \in Slots : SlotTypeOK(slot[s])
    /\ wire \in [Slots -> Seq(Envelopes)]
    /\ seq \in Nat
    /\ orphans \in Nat /\ InFlightSnapshots <= MaxClients
    /\ timer \in BOOLEAN
    /\ owed \in SUBSET Deliveries
    /\ web \in [Viewers -> Browsers]
    /\ up \in BOOLEAN
    /\ facts \in 0 .. MaxFacts /\ disturbances \in 0 .. MaxDisturbances

\* isClientStillAuthorized for the principal of a slot.
Entitled(s) == HoldsScope(Ops, slot[s].secret, "mission.read")

LiveInit ==
    /\ AuthorityInit
    /\ slot = [s \in Slots |-> FreeSlot]
    /\ wire = [s \in Slots |-> <<>>]
    /\ seq = 0
    /\ orphans = 0
    /\ timer = FALSE
    /\ owed = {}
    /\ web = [w \in Viewers |-> [state |-> "waiting", slot |-> 0, cursor |-> 0,
                                 view |-> 0, attempts |-> 0]]
    /\ up = FALSE
    /\ facts = 0
    /\ disturbances = 0

\* The bound on what goes wrong.
Disturb(n) ==
    /\ disturbances + n <= MaxDisturbances
    /\ disturbances' = disturbances + n

-----------------------------------------------------------------------------
(* Sending *)

\* No broadcast is under way: the daemon can take up another handler.
AtRest == owed = {}

\* markClientClosing: the slot stays taken until its transport has closed.
Close(s) == slot' = [slot EXCEPT ![s] = [@ EXCEPT !.phase = "closing",
                                                  !.pending = <<>>,
                                                  !.snap = NotRead]]

\* The snapshot read of a client that is closed goes on.
Orphan(s) ==
    orphans' = IF slot[s].phase = "handshaking" THEN orphans + 1 ELSE orphans

\* syncWebSocketAuthorizationTimer.
SyncTimer == timer' = (Connected' # {})

\* The envelope of an event that is broadcast now.
Numbered(event, v) == Envelope(event, seq + 1, v)

\* broadcast up to its loop: nothing, not even a number, when no client is
\* connected; otherwise a delivery to each.
Announce(clients, event, v, rest) ==
    /\ seq' = IF clients = {} THEN seq ELSE seq + 1
    /\ owed' = rest \cup {[to |-> s, what |-> Numbered(event, v)] : s \in clients}

\* closeClient with a diagnostic, in the loop of a broadcast: the client of d
\* is closed, and the report is broadcast before the loop goes on.
CloseAndReport(d) ==
    /\ Close(d.to) /\ Orphan(d.to)
    /\ Announce(Connected \ {d.to}, "log", 0, owed \ {d})
    /\ UNCHANGED wire

\* A client that waits for its snapshot keeps the event.
Keep(d) ==
    /\ slot[d.to].phase = "handshaking"
    /\ Len(slot[d.to].pending) < MaxPending
    /\ slot' = [slot EXCEPT ![d.to].pending = Append(@, d.what)]
    /\ owed' = owed \ {d}
    /\ UNCHANGED <<wire, seq, orphans, disturbances>>

Overflow(d) ==
    /\ slot[d.to].phase = "handshaking"
    /\ Len(slot[d.to].pending) >= MaxPending
    /\ CloseAndReport(d)
    /\ UNCHANGED disturbances

\* sendToClient: the send of a client that is not entitled any more closes it.
Send(d) ==
    /\ slot[d.to].phase = "ready"
    /\ IF Entitled(d.to)
       THEN /\ wire' = [wire EXCEPT ![d.to] = Append(@, d.what)]
            /\ UNCHANGED slot
       ELSE Close(d.to) /\ UNCHANGED wire
    /\ owed' = owed \ {d}
    /\ UNCHANGED <<seq, orphans, disturbances>>

SendFails(d) ==
    /\ slot[d.to].phase = "ready"
    /\ Disturb(1)
    /\ CloseAndReport(d)

\* The client was closed since the broadcast began.
Skip(d) ==
    /\ slot[d.to].phase \notin {"handshaking", "ready"}
    /\ owed' = owed \ {d}
    /\ UNCHANGED <<slot, wire, seq, orphans, disturbances>>

\* The loop of the innermost broadcast goes on with one of its clients.
Deliver ==
    /\ \E d \in owed :
         /\ \A o \in owed : o.what.seq <= d.what.seq
         /\ Keep(d) \/ Overflow(d) \/ Send(d) \/ SendFails(d) \/ Skip(d)
    /\ SyncTimer
    /\ UNCHANGED <<web, up, facts, authVars>>

-----------------------------------------------------------------------------
(* The browser *)

\* scheduleReconnect: the next attempt, unless they are used up.
Rescheduled(v) ==
    IF v.attempts < MaxReconnects
    THEN [v EXCEPT !.state = "waiting", !.slot = 0, !.attempts = @ + 1]
    ELSE [v EXCEPT !.state = "gave_up", !.slot = 0]

\* resetForConnection, and a socket of its own.
Fresh(v, s) == [v EXCEPT !.state = "open", !.slot = s, !.cursor = 0]

\* connect: a browser session is made, the upgrade asked for, and the server
\* reserves a slot for it (reserveClient).
Connect(w) ==
    /\ AtRest /\ up
    /\ web[w].state = "waiting"
    /\ HoldsScope(Ops, row[Ops].secret, "mission.read")
    /\ InFlightSnapshots < MaxClients
    /\ \E s \in Slots :
         /\ slot[s].phase = "free"
         /\ \A t \in Slots : slot[t].phase = "free" => s <= t
         /\ slot' = [slot EXCEPT ![s] = [FreeSlot EXCEPT
                       !.phase = "reserved", !.who = w,
                       !.secret = row[Ops].secret]]
         /\ web' = [web EXCEPT ![w] = Fresh(@, s)]
    /\ UNCHANGED <<wire, seq, orphans, timer, owed, countVars, authVars>>

\* No credential, or no slot: the attempt fails and is tried again later.
ConnectFails(w) ==
    /\ AtRest /\ up
    /\ web[w].state = "waiting"
    /\ \/ row[Ops] = NoRow
       \/ ~HoldsScope(Ops, row[Ops].secret, "mission.read")
       \/ InFlightSnapshots >= MaxClients
       \/ \A s \in Slots : slot[s].phase # "free"
    /\ web' = [web EXCEPT ![w] = Rescheduled(@)]
    /\ UNCHANGED <<serverVars, countVars, authVars>>

\* Mutant of Accepted: a later number is taken for the next one.
AcceptedOverGap(v, e) ==
    CASE e.event = "snapshot" /\ e.seq >= v.cursor ->
           [v EXCEPT !.cursor = e.seq, !.view = e.fact, !.attempts = 0]
      [] e.event # "snapshot" /\ e.seq > v.cursor ->
           [v EXCEPT !.cursor = e.seq,
                     !.view = IF e.event = "fact" THEN e.fact ELSE @]
      [] OTHER -> v

\* DaemonEventStream.accept, with what onmessage makes of a gap.
Accepted(v, e) ==
    CASE e.event = "snapshot" /\ e.seq >= v.cursor ->
           [v EXCEPT !.cursor = e.seq, !.view = e.fact, !.attempts = 0]
      [] e.event # "snapshot" /\ e.seq = v.cursor + 1 ->
           [v EXCEPT !.cursor = e.seq,
                     !.view = IF e.event = "fact" THEN e.fact ELSE @]
      [] e.event # "snapshot" /\ e.seq > v.cursor + 1 -> Rescheduled(v)
      [] OTHER -> v

\* onmessage of the current socket.
Receive(w) ==
    /\ web[w].slot # 0
    /\ LET s == web[w].slot
       IN /\ wire[s] # <<>>
          /\ web' = [web EXCEPT ![w] = Accepted(@, Head(wire[s]))]
          /\ wire' = [wire EXCEPT ![s] = Tail(@)]
    /\ UNCHANGED <<slot, seq, orphans, timer, owed, countVars, authVars>>

-----------------------------------------------------------------------------
(* The server *)

\* The client gets its cursor, and its snapshot is asked for.
Admit(s) ==
    /\ slot' = [slot EXCEPT ![s].phase = "handshaking",
                            ![s].cursor = IF seq = 0 THEN 1 ELSE seq]
    /\ seq' = IF seq = 0 THEN 1 ELSE seq

\* Mutant of Upgraded: the reads that outlived their clients are not counted.
UpgradedUncounted(s) == IF Entitled(s) THEN Admit(s) ELSE Close(s) /\ seq' = seq

\* The route's handler and connectClient up to its snapshot read: the client
\* is asked about again, gets its cursor, and is closed when too many reads
\* are under way.
Upgraded(s) ==
    IF ~Entitled(s) THEN Close(s) /\ seq' = seq
    ELSE IF InFlightSnapshots >= MaxClients
    THEN Close(s) /\ seq' = IF seq = 0 THEN 1 ELSE seq
    ELSE Admit(s)

Upgrade(s) ==
    /\ AtRest
    /\ slot[s].phase = "reserved"
    /\ Upgraded(s)
    /\ SyncTimer
    /\ UNCHANGED <<wire, orphans, owed, web, countVars, authVars>>

\* The snapshot operation reads the committed facts.
SnapshotRead(s) ==
    /\ AtRest
    /\ slot[s].phase = "handshaking"
    /\ slot[s].snap = NotRead
    /\ slot' = [slot EXCEPT ![s].snap = facts]
    /\ UNCHANGED <<wire, seq, orphans, timer, owed, web, countVars, authVars>>

\* The snapshot, under its cursor, and then what was kept.
Handshake(s) ==
    <<Envelope("snapshot", slot[s].cursor, slot[s].snap)>> \o slot[s].pending

\* The snapshot and the kept events are sent, and the client is ready.
Greet(s) ==
    /\ wire' = [wire EXCEPT ![s] = @ \o Handshake(s)]
    /\ slot' = [slot EXCEPT ![s].phase = "ready", ![s].snap = NotRead,
                            ![s].pending = <<>>]

\* Mutant of Greeted: the principal is not asked about again.
GreetedUnasked(s) == Greet(s)

\* A revoked client is closed by its first send.
Greeted(s) == IF Entitled(s) THEN Greet(s) ELSE Close(s) /\ UNCHANGED wire

\* The snapshot arrives: it and the kept events go out in one piece.
SnapshotSent(s) ==
    /\ AtRest
    /\ slot[s].phase = "handshaking"
    /\ slot[s].snap # NotRead
    /\ Greeted(s)
    /\ SyncTimer
    /\ UNCHANGED <<seq, orphans, owed, web, countVars, authVars>>

\* A send of the handshake fails: what went out before it did, and the
\* closure is reported to the others.
HandshakeFails(s) ==
    /\ AtRest
    /\ slot[s].phase = "handshaking"
    /\ slot[s].snap # NotRead
    /\ Entitled(s)
    /\ Disturb(1)
    /\ \E k \in 0 .. Len(slot[s].pending) :
         wire' = [wire EXCEPT ![s] = @ \o SubSeq(Handshake(s), 1, k)]
    /\ Close(s)
    /\ Announce(Connected \ {s}, "log", 0, {})
    /\ SyncTimer
    /\ UNCHANGED <<orphans, web, up, facts, authVars>>

\* The snapshot operation fails.
SnapshotFails(s) ==
    /\ AtRest
    /\ slot[s].phase = "handshaking"
    /\ Disturb(1)
    /\ Close(s)
    /\ Announce(Connected \ {s}, "log", 0, {})
    /\ SyncTimer
    /\ UNCHANGED <<wire, orphans, web, up, facts, authVars>>

\* The handshake deadline passes; the read itself goes on.
SnapshotTimesOut(s) ==
    /\ AtRest
    /\ slot[s].phase = "handshaking"
    /\ Close(s) /\ Orphan(s)
    /\ SyncTimer
    /\ UNCHANGED <<wire, seq, owed, web, countVars, authVars>>

\* A read whose client is gone comes to its end.
OrphanEnds ==
    /\ AtRest
    /\ orphans > 0
    /\ orphans' = orphans - 1
    /\ UNCHANGED <<slot, wire, seq, timer, owed, web, countVars, authVars>>

\* A durable mutation is committed and announced.
Publish ==
    /\ AtRest
    /\ up
    /\ facts < MaxFacts
    /\ facts' = facts + 1
    /\ Announce(Connected, "fact", facts + 1, {})
    /\ UNCHANGED <<slot, wire, orphans, timer, web, up, disturbances, authVars>>

\* revalidateWebSocketClients, on its timer.
Revalidate ==
    /\ AtRest
    /\ timer
    /\ LET out == {s \in Connected : ~Entitled(s)}
       IN /\ out # {}
          /\ slot' = [s \in Slots |->
                        IF s \in out
                        THEN [slot[s] EXCEPT !.phase = "closing",
                                             !.pending = <<>>, !.snap = NotRead]
                        ELSE slot[s]]
          /\ orphans' = orphans + Cardinality(out \cap Handshaking)
    /\ SyncTimer
    /\ UNCHANGED <<wire, seq, owed, web, countVars, authVars>>

\* The browser of the slot does not use it any more.
Left(s) == web[slot[s].who].slot # s

\* The slot is free again, and nothing is received from it any more.
Free(s) ==
    /\ slot' = [slot EXCEPT ![s] = FreeSlot]
    /\ wire' = [wire EXCEPT ![s] = <<>>]
    /\ Orphan(s)
    /\ SyncTimer
    /\ UNCHANGED <<seq, owed>>

\* Mutant of Freed: the close event of a dead socket is taken for a stale one.
FreedUntold(s) ==
    /\ Free(s)
    /\ web' = [web EXCEPT ![slot[s].who].slot = IF Left(s) THEN @ ELSE 0]

\* The transport of a slot has closed on both sides: the slot is free again,
\* and a browser that still used it tries to connect anew.
Freed(s) ==
    /\ Free(s)
    /\ web' = IF Left(s) THEN web
              ELSE [web EXCEPT ![slot[s].who] = Rescheduled(@)]

TransportClosed(s) ==
    /\ AtRest
    /\ slot[s].phase # "free"
    /\ slot[s].phase = "closing" \/ Left(s)
    /\ Freed(s)
    /\ UNCHANGED <<countVars, authVars>>

\* The network takes a connection away.
TransportLost(s) ==
    /\ AtRest
    /\ slot[s].phase \notin {"free", "closing"}
    /\ ~Left(s)
    /\ Disturb(1)
    /\ Freed(s)
    /\ UNCHANGED <<up, facts, authVars>>

\* The browser session of a socket runs out: its principal is no longer good.
SessionLapses(s) ==
    /\ slot[s].phase # "free"
    /\ slot[s].secret # "lapsed"
    /\ Disturb(1)
    /\ slot' = [slot EXCEPT ![s].secret = "lapsed"]
    /\ UNCHANGED <<wire, seq, orphans, timer, owed, web, up, facts, authVars>>

\* The daemon stops and starts again: numbers start over, the facts stay.
DaemonRestart ==
    /\ AtRest /\ up
    /\ Disturb(1)
    /\ slot' = [s \in Slots |-> FreeSlot]
    /\ wire' = [s \in Slots |-> <<>>]
    /\ seq' = 0
    /\ orphans' = 0
    /\ timer' = FALSE
    /\ web' = [w \in Viewers |-> IF web[w].state = "open"
                                 THEN Rescheduled(web[w]) ELSE web[w]]
    /\ UNCHANGED <<owed, up, facts, authVars>>

\* start: refused while nobody could authenticate.  Bound: the daemon is
\* followed from a registry that was provisioned once.
DaemonStart ==
    /\ ~up
    /\ row[Ops] = FirstRow
    /\ issued = {AuthorityOf(Ops, FirstRow)} /\ ended = {}
    /\ highWater[Ops] = FirstRow.epoch
    /\ up' = TRUE
    /\ UNCHANGED <<serverVars, web, facts, disturbances, authVars>>

\* Anything may write the registry before; afterwards the class does.
RegistryWrites ==
    /\ IF up THEN Disturb(1) /\ \E c \in Principals : RegistryStep(c)
       ELSE UNCHANGED disturbances /\ AuthorityNext
    /\ UNCHANGED <<serverVars, web, up, facts>>

SnapshotEnds(s) == SnapshotSent(s) \/ SnapshotTimesOut(s)

LiveNext ==
    \/ \E w \in Viewers : Connect(w) \/ ConnectFails(w) \/ Receive(w)
    \/ \E s \in Slots :
         \/ Upgrade(s) \/ SnapshotRead(s) \/ SnapshotSent(s)
         \/ HandshakeFails(s) \/ SnapshotFails(s) \/ SnapshotTimesOut(s)
         \/ TransportClosed(s) \/ TransportLost(s) \/ SessionLapses(s)
    \/ Deliver
    \/ OrphanEnds
    \/ Publish
    \/ Revalidate
    \/ DaemonStart
    \/ DaemonRestart
    \/ RegistryWrites

LiveFairness ==
    /\ \A w \in Viewers : WF_liveVars(Connect(w) \/ ConnectFails(w))
                          /\ WF_liveVars(Receive(w))
    /\ \A s \in Slots : /\ WF_liveVars(Upgrade(s))
                        /\ WF_liveVars(SnapshotEnds(s))
                        /\ WF_liveVars(TransportClosed(s))
    /\ WF_liveVars(Deliver)
    /\ WF_liveVars(Revalidate)

LiveSpec == LiveInit /\ [][LiveNext]_liveVars /\ LiveFairness

-----------------------------------------------------------------------------
(* Properties *)

\* What the browser shows is up to date.
Current(w) ==
    /\ web[w].slot # 0
    /\ web[w].cursor = seq
    /\ web[w].view = facts

\* A connected browser that has received everything sent and owed to it shows
\* every committed fact, and its cursor is the server's: no fact falls between
\* the snapshot and the events kept meanwhile, a number that a log line took
\* ahead of its event is never skipped, and nothing of an earlier connection
\* is left over (daemon-projection.ts:128-261, daemon-event-stream.ts:62-109).
CaughtUpIsCurrent ==
    \A w \in Viewers :
      LET s == web[w].slot
      IN /\ s # 0 /\ slot[s].phase = "ready" /\ wire[s] = <<>>
         /\ \A d \in owed : d.to # s
         => Current(w)

\* Nothing is sent to a client whose credential was revoked, rotated or
\* narrowed, or ran out, while it was connected: not an event, and not the
\* snapshot that was being read at that moment (daemon-projection.ts:330-355,
\* server.ts:788-828).
NothingToRevoked ==
    [][\A s \in Slots : Len(wire'[s]) > Len(wire[s]) => Entitled(s)]_liveVars

\* Whatever is lost, closed or overtaken, a browser of a running daemon comes
\* to show the current facts again, again and again, or has used up its
\* attempts (daemon-websocket-connection.ts:115-199).
EveryViewSettles ==
    \A w \in Viewers : []<>(~up \/ Current(w) \/ web[w].state = "gave_up")

=============================================================================
