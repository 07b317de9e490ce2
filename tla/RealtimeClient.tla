---------------------------- MODULE RealtimeClient ----------------------------
(***************************************************************************)
(* One browser at a table: the realtime connection                         *)
(* (apps/web/src/realtime-connection.ts), the sequence check               *)
(* (realtime-sequence.ts), the debounced reconciliation                    *)
(* (realtime-refresh.ts) and the code of App.tsx that applies events and   *)
(* loads snapshots, against the event sequence of one campaign on the      *)
(* server (sequenceAuthoritativeEvent and the hub, apps/api).              *)
(*                                                                         *)
(* An event is its sequence number.  A view is the set of the events it    *)
(* reflects; a snapshot reflects all events up to the one it was read at.  *)
(***************************************************************************)
EXTENDS Naturals, Sequences, FiniteSets, SequencesExt

CONSTANTS
  MaxEvents,   \* bound on the campaign's events
  MaxDrops,    \* bound on sockets that close or fail
  MaxErrors    \* bound on snapshot requests that fail

ASSUME RealtimeAssumption == {MaxEvents, MaxDrops, MaxErrors} \subseteq Nat

\* What realtimeApplyRef does with an event: apply it and discard the load in
\* flight (actor, token, scene, item, combat, encounter), only apply it (chat,
\* dice, journal), ask for a snapshot (anything unknown or redacted), or
\* discard the load and ask for a snapshot (token.deleted, scene.activated).
\* filterRealtimeEvent keeps a hidden event from this user.
Kinds == {"fast", "plain", "snapshot", "cascade", "hidden"}
Applied == {"fast", "plain"}
Invalidating == {"fast", "cascade"}
Reconciled == {"snapshot", "cascade"}

VARIABLES
  log,        \* the kinds of the campaign's events, by sequence number
  conn,       \* waiting (for the reconnect timer), connecting or open
  accepted,   \* the hub has this socket among its clients
  acceptedAt, \* the last event when it was added
  wire,       \* events under way on the current socket
  tried,      \* socketAttempt > 0
  resumed,    \* the current socket is a reconnect
  client,     \* the browser's state, see Client
  drops, errors

vars == <<log, conn, accepted, acceptedAt, wire, tried, resumed, client, drops, errors>>
socket == <<conn, accepted, acceptedAt, wire, tried, resumed>>

Newest == Len(log)
\* A snapshot request, not yet read or read at an event.  "live": it is the
\* latest load, which alone may apply (seq = refreshSeqRef.current); "resync":
\* reconcileReconnect awaits it.  A load that is neither has no effect.
Loads == [read : BOOLEAN, at : 0..MaxEvents, live : BOOLEAN, resync : BOOLEAN]
\* The browser's state.
Client ==
  [view : SUBSET (1..Newest),    \* snapshotRef, as the events it reflects
   cursor : 0..Newest,           \* realtimeSequenceRef
   loads : SUBSET Loads,
   timer : BOOLEAN,              \* a debounced snapshot is due
   retry : BOOLEAN,              \* resyncRetryTimer
   resyncing : BOOLEAN,
   queued : Seq(1..Newest),      \* queuedMessages
   own : SUBSET (1..Newest),     \* mutations whose response was applied here
   forgone : SUBSET (1..Newest)] \* given up: what a discarded or failed load would
                                 \* have brought, or a snapshot took back
TypeOK ==
  /\ log \in Seq(Kinds) /\ Newest <= MaxEvents
  /\ conn \in {"waiting", "connecting", "open"} /\ accepted \in BOOLEAN
  /\ acceptedAt \in 0..Newest /\ wire \in Seq(1..Newest) /\ tried \in BOOLEAN /\ resumed \in BOOLEAN
  /\ client \in Client
  /\ Cardinality({l \in client.loads : l.live}) <= 1
  /\ Cardinality({l \in client.loads : l.resync}) <= 1
  /\ drops \in 0..MaxDrops /\ errors \in 0..MaxErrors

Init ==
  /\ log = <<>> /\ conn = "waiting" /\ accepted = FALSE /\ acceptedAt = 0 /\ wire = <<>>
  /\ tried = FALSE /\ resumed = FALSE /\ drops = 0 /\ errors = 0
  /\ client = [view |-> {}, cursor |-> 0, loads |-> {}, timer |-> FALSE, retry |-> FALSE,
               resyncing |-> FALSE, queued |-> <<>>, own |-> {}, forgone |-> {}]
-------------------------------------------------------------------------------
(***************************************************************************)
(* Loading snapshots (App.tsx).  Each operator is what one call makes of   *)
(* the browser's state.                                                    *)
(***************************************************************************)
InFlight(c) == \E l \in c.loads : l.live
Missing(c) == (1..Newest) \ c.view

\* A slip: the load in flight may still apply.
LetItApply(c) == c
\* invalidateInFlightRefreshes: whatever is in flight is not to be applied.
Invalidate(c) ==
  [c EXCEPT !.loads = {[l EXCEPT !.live = FALSE] : l \in {k \in c.loads : k.resync}},
            !.forgone = IF InFlight(c) THEN @ \cup Missing(c) ELSE @]
\* refresh: the latest load supersedes those before it.
StartLoad(c, resync) ==
  [c EXCEPT !.loads = {[l EXCEPT !.live = FALSE] : l \in {k \in c.loads : k.resync /\ ~resync}}
                        \cup {[read |-> FALSE, at |-> 0, live |-> TRUE, resync |-> resync]}]
\* The result of the latest load replaces the view and the cursor, and what was
\* applied since it was read is gone again.
Replace(c, l) ==
  IF l.live
  THEN [c EXCEPT !.view = 1..l.at, !.cursor = l.at, !.forgone = (@ \cup c.view) \ (1..l.at)]
  ELSE c
Ended(c, l) == [c EXCEPT !.loads = @ \ {l}]

\* onOpen(true): the debounced request is dropped, its load starts now.
ReconnectRefresh(c) == StartLoad([c EXCEPT !.timer = FALSE], TRUE)
\* A new generation: nobody awaits the resync in flight any more.
NewGeneration(c) ==
  [c EXCEPT !.loads = {[l EXCEPT !.resync = FALSE] : l \in {k \in c.loads : k.live}},
            !.retry = FALSE, !.queued = <<>>]
StartAuthoritativeResync(c) == ReconnectRefresh([NewGeneration(c) EXCEPT !.resyncing = TRUE])
-------------------------------------------------------------------------------
(***************************************************************************)
(* Events (realtime-sequence.ts, dispatchDomainMessage).                   *)
(***************************************************************************)

\* realtimeApplyRef and scheduleReconcile
Apply(c, e) ==
  LET d == IF log[e] \in Invalidating THEN Invalidate(c) ELSE c
  IN [d EXCEPT !.view = IF log[e] \in Applied THEN @ \cup {e} ELSE @,
               !.timer = @ \/ log[e] \in Reconciled]

\* A slip: an event is taken although others are missing before it.
TakeInOrder(c, e) == e > c.cursor
Contiguous(c, e) == e = c.cursor + 1

\* dispatchDomainMessage: a duplicate is dropped, the next event is applied, a
\* gap asks for a snapshot.
DispatchDomainMessage(c, e, recoverGap) ==
  IF Contiguous(c, e) THEN Apply([c EXCEPT !.cursor = e], e)
  ELSE IF e > c.cursor /\ recoverGap THEN StartAuthoritativeResync(c)
  ELSE c

\* What came in during a resync is dispatched in turn, its gaps left alone.
Drained(c) ==
  LET after[i \in 0..Len(c.queued)] ==
        IF i = 0 THEN c ELSE DispatchDomainMessage(after[i - 1], c.queued[i], FALSE)
  IN [after[Len(c.queued)] EXCEPT !.queued = <<>>]

\* A slip: what came in meanwhile is applied and the resync is over.
DrainAndEnd(c) == [Drained(c) EXCEPT !.resyncing = FALSE]
\* reconcileReconnect after its load: with messages queued, apply them and load
\* once more; without, the table is synced.
Reconcile(c) ==
  IF c.queued = <<>> THEN [c EXCEPT !.resyncing = FALSE]
  ELSE ReconnectRefresh(Drained(c))
-------------------------------------------------------------------------------
(***************************************************************************)
(* The server.                                                             *)
(***************************************************************************)

\* Somebody changes the campaign; the hub sends the event to the clients that may
\* see it, and every event takes a number.
Publish(kind) ==
  /\ Newest < MaxEvents /\ log' = Append(log, kind)
  /\ wire' = IF accepted /\ kind # "hidden" THEN Append(wire, Newest + 1) ELSE wire
  /\ UNCHANGED <<conn, accepted, acceptedAt, tried, resumed, client, drops, errors>>
Accept ==
  /\ conn = "connecting" /\ ~accepted /\ accepted' = TRUE /\ acceptedAt' = Newest
  /\ UNCHANGED <<log, conn, wire, tried, resumed, client, drops, errors>>
\* The snapshot route reads the campaign at one moment.
ServeSnapshot(l) ==
  /\ l \in client.loads /\ ~l.read
  /\ client' = [client EXCEPT !.loads = (@ \ {l}) \cup {[l EXCEPT !.read = TRUE, !.at = Newest]}]
  /\ UNCHANGED <<log, socket, drops, errors>>
-------------------------------------------------------------------------------
(***************************************************************************)
(* The browser.                                                            *)
(***************************************************************************)
Connect ==
  /\ conn = "waiting" /\ conn' = "connecting" /\ accepted' = FALSE /\ wire' = <<>>
  /\ tried' = TRUE /\ resumed' = tried
  /\ UNCHANGED <<log, acceptedAt, client, drops, errors>>
\* onOpen: the first socket is trusted, a reconnect loads a snapshot.
Open ==
  /\ conn = "connecting" /\ accepted /\ conn' = "open"
  /\ client' = IF resumed THEN StartAuthoritativeResync(client)
               ELSE [NewGeneration(client) EXCEPT !.resyncing = FALSE, !.timer = FALSE]
  /\ UNCHANGED <<log, accepted, acceptedAt, wire, tried, resumed, drops, errors>>
\* onUnavailable: the socket failed or closed; its late messages are ignored.
Drop ==
  /\ conn # "waiting" /\ drops < MaxDrops /\ drops' = drops + 1
  /\ conn' = "waiting" /\ accepted' = FALSE /\ wire' = <<>>
  /\ client' = [NewGeneration(client) EXCEPT !.resyncing = FALSE]
  /\ UNCHANGED <<log, acceptedAt, tried, resumed, errors>>
\* onMessage
Receive ==
  /\ conn = "open" /\ wire # <<>> /\ wire' = Tail(wire)
  /\ client' = IF client.resyncing THEN [client EXCEPT !.queued = Append(@, Head(wire))]
               ELSE DispatchDomainMessage(client, Head(wire), TRUE)
  /\ UNCHANGED <<log, conn, accepted, acceptedAt, tried, resumed, drops, errors>>
\* The debounce of scheduleReconcile ends.
TimerFires ==
  /\ client.timer /\ client' = StartLoad([client EXCEPT !.timer = FALSE], FALSE)
  /\ UNCHANGED <<log, socket, drops, errors>>
RetryFires ==
  /\ client.retry /\ client' = ReconnectRefresh([client EXCEPT !.retry = FALSE])
  /\ UNCHANGED <<log, socket, drops, errors>>
\* The response of a mutation made here is applied at once (apply*ToSnapshot).
ApplyResponse(e) ==
  /\ log[e] = "fast" /\ e \notin client.own
  /\ client' = [Invalidate(client) EXCEPT !.view = @ \cup {e}, !.own = @ \cup {e}]
  /\ UNCHANGED <<log, socket, drops, errors>>
\* A load returns.
LoadReturns(l) ==
  /\ l \in client.loads /\ l.read
  /\ client' = LET c == Replace(Ended(client, l), l) IN IF l.resync THEN Reconcile(c) ELSE c
  /\ UNCHANGED <<log, socket, drops, errors>>
\* A slip: a resync that fails is not tried again.
GivesUp(c, l) ==
  IF l.resync /\ ~l.live THEN Reconcile(c)
  ELSE [c EXCEPT !.forgone = IF l.live THEN @ \cup Missing(c) ELSE @]
\* A resync is tried again later; a reconciliation is given up with "Realtime
\* refresh failed"; a superseded load ends like one that returns.
Failed(c, l) ==
  IF l.resync /\ ~l.live THEN Reconcile(c)
  ELSE [c EXCEPT !.retry = @ \/ l.resync,
                 !.forgone = IF l.live /\ ~l.resync THEN @ \cup Missing(c) ELSE @]
LoadFails(l) ==
  /\ l \in client.loads /\ errors < MaxErrors /\ errors' = errors + 1
  /\ client' = Failed(Ended(client, l), l)
  /\ UNCHANGED <<log, socket, drops>>

Progress ==
  Connect \/ Accept \/ Open \/ Receive \/ TimerFires \/ RetryFires
    \/ \E l \in client.loads : ServeSnapshot(l) \/ LoadReturns(l)
Next ==
  \/ Progress \/ Drop \/ \E kind \in Kinds : Publish(kind)
  \/ (\E e \in 1..Newest : ApplyResponse(e))
  \/ (\E l \in client.loads : LoadFails(l))

Spec == Init /\ [][Next]_vars
\* Timers fire, requests are answered, the server accepts and delivers.
FairSpec == Spec /\ WF_vars(Progress)
-------------------------------------------------------------------------------
\* Something is under way that will bring the view up to date.
Pending(c) == c.timer \/ c.retry \/ c.resyncing \/ InFlight(c)
Visible == {e \in 1..Newest : log[e] # "hidden"}
\* The events this user may see that came in, or precede the socket.
Received == Visible \ ToSet(wire)

\* The client's books are well formed, and no event up to the cursor is missing
\* from the view unless a snapshot is due or the browser must reconnect, or the
\* code gave the event up: duplicates are dropped by the cursor, so an event
\* skipped here would never be looked at again (realtime-sequence.ts,
\* realtimeSequenceRef).
CursorIsHonest ==
  /\ TypeOK
  /\ \/ Visible \cap (1..client.cursor) \subseteq client.view \cup client.forgone
     \/ Pending(client) \/ conn # "open"

\* A browser that reports the table as synced after a reconnect and waits for
\* nothing has every event that came in, save those the code gave up
\* (reconcileReconnect loads once more after applying what was queued).
SyncedIsFresh ==
  conn = "open" /\ resumed /\ ~Pending(client) => Received \subseteq client.view \cup client.forgone

\* What overview.md says of a reconnect: it "always performs a fresh
\* permission-filtered snapshot before the UI reports the table ready"; so the
\* events before it are in the view when the resync is over.  The response of a
\* mutation discards the snapshot in flight, the resync ends without it, and the
\* table stays stale until another event shows the gap.
ReadyHasFreshSnapshot ==
  conn = "open" /\ resumed /\ wire = <<>> /\ ~Pending(client) => Visible \cap (1..acceptedAt) \subseteq client.view

\* An action of this browser, or another's that was applied at once, never
\* reverts: a snapshot read before it is not applied after it
\* (invalidateInFlightRefreshes).
AppliedNeverReverts ==
  [][\A e \in 1..Newest : log[e] = "fast" /\ e \in client.view => e \in client'.view]_vars

\* Whatever drops and errors come, the browser is connected again in the end and
\* no resync, retry or snapshot hangs.
SyncEnds == <>[](conn = "open" /\ ~Pending(client) /\ client.queued = <<>>)
===============================================================================
