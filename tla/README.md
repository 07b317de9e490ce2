# Open Tabletop Engine: a TLA+ verification project

This directory models the parts of Open Tabletop Engine whose correctness
depends on order: what runs at the same time, what fails half-way, what is sent
twice, and what survives a restart. TLC checks the models on small instances
and TLAPS proves the main safety properties of the core for every instance.
File and line references are to the repository.

## 1. The system and its parts

A campaign lives in one `EngineState` (`packages/core/src/types.ts`) in the
memory of one API process. Everything else talks to that process:

| Part | State it keeps | Operations | Talks to |
|---|---|---|---|
| Durable mutation pipeline (`app.ts` 885-925, 1450-1541, 19794-20320; `store.ts`) | `EngineState` in memory, its last durable copy, the mutation gate and its queue, keyed flights, replay records, event sequences | the hooks of every mutating request: `onRequest`, `preHandler`, handler, `onSend`, `onError`, `onRequestAbort`; the writer's timer; reload | every route, the store, realtime, webhooks |
| Job ledger (`admin-job-operations.ts`, `worker-identity.ts`, routes in `app.ts` 2310-2616, 22930-22965) | `jobs` with status, attempts, lease holder, revision and expiry | create, lease, heartbeat, dispatch, settle, retry, cancel | workers over HTTP; admins |
| Worker (`apps/worker/src/index.ts`) | the job it holds, its lease request id | poll, heartbeat, dispatch, settle, abandon | the ledger |
| SQLite store and restore (`sqlite-store.ts`) | database files, restore intent journal | save, back up, restore, recover on start | pipeline, operators |
| Webhooks (`campaign-webhooks.ts`, `campaign-webhook-ledger.ts`, `campaign-webhook-routes.ts`, `app.ts` 1196-1274) | subscriptions, delivery ledger, pending count, chain of dispatches | prepare, dispatch, retry, edit, disable, recover at startup | pipeline, third parties |
| Realtime (`realtime.ts`; `apps/web/src/realtime-sequence.ts`, `App.tsx` 2010-2136) | sockets; the client's last sequence, snapshot, loads in flight, timers | broadcast, gap detection, resynchronise, reconcile | pipeline, browsers |
| Archive import (`archive-operations.ts`, `archive-asset-restore.ts`, `campaign-archive-import-recovery.ts`) | recovery operations, asset objects, inverse objects | import, compensate, roll back | pipeline, asset storage |
| Asset storage (`asset-operations.ts`) | stored objects | migrate, clean up | jobs |
| Email outbox (`email-outbox.ts`) | messages, receipts | deliver, retry, retry all | operators |
| Password authentication (`auth-security.ts`, `admin-identity-operations.ts`, routes in `app.ts` 1690-3500, 22200-22270) | verifier slots and queue; accounts, sessions, reset tokens, invites; throttle buckets | verify, admit, time out; log in, accept, change, reset, upgrade, revoke, disable | pipeline, administrators |
| Relay and tunnel (`apps/relay`, `apps/desktop/src/tunnel-client.ts`) | host sockets, pending requests, byte budgets | register, bridge, replace, close | players, desktop host |
| Proposals (`packages/core/src/proposals.ts`) | proposals and their revisions | approve, apply, reject | pipeline, AI |
| System rules (`packages/system-sdk`) | none: functions of actors and effects | action economy, effects, spells | handlers |
| Dice, permissions, vision, plugins, codex provider, asset edge, web interface | see `PROJECT.json` | | |

What is hard about it: requests interleave at every `await`; a phased request
leaves the gate while an AI provider works; a client disconnects while its
handler still runs; a write of the state fails; the process or a worker is
killed; an HTTP call or its answer is lost and sent again, or arrives when
nobody waits for it; a lease expires while its holder still works. The
"hazards" of `PROJECT.json` list these at their lines, with the property that
covers each or the module that will.

What makes each part correct:

- **Pipeline**: a 2xx is durable; a failure leaves nothing; a retry is carried
  out once and told the truth; the gate is exclusive and never blocks for ever;
  events are broadcast in order and, with webhooks, after they are durable.
- **Jobs**: one lease acts at a time; success means the work was done under the
  lease that reports it; work takes effect once; every job ends.
- **Restore**: after any crash the database is the original with every
  acknowledged write, or the whole restore.
- **Webhooks**: the pending count returns to zero; a delivery is recorded for
  the subscription it was sent to.
- **Realtime client**: what it shows is the snapshot plus all later events.
- **Import**: state and objects come and go together; a rollback brings back
  what was there, and nothing that was changed since.
- **Passwords**: a slot is used by one hash and handed on; a session was opened
  with the password the account has now; tokens are used once.
- **Outbox**: a delivery keeps its id over retries.
- **Relay**: frames of a replaced host reach nobody; budgets are returned.
- **Proposals**: applied once, at the revision they were made for.

## 2. Modules

| Module | Role |
|---|---|
| `MutationPipeline` | the hooks around a mutating request, the gate, flights, the coalesced writer |
| `AtomicMutations` | abstract: one durable step per mutation, truthful answers |
| `MCMutationPipeline` | keys and bodies of the TLC instances |
| `MutationPipelineProofs` | theorems about `MutationPipeline`: types, the gate, acknowledged answers; replays, retries and events; failures, and the refinement of `AtomicMutations` |
| `JobLease` | the ledger's routes, the network and the workers |
| `MCJobLease` | symmetry and names of the TLC instances |
| `JobLeaseProofs` | theorems about `JobLease` |
| `RestoreIntent` | the destructive restore, its journal, its rollback and the recovery at startup |
| `AtomicRestore` | abstract: the served database changes by a write or by one whole restore |
| `RestoreIntentProofs` | theorems about `RestoreIntent`, the refinement among them |
| `WebhookDispatch` | deliveries from the broadcast to their outcome in the ledger |
| `WebhookDispatchProofs` | theorems about `WebhookDispatch` |
| `RealtimeClient` | a browser at a table: its socket, event sequence and snapshots |
| `RealtimeClientProofs` | theorems about `RealtimeClient` |
| `RelayTunnel` | one shared table: relay, host sockets, desktop, clients and players |
| `RelayTunnelProofs` | theorems about `RelayTunnel` |
| `PasswordAuth` | the password work pool, the routes that wait for it, the sessions |
| `PasswordAuthProofs` | theorems about `PasswordAuth` |
| `ArchiveImport` | an archive's import, its compensation and its later rollback |
| `MCArchiveImport` | which record names which in the TLC instances |
| `ArchiveImportProofs` | theorems about `ArchiveImport` |

The modules stand on each other without composing state: what
`MutationPipeline` shows of a gated request (it is one durable step or leaves
nothing) is what `JobLease`, `WebhookDispatch`, `PasswordAuth` and
`ArchiveImport` take for granted when they make a phase inside the gate one
action, and each lets such a phase's flush fail.

### 2.1 MutationPipeline

One action is the code a request runs between two points where the event loop
may run something else. `pc[r]` names where a request is; `Step(r)` follows the
hooks in their order of registration in `app.ts` (1518-1541):

1. `Send`, `EnterGate` (onRequest): a gated request queues for
   `DurableMutationCoordinator`; a phased one does not.
2. `Lookup`, `Resume` (preHandler of `registerIdempotencyReplay`): replay,
   conflict, follow another request's flight, or lead a new one.
3. `HandlerWrite`, `HandlerFinish`, `HandlerRefuse`, `HandlerThrow`,
   `HandlerCancel`: a handler makes two changes with a wait between them.
   `RequestPhase`, `RunPhase`: a phased handler makes each in an exclusive
   section of its own and persists it there.
4. `EnterSend`, `RecordReply`, `SequenceEvent`, `Finalize` (onSend): a phased
   response takes the gate; the reply is recorded with the mutation; its event
   is numbered and broadcast; the state is flushed, or an aborted request is
   rolled back by reloading the durable state; a gated request gives the gate
   back, a phased one in a later hook (`OnResponse`).
5. `OnError`, `ErrorSend`: settle the flight, roll back, release; the error
   reply passes the onSend hooks again, a gated one without the gate, a phased
   one takes it.
6. `Abort`, `DeferredFlush`, `ReadResponse`, `Crash`: what happens around them.

`mem` and `disk` hold what the pipeline reads and writes of `EngineState`: which
changes are in it (`effects`), the campaign's `eventSequence`, and the replay
records. `Quiet` says that the hooks of one request run as one chain of promise
continuations, which timers, sockets and other handlers do not interrupt; the
gate and flights do hand over inside such a chain.

### 2.2 AtomicMutations

What clients see: a set of durable mutations that only grows, and for each
request one answer. An "ok" means durable, a "replay" means that its earlier
copy is, a failure of an un-keyed request means it is not, and a retry of a
recorded request is never carried out. `MutationPipeline!Atomic` maps the
pipeline to it: a mutation counts as committed when both its changes are on
disk, an answer exists when the reply has left.

### 2.3 JobLease

Each route of the ledger is one durable step, which is what the pipeline
provides. `InTransit` are the calls on their way: one a worker waits for, or a
stray nobody does. A worker goes lease, start (the first heartbeat), dispatch,
succeed or fail; `AfterSuccess` and `AfterError` are `runLeasedWorkerJob`'s
paths. `Fault` bounds lost calls and killed workers together. `TimeOut` covers a
lost call, a lost answer and the worker's own interruption; `LetGo` lets the call
still arrive later. `order` says which job stands before which in the ledger:
`IsOldest` is the queued job a lease takes, `ToBack` what a retry does to it. A dispatch carries an
idempotency key made of the job and its route, so `Replayable` answers a
worker's later dispatch from an earlier one. A dispatch is claimed first (`Dispatch`) and
takes effect later (`FinishDispatch`), when its lease may be over. One inside the
gate holds the gate between the two, so that nobody else's call is served while
time goes on and the worker's heartbeats wait (`GateHeld`); one of a phased type
(`PhasedTypes`) does not. Admins start, end, extend, retry and cancel jobs;
their `expectedUpdatedAt` makes stale calls change nothing, so an admin's call
is one step. Numbers of lease requests that got no job are used again, which
keeps the state finite.

### 2.4 RestoreIntent

`dir` is the storage directory as processes see it: the database, the staged
copy, the rollback file, the journal and SQLite's own journal (`hot`). `lag` is
the set of directories a power loss may leave: a step that only renames or
removes (`Cached`) adds to it, an fsync (`Flushed`) makes it the present one.
`pc` names the next file operation and `on` the routine it belongs to, because
the code shares `restoreOriginalDatabase` and `cleanupRestoreArtifacts` between
the rollback and the recovery; `Serve(a)` is the point where the routine answers
and the server goes on. `Leaves` is what a step that is cut short may leave: a
part of a copy, a part of a journal line, a rename without its flush. An error
in a live process takes the code's catch blocks (`StagingFails`, `SwapFails`,
`RollbackFails`, `CommitCleanupFails`); one at startup ends the process, as
`Kill` does. The reconciliation's transaction has its own two steps. A database
is a value: which restore made it and how many writes were acknowledged since.
`used` counts what the bounds limit, and `used.struck` remembers the faults that
the code does not survive (`RareFaults`, findings 4 and 5 below).

Recovery is read off `Resolution`. `seen` is the database last served, which
`AtomicRestore` is about: it is instantiated with `db <- seen, void <- Struck`; an
open attempt (`answer = "none"`) may settle either way, and the answers must be
true. One of the `RareFaults` makes the promise void, for good.

### 2.5 WebhookDispatch

`Publish` is the onSend path of a broadcast: `Recipients` picks the enabled
subscriptions by id, as many as there is room for, `Prepared` reserves their
places and creates deliveries, the flush makes them durable, the dispatch is
chained.
`PublishFails` is that flush failing: a gated request takes its deliveries back,
an ungated one leaves them queued with no dispatch (`stranded`). Tests and
retries are `Stage` then `CommitManual`, because their delivery is created in the
handler and scheduled in a later hook (`staged` holds it, a sequence of one). The dispatcher's loop is `Check` (inside
the gate), `Transmit` or `Unreachable` (outside), `Complete` (inside), `Finish`
(the finally clause) and `GiveUp` (the catch clause, which is `AllFailed`; each
outcome is `Settled`). `Edit` is every change of a
subscription, which gives it a new revision. `Restart` is
`recoverInterruptedCampaignWebhookDeliveries`. `saved` is what a failing gated
request and a restart return to. `Retained` is the ledger's pruning, which keeps
chains of retries together.

### 2.6 RealtimeClient

An event is its number in the campaign's sequence, a view the set of events it
reflects. `client` is what App.tsx keeps in refs: view, cursor, loads in flight,
the debounce and retry timers, `resyncing` and the messages queued meanwhile.
`Kinds` are the five ways the browser treats an event. A snapshot request is
sent, read by the server (`ServeSnapshot`) and applied (`LoadReturns`) in
separate steps, so that events overtake it. `forgone` collects the events the
code knowingly gives up: what a discarded or failed load would have brought,
and plain events (chat, dice, journal) that an older snapshot takes back.
`Drained` is the handling of the queued messages, in order, at the resync's end.

### 2.7 RelayTunnel

`relay` is a `TableTunnel`, `desktop` the sessions of the desktop's tunnel
client, `down` and `up` the frames between them. Bodies are counted in units.
`AcceptHost` stops at the code's await, `Listen` goes on after it; a socket that
breaks in between is never noticed (`BreaksUnheard`), which is what the code
does. `LoseHost` is shared by every way a host is lost, `CloseHost` its use of the
present host alone, `Answered` is a request handler's finally block, `Settled`
the release of what its answer had buffered, `AbortAll` the desktop's end of its
local requests. A send may throw, and then closes the host (`SendThrows`); of a
request's frames those before the one that throws are on their way by then
(`PartlySent`). The
relay's counters are numbers, and what they should be is counted as a set: a
function's `Total` is the size of the set of its `Units`.

### 2.8 PasswordAuth

A request reads the account, enters the pool (`BoundedPasswordVerifier.enqueue`,
`run`, `drain` and its timer), and decides in a short phase inside the gate, where
a failing flush takes everything back. The four routes differ in what they hold
while they wait (`job`) and in what their phase checks again (`Decide`). Cookie
upgrades and their confirmation, logout, expiry, reset tokens, and the
administrators' disable, enable and require-reset are steps around them.
`proof`, `via` and `family` of a session are kept for the properties alone.

### 2.9 ArchiveImport

One operation is followed from its import through any number of attempts to
roll it back; `request` and `pc` say which route holds the gate and where it is,
`client` whether its client is there: a disconnect (`Disconnect`) reaches the
import's `AbortController`, or comes before there is one and is found by the last
hook, after the state was written (`ReplyToNobody`). The state (`mem`, `disk`) is written at once, objects one by one, and either
kind of step may fail. An import keeps inverse objects (`KeepPrevious`), reads
every destination (`BeginRestore`), writes the objects (`PutFile`), then merges
the records. A rollback computes `Plan` from the present records, bytes and
references, writes the objects back, replaces the records and deletes the
inverse objects. Since both routes carry an idempotency key, `store.replace()`
is written at the reply, unless another request's save is waiting (`Replace`,
`AuditedRead`): a `store.flush()` takes it along. `Compensate` is both
compensations, `torn` the assets whose two halves a kill or a failed compensation
left apart, or an import's reply that took the objects back and left the state;
`Mended` are those that a later rollback puts right. `lost` are the assets whose
bytes from before the import are given up while the operation that leads back to
them stays: by such a reply, and by a rollback that fails or is killed between the
deletion of its inverse objects and its state's write. Both are kept for the
properties alone. Records are
versions (old, imported, edited since, replaced by a later import), bytes
likewise: what the rollback's comparisons tell apart.

## 3. Runs

| Run | Instance | Shows |
|---|---|---|
| `pipeline_gated` | two copies of a keyed request, one without a key; disconnects, 2 failing writes, 2 restarts | `TypeOK`, `GateHeld`, `AcknowledgedIsDurable`, `KeyedAtMostOnce`, `FailureLeavesNoTrace`, and the refinement `ImplementsAtomicMutations` |
| `pipeline_phased` | two phased retries and a gated import that reuses their key, one answer not recorded, a webhook subscription, GETs that save; disconnects, a failing write, a restart; fairness | `ReplayIsDurable`, `HolderNeverJoins`, `PublishedIsDurable` (with `SequenceNeverReused`), and the liveness property `EveryRequestEnds` |
| `jobs_fencing` | one job of either type, two workers, two attempts; one fault (a lost call or a killed worker), two admin actions | `SucceededMeansDispatched` (with the types), `OneEffectPerWorker`, `DispatchUnderLease` |
| `jobs_ends` | two phased jobs, one worker, two attempts, one fault, one evicted record; fairness | `RepeatedLeaseClaimsOnce`, and the liveness property `EveryJobEnds` |
| `restore_atomic` | two restores, two writes, two operations that throw, two kills or power losses, at any step; what follows one of the `RareFaults` is exempt | `EveryCrashHasAWayBack` (with the types and `RefusalKeepsTheDatabase`), and the refinement `ImplementsAtomicRestore` |
| `webhooks` | two subscriptions, one event, room for two deliveries, retention of one per subscription; three tests, retries, edits, failing flushes or kills; fairness | `PendingIsReserved`, `LedgerMeetsQueue`, `AtMostOneStaleSend`, `DurableOutcomeIsFinal`, and the liveness property `EverythingSettles` |
| `realtime` | three events of any kind, two dropped sockets, two failed snapshots; fairness | `CursorIsHonest`, `SyncedIsFresh`, `AppliedNeverReverts`, and the liveness property `SyncEnds` |
| `tunnel` | any two of two uploads and a player, two host sockets, one fault (a send that throws, a lost socket); fairness | `BudgetsAreExact`, `SidesAgree`, `AnswersAreWhole`, and the liveness property `TunnelDrains` |
| `password` | three requests of any kind, one slot and one place to wait, two cookies, a reset token and an invite, two administrators' steps; fairness | `PoolInv`, `SessionsShowThePassword`, `DisabledMeansSignedOut`, `UsedOnce`, `UpgradeTakesThePlace`, and the liveness property `EveryRequestAnswered` |
| `archive` | a scene that shows a map, and a portrait, each absent or present before; two failures, disconnects or kills, two changes by users; fairness | `ObjectsMatchRecords`, `NothingNamedIsMissing`, `LaterWorkStays`, and the liveness property `RollbackCompletes` |
| `finding_import`, `finding_rollback` | see section 5 | one property each, violated |

Why the bounds are enough. Two requests contend for the gate, a third stands
behind or reuses a key; a follower needs one leader and one more copy to take
over. A handler's two changes give one point where half of it exists. One
failing write puts a request on its error path, a second one meets the recovery
of the first; a restart after a restart meets every state the first one leaves.
Fencing needs two holders and two leases of one job: two attempts give a lease
that was superseded and the one that superseded it, also of the same worker. A
repeated lease request goes wrong only if a second job is there to be taken.
A second restore meets whatever a first one left; a second crash strikes the
recovery from the first, a second error the rollback from the first; a write
before and one between them is lost if the wrong file is kept.
Two subscriptions make a dispatch with a delivery behind another, so that an edit
or a rollback meets one on the wire and one that waits; three turns give an edit,
a failure and a restart in any order, and retention of one prunes at the second.
Three events make a gap with an event on each side; a second drop falls into the
resync of the first. Two requests meet at the tunnel's limits and the second host
socket is the one that replaces the first. With one slot and one place, three
requests meet the slot, the queue and the refusal; two cookies are siblings.
A map that a scene names, and a portrait that nothing names, give every kind of
conflict of a rollback next to a step without one; the second failure strikes the
compensation of the first or the repeated rollback.

The pipeline, the webhooks, the browser, the tunnel and the password routes may
stop (all requests are done, no event comes any more), so their runs do not check
deadlock; the workers poll for ever, a stopped server may start and users may
always ask for a rollback, so the other runs do.

Bounds are constants: `MaxCrashes`, `MaxFailures` (pipeline), `MaxAttempts`
(the code's `maxAttempts`), `MaxFaults`, `MaxForgets`, `MaxAdmin`
(jobs), `MaxRestores`, `MaxWrites`, `MaxErrors`, `MaxCrashes` (restore),
`MaxEvents`, `MaxTurns` (webhooks), `MaxEvents`, `MaxDrops`, `MaxErrors`
(realtime), `MaxAnswer`, `MaxClients`, `MaxFaults` (tunnel), `MaxAdmin`
(passwords), `MaxFaults`, `MaxEdits` (archive). `MaxPending`, `PerWebhook`,
`PerCampaign`, `MaxRequests`, `MaxPlayers`, `MaxUploadBytes`, `MaxAnswerBytes`,
`MaxConcurrent`, `MaxQueue` and `MaxSiblings` are limits of the code itself, with
small values. Workers are symmetric in `jobs_fencing`.

Operators whose comment begins "A slip:" are not used by any specification.
Each is what a plausible mistake in the code would make of the definition that
follows it; `PROJECT.json` "mutants" pairs each with the property that notices.

### Fairness

- Pipeline: weak fairness of each request's `Step`. The event loop runs every
  continuation that is ready; `acquire` hands the gate over in order; the model
  assumes that handlers end, which those of the code do under their time limits.
  Clients, disconnections, timers and crashes are not assumed to happen.
  `OnResponse` is among the steps: that Fastify runs this hook for every response,
  also when its client has gone, is an assumption about Fastify.
- Jobs: workers keep polling (`runLeasedWorkerLoop` has no other exit than a
  shutdown), answers are read, sent calls are served, dispatches end (the time
  limits of providers and handlers), and leases that are not extended expire. Losses,
  late arrivals and admins are not assumed. Heartbeats do not postpone the expiry for
  ever, because a dispatch ends.
- Webhooks: the chain of dispatches goes on whenever it can (its transport has a
  deadline, the gate serves its waiters in order), and a request that staged a
  delivery reaches its hook. `CanDispatch` writes the dispatcher's ENABLED out.
- Realtime: timers fire, requests are answered or fail, the server accepts
  sockets and delivers. Events, drops and errors are not assumed.
- Tunnel: frames arrive, timers fire and the local backend answers or fails
  (limits of the relay and the desktop enforce it); and clients finish or cancel
  what they upload and read. The last is assumed of the environment: the relay has
  no time limit for a slow upload or a slow reader, and what such a client holds
  it holds as long as it stays.
- Passwords: a hash ends, and a request that waits for the gate gets it. The
  pool's own timer needs no assumption.
- Archive: a handler's next step is taken, and the operator asks for the rollback
  again. Failures, disconnects, kills, users and the timer are not assumed.

## 4. Proofs

`MutationPipelineProofs` proves, for every set of requests, keys, phased and
import routes and every bound, under `PipelineAssumption` only:

- `TypeCorrect`: `Spec => []TypeOK`, from one lemma per group of variables.
- `DurableInvariant`: `Spec => []DurableInv`.
- `Acknowledged2xxIsDurable`: `Spec => []AcknowledgedIsDurable`.
- `GateIsHeld`: `Spec => []GateHeld`.

The property of an answered request alone is not inductive: the answer is safe
only if the flush that preceded it wrote the whole change. `DurableInv` says so
at each point: what is durable is also in memory (`MemoryAhead`: reloading never
brings changes that memory had lost); a request that answered 2xx and is not
done has both changes in memory or on disk, and until its last flush either the
gate keeps other requests' reloads out, or (phased, or recorded) its changes are
on disk already; whoever is past onRequest holds the gate. Reloads are what could
break this, so the argument splits a step by what it does to the state
(`StateMoves`: memory grows, or it becomes what is on disk), then into the
stepping request (`OwnStep`) and the others (`OtherStep`); `Arrival` and
`Departure` carry the gate.

`PipelineAssumption` asks that imports are gated and carry a key, and that
requests with the same path and body are of the same kind; TLC evaluates it in
every pipeline run.

On top of `DurableInv`, under the same assumption, it proves of replays and events:

- `ReplaysAreDurable`: `Spec => []ReplayIsDurable`.
- `HolderWaitsForNobody`: `Spec => []HolderNeverJoins`.
- `EventsAreDurable`: `Spec => []PublishedIsDurable`.
- `RetriesLeaveOne`: retries of a keyed request leave one mutation on disk
  (`TrackedAtMostOnce`: `KeyedAtMostOnce` without the imports), and
  `KeyedRetriesLeaveOne`: `Spec => []KeyedAtMostOnce` if there are no imports.

`ReplayInv` ties the records to the rest: who may hold the gate and lead a flight
(`GateInv`); a record is in memory only when it is on disk, with the whole of its
request's mutation, and is alone of its key (`RecordInv`); nobody's error response
can flush the memory while a gated success waits to be recorded (`Alone`); the
second change of a recorded kind of request is on disk only with its record
(`TrackedWell`). `Alone` is what a reader would not expect to need: the error
path's flush is not behind the gate, and without it the change could be written
before its record. Imports are left out because their handler flushes when it
finds the writer dirty: a phased request that failed may have left it so, the
import's change is then written before its record, and after a crash in between
the retry runs again. TLC finds that with `Phased = {r3}` and
`Imports = {r1, r2}`; the runs do not combine a retried import with a phased
request. `EventInv` adds that no number on disk is ahead of memory's.

and under `Plain` (no phased routes, no subscription, no GET that saves), with
imports:

- `FailuresLeaveNoTrace`: `Spec => []FailureLeavesNoTrace`.
- `ImportRetriesLeaveOne`: `Spec => []KeyedAtMostOnce`.
- `PipelineIsAtomic`: `Spec => ImplementsAtomicMutations`, the refinement.

`AtomicInv` says whose changes memory holds that the disk does not: those of the
holder of the gate, in the middle of its handler or on its way through the last
hooks (`UnsavedIsOwn`); the writer is dirty only for a holder that is closing
(`DirtyForOne`), no error response of another request is about to flush meanwhile
(`Undisturbed`), and a change without a key comes to disk with its success
(`SavedLast`). The commit of the refinement is then the one step that writes the
holder's two changes (`DiskStep`); that it may commit is `OneOfEachKey`, that the
answers are truthful `AnswerTrue`. Each part of `Plain` is needed: with any one
of the three let in, TLC refutes `FailureLeavesNoTrace`, because something writes
a request's first change before the request is rolled back: the deferred flush of
what a failed phased request left dirty, the flush that makes an event's number
durable before an aborted request's last hook, or a GET that saves.

`PasswordAuthProofs` proves, for any number of requests, cookies and tokens and
any size of the pool, under `PasswordAssumption` only:

- `PoolIsSound`: `Spec => []PoolInv`.
- `DisabledIsSignedOut`, `NoSessionOutlivesItsPassword`, `TokensAreUsedOnce`,
  `ConfirmedIsAlone`: the four safety properties of the accounts.

The types and the pool's books are inductive only together with `JobsFit`: what a
waiting request holds (a login expects the very hash it verified, a reset knows
its token). `Sound` is their conjunction. The queue has lemmas of its own
(`Joining`, `Leaving`, `Starting`: who is in it, and that nobody is twice); a
slot that is handed on in one step with the end of a hash is `HandOn` and
`WorkEndsPool`. On top of `Sound` each property needs its own step:
`UsedOnce` the strengthening `SingleUse` (an unused token was never used), and
`UpgradeTakesThePlace` the strengthening `Families` (siblings of one sign-in share
their proof and their confirmation takes them all), with `Known` for ids that may
be given out once.

`ArchiveImportProofs` proves, for any archive (whatever its records name), any
number of failures, kills and users' changes, under `ImportAssumption`:

- `NothingNamedGoes`: `Spec => []NothingNamedIsMissing`.
- `LaterWorkIsKept`: `Spec => LaterWorkStays`.
- `ObjectsAreInStep`: `Spec => []ObjectsMatchRecords`, of the assets that are not
  `torn`.
- `RollbackCanBeRepeated`: `Spec => []BytesAreThere`. Between requests the bytes that
  each step still to be rolled back leads to are there, but for those `lost`. They
  are lost in two ways and no other: an import takes its objects back after its
  state was written, because its client had gone before its `AbortController` was
  there (`finding_import`) or because the reply's write failed after another
  request's flush; or a rollback fails or is killed after it deleted its inverse
  objects and before its state is written (`finding_rollback`).

`RecordInv` strengthens the first two: between two stages of a request memory and
disk are the same or one step apart (`Gate`), the operation lists everything
newer than its import found (`Followed`), and the plan of a rollback may be
carried out (`RollingBack`). `PlanIsSafe` is the core: `addReferenceConflicts`
looks at each way to delete the records that stay unnamed, and their union leaves
no name behind, although what it keeps may name more than the state it looked at.
`ObjectInv` strengthens the other two with what a request knows at each stage of
the objects it found, wrote and keeps inverses of (`ImportObjects`,
`RollbackObjects`), and with `Told`, `Kept`: the operation's bytes are those of the
versions it leads back to, and their inverse objects are there, but for the lost
ones and, while an import takes its objects back, those it is about to give up
(`KeptBut`). On disk this holds as well (`KeptOnDisk`), because a failing write
returns to it.

`RestoreIntentProofs` proves, for any number of restores, writes, operations that
throw, kills and power losses, under `RestoreAssumption` only:

- `EveryCrashIsSurvived`: `Spec => []EveryCrashHasAWayBack`.
- `RestoreIsAtomic`: `Spec => ImplementsAtomicRestore`, the refinement.

Both speak of what comes before one of the `RareFaults`: a kill or power loss inside
the reconciliation's commit, or a `rolled_back` entry that cannot be written. The
code does not survive these (findings 4 and 5), so `Struck` exempts what follows
them and, in the abstract specification, makes its promise void; without the
exemption TLC refutes both. Only the types outlast them. Every other crash and
error is covered, and those two steps are in the model.

`EveryCrashHasAWayBack` looks at each directory a power loss may leave, but does
not say what the routine that runs relies on. `Inv`, which `SafeInv` asks for until
a rare fault strikes, does: `WayBack` is the
property without `Resolution`, `Clean` says that only the live database matters
any more, and each routine has a part of its own (`StageInv`, `SwapInv` with the
entry that the journal ends in at each step, `UndoInv`, `DoneInv`, `RecoverInv`).
The journal enters by three lemmas (`Appending`, `Parting`, `Beginning`), so that
the rest of the proof never looks at its lines. `StageLeaves`, `SwapLeaves` and
`OtherLeaves` are the core: whatever the step that was cut short left, of whichever
directory, is a way back; kills, power losses and the catch blocks follow. The
refinement needs `Inv` only to know what is served when a routine ends
(`PromiseStep`).

`JobLeaseProofs` proves, for any jobs, workers and number of calls, attempts, lost
calls, kills and admins' actions, under `JobLeaseAssumption`:

- `LeasesOnce`, `WorksOnce`, `SettledWasDispatched`: the three invariants.
- `DispatchesUnderLease`: `Spec => DispatchUnderLease`.

`LedgerInv` holds them together. `SucceededMeansDispatched` speaks of a job that
has ended; what makes it so is a worker that saw its dispatch succeed, or a stray
report of such a worker (`Seen`). That the report comes under the lease of that
work is `WorkInv`: a worker has at most one effect per job, and if it holds a
lease under which work started, the effect or the dispatch under way is of this
very lease (`ClaimOwns`), and a dispatch under way has had no effect yet and is not
carried out twice (`Exclusive`). One inside the gate keeps the claim that let it
begin, because it is the only one there and whoever would lease, settle or retry its
job waits (`HolderClaimed`); `DispatchUnderLease` follows, though its lease may have
expired. A repeated lease request claims once because the newest lease of a
job is in its record with its request (`Latest`). `Evolution` sorts the steps into
four kinds (nothing new, a dispatch ends, a new lease, a new claim), so that
the invariants need not look at the actions one by one.

`RelayTunnelProofs` proves, for any hosts, requests, players, body sizes, limits and
faults, under `TunnelAssumption`:

- `BudgetsExact`: `Spec => []BudgetsAreExact`; `HostsAgree`: `Spec => []SidesAgree`.
- `AnswersWhole`: `Spec => AnswersAreWhole`.

`TunnelInv` has the relay's part and the frames'. `Books`: each counter is what its
set counts. The code subtracts with `Math.max(0, ...)`; `TotalChange` and
`TotalClear` (a sum changes by what one element, or a part of them, counts for)
show that nothing is ever cut off. `HostsKnown`: only the present host's socket is
in use and what waits, waits for it. `Orders` and `Locals`: a request's frames go to
its own host and its first ones come once, and an order to open a player's socket
is followed by one to close it if the player has gone. `AnswerFrames`: the end of
an answer is its last frame. `Stream`: what the relay received of an answer and
what is on its way are together what the desktop sent. An answer is whole because
of the last two, which is why frames need an invariant of their own.

`RealtimeClientProofs` proves, for any number of events of any kind, dropped
sockets and failed snapshots, under `RealtimeAssumption`:

- `CursorHonest`: `Spec => []CursorIsHonest`; `SyncedFresh`: `Spec => []SyncedIsFresh`.
- `NothingReverts`: `Spec => AppliedNeverReverts`.

`RealtimeInv` is stronger than `CursorIsHonest`, which takes any load in flight for
help: an event up to the cursor is in the view, given up, or `Comes`, because a
timer will ask for a snapshot or the live load was not read before it. After a
reconnect so does every event that is neither on the wire nor queued (`Awaited`).
`NoneStale` (a load that was read before an event that was applied at once is not
applied) gives `NothingReverts`. The end of a resync handles the queued messages
in one step, a recursive function: `LeastNumber`, `CountUp` and `DispatchesExist` are
its induction, over the well-founded order of the numbers. The proof found that
a reconciliation that fails must leave the resync's retry timer alone, as
`App.tsx` does and the model at first did not.

`WebhookDispatchProofs` proves, for any subscriptions, limits, and number of events,
tests, retries, edits, failed flushes and kills, under `WebhookAssumption`:

- `PlacesReserved`: `Spec => []PendingIsReserved`.
- `LedgerAndQueueMeet`: `Spec => []LedgerMeetsQueue`.
- `StaleSendIsSingle`: `Spec => []AtMostOneStaleSend`.
- `OutcomesAreFinal`: `Spec => DurableOutcomeIsFinal`.

`WebhookInv` speaks of both copies of the ledger, because a failed flush replaces one
by the other. `LedgersWell`: an id is in a ledger once, is no later than `lastId`, and
an outcome on disk is the one in memory (`Ahead`). `Places`: the ids in the line are
all different, so that the cardinality of their set is what is pending and
`Math.max(0, ...)` never cuts off. `Turns`: what is to come waits in both copies, so
that a rollback cannot take it away, and what is past waits in neither, so that the
finally clause forgets nothing. `Configured` and `Sent`: no change of a subscription
is ever rolled back, and between a check and its request no stale request has left
under the revision that was found. The operators come first: `PruneKeeps` (what waits
is not pruned), and then that each change of the ledger adds deliveries that wait
(`Adds`) or settles some that waited (`Settles`); the steps need nothing else of it.
The loops over a dispatch are recursive functions, reasoned about by `StepsExist` and
`CountUp`. That the loop's check and its answer always find their delivery waiting
(`TurnWaits`) follows: of what is modelled nothing reaches the code's early returns
there, which are left for the deletion of a campaign or a replaced database.

Only model-checked: liveness, which needs ENABLED.

## 5. Findings

Two runs show that something the repository says of itself is not so:

1. `finding_import` (`app.ts` 12621): an archive import waits once before it
   registers its `AbortController`. A disconnect there lets the handler complete;
   the state is persisted with its replay record, and then only the objects are
   rolled back. `docs/deployment/self-hosting.md` promises both.
2. `finding_rollback` (`campaign-archive-import-recovery.ts` 300): the rollback of
   an import deletes its inverse objects before its state is durable, because
   both `replace()` and `flush()` do nothing durable inside a keyed handler. If the
   write at the reply fails, or the process is killed before it, the operation is
   open again and the bytes it leads back to are gone; a repeated rollback then
   reports a conflict for ever. The comment at `app.ts` 12667 knows the
   deferral; the test at `campaign-archive-import-recovery.test.ts` 165 calls the
   function without it. `archive` has this failure, and records in `lost` what it
   costs, as it does for finding 1.

The others are stated by definitions the models keep, or follow from them; no run
is spent on them:

3. `sqlite-store.ts` 2356 (`RecoveryIsRetryable` in `RestoreIntent`): a kill in the
   middle of a journal append leaves a part of a line, which reading skips;
   recovery then appends `rolled_back` to that part. A second kill before the
   journal is removed makes every later startup refuse, where
   `docs/deployment/backup-restore.md` 135 says that another failure during
   recovery is safe to retry. The same happens after one kill if the very first
   line is cut off, or after one failed write that creates an empty journal.
   `RefusalKeepsTheDatabase` shows that the original is whole whenever a startup
   refuses.
4. `sqlite-store.ts` 2379 (`StartupServesOriginalOrRestored`): a kill inside the
   commit of the reconciliation leaves the candidate's `<database>-journal`.
   Recovery replaces the database but not that file, and SQLite replays it into
   the original. `restore_atomic` takes this step and exempts what follows it.
5. `sqlite-store.ts` 982: if the swap fails and then the `rolled_back` entry cannot
   be written, the original is already open and the server goes on with a journal
   that says the restore is unfinished; the next startup copies the rollback file
   over what was acknowledged since. `restore_atomic` takes this step too, and
   exempts what follows it (`Struck`).
6. `app.ts` 1531: events are numbered and broadcast one hook before an aborted
   request is rolled back; the rollback takes the campaign's sequence back, and the
   next event gets a number that clients have seen and drop as a duplicate.
   With a subscription the sequence is flushed first, which `PublishedIsDurable`
   checks.
7. `app.ts` 2623: three GET routes append an audit row and save outside the gate,
   against the comment at `app.ts` 1396; what they write can be half of another
   request's change, which then fails and stays.
8. `app.ts` 22952 (`AnsweredDispatchIsClaimed` in `JobLease`), against
   `docs/api/rest.md` 285: a worker that leases its job again is told that its
   dispatch succeeded, from the idempotency record of the earlier lease; the new
   lease has no claim and the job is settled as failed although the work is done.
9. `App.tsx` 2060 (`ReadyHasFreshSnapshot` in `RealtimeClient`): a mutation answered
   during a resync discards the resync's snapshot, whose return is then taken for
   the snapshot itself; the table is reported synced without it, where
   `docs/architecture/overview.md` 14 says that a fresh snapshot always comes first.
10. `docs/api/campaign-webhooks.md` 28 and 104: at most one request per change of a
   subscription leaves under its old configuration (`AtMostOneStaleSend` holds),
   not none; and a delivery is dropped, not sent at least once, if the process
   restarts, its subscription is edited or the queue is full. A failed flush of an
   ungated publication leaves deliveries queued until the next restart.
11. `app.ts` 3485 (`InvitesShowThePassword` in `PasswordAuth`, which does not hold):
   `prepareInviteAuthentication` reads the account's hash after its wait, so the
   check that the credentials have not changed compares the present hash with
   itself.

`FailureLeavesNoTrace` needs that nothing is dirty when a handler starts. In
`pipeline_gated` that holds. It does not beside a phased request that is aborted:
its response is neither flushed nor reloaded, its numbered event leaves the
store dirty, and the timer (35 ms) may fire in the middle of the next handler.
The hazard at `store.ts` 37 records it; no run is spent on it. A phased request
whose write fails after its event was numbered uses up a number without an
event: clients see a gap and fetch a snapshot, so `SequenceNeverReused` asks for
growing numbers, not successive ones.

## 6. What is not modelled

- In the pipeline: handlers that save before they wait; a save that a throwing
  keyed handler requested before (`app.ts` 20309); a changed session that turns
  a replay into a new run; eviction of replay records (`JobLease` has it for
  lease requests); a failing flush inside onError; the flush of a graceful
  shutdown; `MemoryStateStore` and third-party stores with a snapshot; the 503
  gate of storage recovery.
- In the ledger: the job type filter, admins that lease like workers, GET
  dispatches (exports and reports, which have no idempotency key), alerts, the
  millisecond resolution of `updatedAt`, and the order in which calls wait for the
  gate. The claim of a phased dispatch and its first durable phase are one
  step, as are a dispatch's effect and its replay record.
- A job whose attempts are used up, or that an admin started without a lease,
  waits for an admin: `Stranded` names these and `EveryJobEnds` allows them.
- In the restore: the drill and the revision check that precede it (they change
  nothing); migrations of an older backup, which are transactions like the
  reconciliation's; a restore without reconciliation (`reconcileSecurityPlane`);
  a journal line that is whole but lacks its newline (read as an entry, then
  written on as a part is); the paired restore of asset objects in the route;
  what a server does whose database could not be reopened (`broken`), beyond
  serving nothing. The file system is assumed to keep the order of changes to
  one directory and to support its fsync.
- In the webhooks: the replay of a creation or of a rotated secret, the limit of
  25 subscriptions, event types, several campaigns (they share the pending count
  and the chain, and nothing else).
- In the browser: presence, reconciliations of a part of the snapshot, events
  without a number, several tabs. The first connection loads no snapshot of its
  own, as in the code.
- In the tunnel: expiry and renewal of tables, frames on players' sockets, parse
  errors, the limits of one request's size, the relay's rate limiter, several
  sessions of the desktop's lifecycle (`main.ts` 81-114). A local socket that
  cannot be opened leaves its player without an answer, which the model has.
- In password authentication: the login throttle, the second factor and recovery
  codes (a refusal that may always happen), registration, OIDC, invites of new
  accounts, cookies that are deferred, passwordless development users, audits.
- In the archive: several operations at once, dry runs, the framing of the
  stream, regenerated ids, partial scopes, revision checks, content imports. A kill
  in the middle of an import leaves replaced objects and nothing to repair them
  with: such assets are `torn`, and `ObjectsMatchRecords` speaks of the others. So
  are those of an import whose objects are taken back while its state stays, which
  is modelled: the client had gone during the copies (finding 1), or another
  request's save made the state durable early and the reply then failed.
  `RollbackCompletes` exempts an operation whose bytes were `lost`. A disconnect of
  a rollback's client is left out: its last hook, too, finds it only after the state
  was written, and has then no objects to take back. A later import that finds a torn object is left
  out, as are a rollback's reads that fail (they answer 500 before any change).
  References are those of the archive's records and of records outside: what the
  versions before the import named is left out, so a rollback that brings one back
  is not held to them (`addReferenceConflicts` looks at deletions only).
- The other parts of section 1: asset migration and clean-up, the email outbox,
  proposals, system rules, dice, plugins, permissions and vision, the codex
  provider, the asset edge, and the web interface beyond its connection. They are
  not out of reach, except the last, which keeps no state that matters here; the
  rules, dice and vision are pure functions, whose size (tens of thousands of lines
  of tables and formulas) calls for tests rather than state exploration. Most of
  the repository's lines are of these kinds.

## 7. Plan

1. `EmailOutbox`: a dispatch, its receipt and the retry under one delivery id.
   `Proposals`: approval, application, rejection and their object clean-up.
   `DesktopShare`: sessions of the desktop that start, fail and stop. `LoginThrottle`.
2. Compositions: a phased dispatch's claim with the gate; the order in which a
   worker's heartbeats wait for it; handlers that save early.
3. `SystemRules`: action economy, effect lifetimes and spell preparation as
   operators against reference definitions.
4. Proofs: a weaker abstract pipeline that
   phased routes implement too; what is left of the restore's promise after one of
   the `RareFaults`.
