--------------------------- MODULE MutationPipeline ---------------------------
(***************************************************************************)
(* The durable mutation pipeline of the API server (apps/api/src/app.ts):  *)
(* the hooks every mutating HTTP request passes, in their registration     *)
(* order, around the route handler, and the coalesced writer of the state  *)
(* store (apps/api/src/store.ts).                                          *)
(*                                                                         *)
(* A gated request takes the durable mutation gate in onRequest and keeps  *)
(* it until its onSend (or onError) hooks are done.  A phased request runs *)
(* its handler outside the gate, enters it for each short phase, and takes *)
(* it again to finalize its response, until that has left.  One step of a  *)
(* request is the code between two points where the event loop may run     *)
(* something else.                                                         *)
(***************************************************************************)
EXTENDS Naturals, Sequences

CONSTANTS
  Requests,     \* the HTTP requests clients send, retries included
  None,
  KeyOf,        \* Requests -> idempotency key, None when the header is absent
  BodyOf,       \* Requests -> what path and requestHash tell apart
  Phased,       \* requests whose route is phased (requestUsesPhasedMutation)
  Imports,      \* requests that also write asset objects (archive imports)
  Unrecorded,   \* requests whose 2xx body is too large or secret to be replayed
  Subscribed,   \* a webhook subscription matches the campaign's events
  ReadsSave,    \* GET handlers that append an audit row call store.save()
  MayAbort,     \* clients may disconnect
  MaxCrashes,   \* bound on process restarts
  MaxFailures   \* bound on failing writes of the state file

ASSUME PipelineAssumption ==
  /\ None \notin Requests
  /\ Phased \subseteq Requests /\ Imports \subseteq Requests \ Phased
  /\ Unrecorded \subseteq Requests
  /\ \A r \in Imports : KeyOf[r] # None
  /\ {Subscribed, ReadsSave, MayAbort} \subseteq BOOLEAN
  /\ MaxCrashes \in Nat /\ MaxFailures \in Nat
  /\ \A r, s \in Requests : BodyOf[r] = BodyOf[s] => (r \in Phased <=> s \in Phased)

VARIABLES
  mem,        \* EngineState in memory: what the pipeline reads and writes of it
  disk,       \* EngineState as last written by the store
  dirty,      \* CoalescedStateWriter.dirty
  owner,      \* the request holding the durable mutation gate
  queue,      \* requests awaiting DurableMutationCoordinator.acquire(), FIFO
  flight,     \* inFlight: key -> the request that leads it
  pc,         \* where each request is
  status,     \* the reply's status class
  aborted,    \* durableMutationAbortedSymbol, set by onRequestAbort
  signalled,  \* the abort reached the import's AbortController
  rolledBack, \* DurableMutationScope.rolledBack
  objects,    \* imports whose asset objects are in the asset store
  published,  \* events broadcast over the sockets that are open now
  crashes, failures

stateVars == <<mem, disk, dirty>>
gateVars == <<owner, queue>>
requestVars == <<pc, status, aborted, signalled, rolledBack>>
faultVars == <<crashes, failures>>
vars == <<mem, disk, dirty, owner, queue, flight, pc, status, aborted, signalled,
          rolledBack, objects, published, crashes, failures>>

Gated == Requests \ Phased
Keyed(r) == KeyOf[r] # None
Keys == {KeyOf[r] : r \in Requests} \ {None}

\* The two writes a handler makes, with a point where it waits between them.
Whole(r) == {<<r, 1>>, <<r, 2>>}
EngineState ==
  [effects : SUBSET (Requests \X {1, 2}), eventSequence : Nat, idempotencyRecords : SUBSET Requests]

\* Where a request waits for the gate, and where a gated request holds it.
Awaiting == {"gateWait", "phase1Wait", "phase2Wait", "sendWait", "errorWait"}
Handling == {"lookup", "handling", "half"}
Finalizing == {"record", "sequence", "finalize"}
Control ==
  {"new", "joined", "between", "failed", "errorSend", "done"} \cup Awaiting \cup Handling \cup Finalizing
\* The hooks run as one chain of promise continuations: timers, sockets, new
\* requests and handlers that wait for input or output go on only when no
\* request is in the middle of it.
Running == {"lookup", "record", "sequence", "finalize", "failed", "errorSend"}
Quiet == \A r \in Requests : pc[r] \notin Running
Statuses == {"none", "ok", "refused", "conflict", "replay", "error", "gone", "lost"}

StateTypeOK == mem \in EngineState /\ disk \in EngineState /\ dirty \in BOOLEAN
GateTypeOK ==
  /\ owner \in Requests \cup {None} /\ queue \in Seq(Requests)
  /\ flight \in [Keys -> Requests \cup {None}]
RequestTypeOK ==
  /\ pc \in [Requests -> Control] /\ status \in [Requests -> Statuses]
  /\ aborted \in [Requests -> BOOLEAN] /\ signalled \in [Requests -> BOOLEAN]
  /\ rolledBack \in [Requests -> BOOLEAN]
WorldTypeOK ==
  /\ objects \subseteq Imports /\ published \in Seq(Nat \X Requests)
  /\ crashes \in 0..MaxCrashes /\ failures \in 0..MaxFailures
TypeOK == StateTypeOK /\ GateTypeOK /\ RequestTypeOK /\ WorldTypeOK

Init ==
  /\ mem = [effects |-> {}, eventSequence |-> 0, idempotencyRecords |-> {}] /\ disk = mem
  /\ dirty = FALSE /\ owner = None /\ queue = <<>>
  /\ flight = [k \in Keys |-> None]
  /\ pc = [r \in Requests |-> "new"] /\ status = [r \in Requests |-> "none"]
  /\ aborted = [r \in Requests |-> FALSE] /\ signalled = aborted /\ rolledBack = aborted
  /\ objects = {} /\ published = <<>> /\ crashes = 0 /\ failures = 0
-------------------------------------------------------------------------------
(***************************************************************************)
(* Shared pieces of the steps.                                             *)
(***************************************************************************)
Goto(r, label) == pc' = [pc EXCEPT ![r] = label]
Answer(r, s) == status' = [status EXCEPT ![r] = s]

\* acquire(): the request joins the promise tail; it runs when it is first.
Enqueue(r, label) == queue' = Append(queue, r) /\ Goto(r, label)
Acquire(r) == owner = None /\ queue # <<>> /\ Head(queue) = r /\ queue' = Tail(queue)
Release(r) == owner' = IF owner = r THEN None ELSE owner

\* A slip: the flush only schedules the write.
LazyPersist(state) == mem' = state /\ dirty' = TRUE /\ UNCHANGED <<disk, failures>>
\* CoalescedStateWriter.flush() with writeNow: all of the state in one
\* transaction, or a failure that leaves the writer dirty.
Persist(state) == mem' = state /\ disk' = state /\ dirty' = FALSE /\ UNCHANGED failures
PersistFails(state) ==
  /\ failures < MaxFailures /\ failures' = failures + 1
  /\ mem' = state /\ dirty' = TRUE /\ UNCHANGED disk
\* A slip: the pending write is dropped, the state in memory is kept.
DiscardOnly == dirty' = FALSE /\ UNCHANGED <<mem, disk>>
\* restoreDurableState(): discard() and load().
RestoreDurableState == mem' = disk /\ dirty' = FALSE /\ UNCHANGED disk

\* rollbackDurableMutation: once per request, and only with a durable scope.
RollbackDurableMutation(r) ==
  IF r \in Phased \/ rolledBack[r]
  THEN UNCHANGED <<mem, disk, dirty, rolledBack>>
  ELSE RestoreDurableState /\ rolledBack' = [rolledBack EXCEPT ![r] = TRUE]

\* A slip: a leader that fails leaves its flight open.
KeepFailedFlight(r) ==
  flight' = [k \in Keys |-> IF flight[k] = r /\ status[r] # "error" THEN None ELSE flight[k]]
\* releaseFlight: settles the flight the request leads, if it leads one.
ReleaseFlight(r) == flight' = [k \in Keys |-> IF flight[k] = r THEN None ELSE flight[k]]
Leads(r) == Keyed(r) /\ flight[KeyOf[r]] = r

\* The first step of the response: phased requests take the gate again.
Respond(r) ==
  IF r \in Phased THEN Enqueue(r, "sendWait") ELSE Goto(r, "record") /\ UNCHANGED queue
-------------------------------------------------------------------------------
(***************************************************************************)
(* onRequest and preHandler.                                               *)
(***************************************************************************)

\* A request arrives: gated ones queue for the gate, phased ones do not.
Send(r) ==
  /\ Quiet /\ pc[r] = "new"
  /\ IF r \in Phased THEN Goto(r, "lookup") /\ UNCHANGED queue ELSE Enqueue(r, "gateWait")
  /\ UNCHANGED <<stateVars, owner, flight, status, aborted, signalled, rolledBack, objects,
                 published, faultVars>>

\* onRequest resumes with the gate.  A request aborted while it waited gives it
\* back and fails with 499, before it has a durable scope.
EnterGate(r) ==
  /\ pc[r] = "gateWait" /\ Acquire(r)
  /\ IF aborted[r]
     THEN Goto(r, "errorSend") /\ Answer(r, "error") /\ UNCHANGED owner
     ELSE Goto(r, "lookup") /\ owner' = r /\ UNCHANGED status
  /\ UNCHANGED <<stateVars, flight, aborted, signalled, rolledBack, objects, published, faultVars>>

SameKey(r) == {s \in mem.idempotencyRecords : KeyOf[s] = KeyOf[r]}
\* A slip: whatever carries the key counts as the same request.
NoMismatch(r, s) == FALSE
Mismatch(r, s) == BodyOf[s] # BodyOf[r]

\* One turn of registerIdempotencyReplay's preHandler loop.
Lookup(r) ==
  /\ pc[r] = "lookup"
  /\ \/ /\ ~Keyed(r)
        /\ Goto(r, "handling") /\ UNCHANGED <<queue, flight, status>>
     \/ \E s \in SameKey(r) :
          /\ Keyed(r)
          /\ Answer(r, IF Mismatch(r, s) THEN "conflict" ELSE "replay")
          /\ Respond(r) /\ UNCHANGED flight
     \/ /\ Keyed(r) /\ SameKey(r) = {} /\ flight[KeyOf[r]] # None
        /\ IF Mismatch(r, flight[KeyOf[r]])
           THEN Answer(r, "conflict") /\ Respond(r)
           ELSE Goto(r, "joined") /\ UNCHANGED <<status, queue>>
        /\ UNCHANGED flight
     \/ /\ Keyed(r) /\ SameKey(r) = {} /\ flight[KeyOf[r]] = None
        /\ flight' = [flight EXCEPT ![KeyOf[r]] = r]
        /\ Goto(r, "handling") /\ UNCHANGED <<status, queue>>
  /\ UNCHANGED <<stateVars, owner, aborted, signalled, rolledBack, objects, published, faultVars>>

\* A slip: a follower answers with the leader's result, whatever it was.
ResumeAsReplay(r) ==
  /\ pc[r] = "joined" /\ flight[KeyOf[r]] = None
  /\ Answer(r, "replay") /\ Respond(r)
  /\ UNCHANGED <<stateVars, owner, flight, aborted, signalled, rolledBack, objects, published, faultVars>>

\* The flight a follower awaits is settled: it replays the leader's record or
\* loops, which Lookup does.
Resume(r) ==
  /\ pc[r] = "joined" /\ flight[KeyOf[r]] = None
  /\ Goto(r, "lookup")
  /\ UNCHANGED <<stateVars, gateVars, flight, status, aborted, signalled, rolledBack, objects,
                 published, faultVars>>
-------------------------------------------------------------------------------
(***************************************************************************)
(* The route handler.                                                      *)
(***************************************************************************)

\* A slip: every request is given an archive import's object transaction.
HandlerWriteObjects(r) ==
  /\ pc[r] = "handling" /\ r \in Gated
  /\ mem' = [mem EXCEPT !.effects = @ \cup {<<r, 1>>}]
  /\ objects' = objects \cup {r}
  /\ Goto(r, "half")
  /\ UNCHANGED <<disk, dirty, gateVars, flight, status, aborted, signalled, rolledBack, published,
                 faultVars>>

\* A gated handler changes the state in memory and waits for something: an
\* import writes its asset objects while it waits.
HandlerWrite(r) ==
  /\ pc[r] = "handling" /\ r \in Gated
  /\ mem' = [mem EXCEPT !.effects = IF r \in Imports THEN @ ELSE @ \cup {<<r, 1>>}]
  /\ objects' = objects \cup (Imports \cap {r})
  /\ Goto(r, "half")
  /\ UNCHANGED <<disk, dirty, gateVars, flight, status, aborted, signalled, rolledBack, published,
                 faultVars>>

\* store.save(), which waits for onSend when the request has a key.  An import
\* flushes as well, which writes only when something else is dirty already (a
\* flush that fails reloads and throws, as HandlerThrow and OnError do).
Save(r, state) ==
  IF r \in Imports /\ dirty
  THEN Persist(state)
  ELSE mem' = state /\ dirty' = (dirty \/ ~Keyed(r)) /\ UNCHANGED <<disk, failures>>

\* It completes the change, saves and stages its event.
HandlerFinish(r) ==
  /\ Quiet /\ pc[r] = "half" /\ ~signalled[r]
  /\ Save(r, [mem EXCEPT !.effects = @ \cup Whole(r)])
  /\ Answer(r, "ok") /\ Respond(r)
  /\ UNCHANGED <<owner, flight, aborted, signalled, rolledBack, objects, published, crashes>>

\* throwIfArchiveRestoreAborted: the object writes already made are undone and
\* the import answers 400.
HandlerCancel(r) ==
  /\ Quiet /\ pc[r] = "half" /\ signalled[r]
  /\ objects' = objects \ {r}
  /\ Answer(r, "refused") /\ Respond(r)
  /\ UNCHANGED <<stateVars, owner, flight, aborted, signalled, rolledBack, published, faultVars>>

\* A validation, permission or revision check answers 4xx before any change.
HandlerRefuse(r) ==
  /\ pc[r] = "handling"
  /\ Answer(r, "refused") /\ Respond(r)
  /\ UNCHANGED <<stateVars, owner, flight, aborted, signalled, rolledBack, objects, published, faultVars>>

\* The handler throws, possibly after the first change.
HandlerThrow(r) ==
  /\ Quiet /\ pc[r] \in {"handling", "half", "between"}
  /\ objects' = objects \ {r}
  /\ Answer(r, "error") /\ Goto(r, "failed")
  /\ UNCHANGED <<stateVars, gateVars, flight, aborted, signalled, rolledBack, published, faultVars>>

\* A phased handler queues for its next durable phase.
RequestPhase(r) ==
  /\ r \in Phased
  /\ \/ pc[r] = "handling" /\ Enqueue(r, "phase1Wait")
     \/ pc[r] = "between" /\ Enqueue(r, "phase2Wait")
  /\ UNCHANGED <<stateVars, owner, flight, status, aborted, signalled, rolledBack, objects,
                 published, faultVars>>

PersistPhase(r, part) == Persist([mem EXCEPT !.effects = @ \cup {<<r, part>>}])

\* runPhasedAiMutation / runPhasedPluginRegistryMutation: change and persist in
\* one exclusive section; when persisting fails, reload and rethrow.
RunPhase(r) ==
  LET part == IF pc[r] = "phase1Wait" THEN 1 ELSE 2
  IN
  /\ pc[r] \in {"phase1Wait", "phase2Wait"} /\ owner = None /\ queue # <<>> /\ Head(queue) = r
  /\ \/ /\ PersistPhase(r, part)
        /\ IF part = 1
           THEN Goto(r, "between") /\ queue' = Tail(queue) /\ UNCHANGED status
           ELSE Goto(r, "sendWait") /\ queue' = Append(Tail(queue), r) /\ Answer(r, "ok")
     \/ /\ failures < MaxFailures /\ failures' = failures + 1
        /\ RestoreDurableState
        /\ Goto(r, "failed") /\ queue' = Tail(queue) /\ Answer(r, "error")
  /\ UNCHANGED <<owner, flight, aborted, signalled, rolledBack, objects, published, crashes>>
-------------------------------------------------------------------------------
(***************************************************************************)
(* onSend and onError, in registration order.                              *)
(***************************************************************************)

\* registerPhasedMutationResponseGate: a phased response takes the gate.
EnterSend(r) ==
  /\ pc[r] = "sendWait" /\ Acquire(r) /\ owner' = r
  /\ Goto(r, "record")
  /\ UNCHANGED <<stateVars, flight, status, aborted, signalled, rolledBack, objects, published, faultVars>>

\* A slip: the mutation is persisted before its record is added.
WithoutRecord(r) == mem
WithRecord(r) ==
  [mem EXCEPT !.idempotencyRecords = (@ \ SameKey(r)) \cup ({r} \ Unrecorded)]

Acknowledged(r) == Leads(r) /\ status[r] = "ok" /\ r \notin Phased \cap Unrecorded

\* registerIdempotencyReplay, onSend: a leader's 2xx is persisted with its
\* replay record (without one when unrecorded), then the flight is settled.
RecordReply(r) ==
  /\ pc[r] = "record"
  /\ IF Acknowledged(r)
     THEN \/ Persist(WithRecord(r)) /\ Goto(r, "sequence") /\ UNCHANGED <<status, rolledBack>>
          \/ /\ failures < MaxFailures /\ failures' = failures + 1
             /\ IF r \in Phased
                THEN dirty' = TRUE /\ UNCHANGED <<mem, disk, rolledBack>>
                ELSE IF r \in Unrecorded
                     THEN dirty' = TRUE /\ UNCHANGED <<mem, disk, rolledBack>>
                     ELSE RollbackDurableMutation(r)
             /\ Goto(r, "failed") /\ Answer(r, "error")
     ELSE Goto(r, "sequence") /\ UNCHANGED <<stateVars, status, rolledBack, failures>>
  /\ ReleaseFlight(r)
  /\ UNCHANGED <<gateVars, aborted, signalled, objects, published, crashes>>

\* The webhook scope's onSend: a 2xx gives its event the campaign's next
\* sequence number, makes the webhook deliveries durable when there are any,
\* and broadcasts the event.
SequenceEvent(r) ==
  LET next == mem.eventSequence + 1
      sequenced == [mem EXCEPT !.eventSequence = next]
      Publish == published' = Append(published, <<next, r>>) /\ Goto(r, "finalize")
  IN
  /\ pc[r] = "sequence"
  /\ IF status[r] # "ok"
     THEN Goto(r, "finalize") /\ UNCHANGED <<stateVars, status, published, failures>>
     ELSE IF ~Subscribed
     THEN mem' = sequenced /\ dirty' = TRUE /\ Publish /\ UNCHANGED <<disk, status, failures>>
     ELSE \/ Persist(sequenced) /\ Publish /\ UNCHANGED status
          \/ PersistFails(sequenced) /\ Goto(r, "failed") /\ Answer(r, "error") /\ UNCHANGED published
  /\ UNCHANGED <<gateVars, flight, aborted, signalled, rolledBack, objects, crashes>>

\* A slip: the reply leaves and the debounce timer is left to write.
ReplyBeforeFlush(r) == UNCHANGED <<stateVars, failures>>
FlushBeforeReply(r) == IF dirty THEN Persist(mem) ELSE UNCHANGED <<stateVars, failures>>

\* registerDurableMutationFlush, onSend: an aborted request is rolled back (an
\* import's objects with it), any other one is flushed before its reply leaves.
\* A gated request gives the gate back, a phased one keeps it.
Finalize(r) ==
  /\ pc[r] = "finalize"
  /\ IF r \in Phased THEN UNCHANGED owner ELSE Release(r)
  /\ IF aborted[r]
     THEN /\ RollbackDurableMutation(r) /\ objects' = objects \ {r}
          /\ Goto(r, "done") /\ Answer(r, "gone") /\ UNCHANGED failures
     ELSE \/ /\ FlushBeforeReply(r)
             /\ Goto(r, "done") /\ UNCHANGED <<status, rolledBack, objects>>
          \/ /\ dirty /\ failures < MaxFailures /\ failures' = failures + 1
             /\ RollbackDurableMutation(r) /\ objects' = objects \ {r}
             /\ Goto(r, "failed") /\ Answer(r, "error")
  /\ UNCHANGED <<queue, flight, aborted, signalled, published, crashes>>

\* The onError hooks: settle the flight, roll back, give the gate back.
OnError(r) ==
  /\ pc[r] = "failed"
  /\ ReleaseFlight(r) /\ RollbackDurableMutation(r) /\ Release(r)
  /\ objects' = objects \ {r}
  /\ IF r \in Phased THEN Enqueue(r, "errorWait") ELSE Goto(r, "errorSend") /\ UNCHANGED queue
  /\ UNCHANGED <<status, aborted, signalled, published, faultVars>>

\* The error response passes onSend again, a gated request's without the gate:
\* whatever is dirty by now is flushed.
ErrorSend(r) ==
  /\ \/ pc[r] = "errorSend" /\ UNCHANGED gateVars
     \/ pc[r] = "errorWait" /\ Acquire(r) /\ owner' = r
  /\ Goto(r, "done") /\ Answer(r, IF aborted[r] THEN "gone" ELSE "error")
  /\ \/ dirty /\ ~aborted[r] /\ Persist(mem)
     \/ dirty /\ ~aborted[r] /\ PersistFails(mem)
     \/ (~dirty \/ aborted[r]) /\ UNCHANGED <<stateVars, failures>>
  /\ UNCHANGED <<flight, aborted, signalled, rolledBack, objects, published, crashes>>

\* registerPhasedMutationResponseGate, onResponse: the response is out, or could
\* not be sent, and a phased request gives the gate back.
OnResponse(r) ==
  /\ pc[r] = "done" /\ owner = r /\ owner' = None
  /\ UNCHANGED <<stateVars, queue, flight, requestVars, objects, published, faultVars>>
-------------------------------------------------------------------------------
(***************************************************************************)
(* What happens around the requests.                                       *)
(***************************************************************************)

\* A slip: the abort hands the gate on while the handler still runs.
AbortReleases(r) ==
  /\ MayAbort /\ Quiet /\ ~aborted[r]
  /\ pc[r] \in Awaiting \cup {"joined", "between", "handling", "half"}
  /\ aborted' = [aborted EXCEPT ![r] = TRUE]
  /\ Release(r)
  /\ UNCHANGED <<stateVars, queue, flight, pc, status, signalled, rolledBack, objects, published, faultVars>>

\* onRequestAbort, at any point where the request waits for something.
Abort(r) ==
  /\ MayAbort /\ Quiet /\ ~aborted[r]
  /\ pc[r] \in Awaiting \cup {"joined", "between", "handling", "half"}
  /\ aborted' = [aborted EXCEPT ![r] = TRUE]
  /\ signalled' = [signalled EXCEPT ![r] = r \in Imports /\ pc[r] = "half"]
  /\ UNCHANGED <<stateVars, gateVars, flight, pc, status, rolledBack, objects, published, faultVars>>

\* The writer's debounce timer fires: a failure is logged and stays dirty.
DeferredFlush ==
  /\ Quiet /\ dirty
  /\ Persist(mem) \/ PersistFails(mem)
  /\ UNCHANGED <<gateVars, flight, requestVars, objects, published, crashes>>

\* A GET response flushes too, without the gate; some GET handlers save first.
ReadResponse ==
  /\ Quiet
  /\ dirty \/ (ReadsSave /\ mem # disk)
  /\ Persist(mem) \/ PersistFails(mem)
  /\ UNCHANGED <<gateVars, flight, requestVars, objects, published, crashes>>

\* The process dies and restarts from the state file; sockets are dropped.
Crash ==
  /\ crashes < MaxCrashes /\ crashes' = crashes + 1
  /\ mem' = disk /\ dirty' = FALSE /\ owner' = None /\ queue' = <<>>
  /\ flight' = [k \in Keys |-> None]
  /\ pc' = [r \in Requests |-> IF pc[r] = "new" THEN "new" ELSE "done"]
  /\ status' = [r \in Requests |-> IF pc[r] \in {"new", "done"} THEN status[r] ELSE "lost"]
  /\ published' = <<>>
  /\ UNCHANGED <<disk, aborted, signalled, rolledBack, objects, failures>>

Step(r) ==
  \/ EnterGate(r) \/ Lookup(r) \/ Resume(r)
  \/ HandlerWrite(r) \/ HandlerFinish(r) \/ HandlerCancel(r) \/ HandlerRefuse(r) \/ HandlerThrow(r)
  \/ RequestPhase(r) \/ RunPhase(r)
  \/ EnterSend(r) \/ RecordReply(r) \/ SequenceEvent(r) \/ Finalize(r)
  \/ OnError(r) \/ ErrorSend(r) \/ OnResponse(r)

Next ==
  \/ \E r \in Requests : Send(r) \/ Step(r) \/ Abort(r)
  \/ DeferredFlush \/ ReadResponse \/ Crash

Spec == Init /\ [][Next]_vars

\* The event loop runs every callback that is ready and handlers terminate;
\* clients, disconnections, crashes and timers are left to chance.
FairSpec == Spec /\ \A r \in Requests : WF_vars(Step(r))
-------------------------------------------------------------------------------
(***************************************************************************)
(* Properties.                                                             *)
(***************************************************************************)

\* A gated request from the end of onRequest to the end of its onSend hooks,
\* and a phased one through its onSend hooks, is the one holder of the gate:
\* DurableMutationCoordinator with every release path of the hooks.
GateHeld ==
  \A r \in Requests :
    pc[r] \in Finalizing \/ (r \in Gated /\ pc[r] \in Handling) => owner = r

\* A 2xx answer that left is on disk and stays there: no later rollback,
\* failed flush or restart takes it back (durable acknowledgement).
AcknowledgedIsDurable ==
  \A r \in Requests : pc[r] = "done" /\ status[r] = "ok" => Whole(r) \subseteq disk.effects

SameRequest(r, s) == Keyed(r) /\ KeyOf[r] = KeyOf[s] /\ BodyOf[r] = BodyOf[s]

\* Idempotency-Replayed is only answered for a mutation that is on disk.
ReplayIsDurable ==
  \A r \in Requests : status[r] = "replay" =>
    \E s \in Requests \ {r} : SameRequest(r, s) /\ Whole(s) \subseteq disk.effects

\* Retries of one keyed request leave one mutation on disk, whatever was
\* aborted, failed or restarted between them: the record and the mutation are
\* written together.
KeyedAtMostOnce ==
  \A r, s \in Gated \ Unrecorded :
    r # s /\ SameRequest(r, s) => ~(Whole(r) \cup Whole(s) \subseteq disk.effects)

\* A gated request without a key that failed or was aborted leaves nothing
\* behind, in memory or on disk.
FailureLeavesNoTrace ==
  \A r \in Gated :
    ~Keyed(r) /\ pc[r] = "done" /\ status[r] \in {"error", "gone"}
      => Whole(r) \cap (mem.effects \cup disk.effects) = {}

\* The holder of the gate never waits for another request's flight, whose
\* leader may be a phased request in need of the gate.
HolderNeverJoins == owner # None => pc[owner] # "joined"

\* Over one connection the campaign's sequence numbers grow: none is handed out
\* twice.  realtimeSequenceDecision drops a number it has seen as a duplicate; a
\* number that is left out makes the client fetch a snapshot.
SequenceNeverReused ==
  \A i \in DOMAIN published : i > 1 => published[i][1] > published[i - 1][1]

\* With a webhook subscription, an event is broadcast after its mutation and
\* its sequence number are on disk (commitWebhookEvents), and no number twice.
PublishedIsDurable ==
  Subscribed => SequenceNeverReused /\ \A i \in DOMAIN published :
    Whole(published[i][2]) \subseteq disk.effects /\ published[i][1] <= disk.eventSequence

\* An archive import that is on disk has its asset objects.
ImportedObjectsExist ==
  \A r \in Imports : pc[r] = "done" /\ Whole(r) \subseteq disk.effects => r \in objects

\* Seen from outside, the pipeline is the atomic one: a mutation is durable when
\* all of its writes are on disk, an answer exists when the response is sent.
Told(r) ==
  IF pc[r] # "done" THEN "none"
  ELSE IF status[r] \in {"ok", "replay", "lost"} THEN status[r]
  ELSE IF status[r] \in {"error", "gone"} THEN "failed" ELSE "other"
Atomic == INSTANCE AtomicMutations WITH
  Same <- {p \in Requests \X Requests : p[1] # p[2] /\ SameRequest(p[1], p[2])},
  Recorded <- Gated \ Unrecorded,
  Traceless <- {r \in Gated : ~Keyed(r)},
  committed <- {r \in Requests : Whole(r) \subseteq disk.effects},
  answer <- [r \in Requests |-> Told(r)]
ImplementsAtomicMutations == Atomic!Spec

\* Every request that is sent is answered, or its client is gone.
EveryRequestEnds == \A r \in Requests : pc[r] = "gateWait" \/ pc[r] = "lookup" ~> pc[r] = "done"
===============================================================================
