---------------------------- MODULE WebhookDispatch ----------------------------
(***************************************************************************)
(* Campaign webhooks of the API server: the delivery ledger                *)
(* (apps/api/src/campaign-webhook-ledger.ts), the management routes        *)
(* (campaign-webhook-routes.ts), the transport (campaign-webhooks.ts) and  *)
(* the dispatcher of app.ts, a chain of promises that sends one delivery   *)
(* at a time outside the durable mutation gate and returns to the gate to  *)
(* record what became of it.                                               *)
(*                                                                         *)
(* One campaign.  A step that runs inside the gate is one action (module   *)
(* MutationPipeline); "saved" is what the last successful flush wrote, to  *)
(* which a gated request whose flush fails, and a restart, return.         *)
(***************************************************************************)
EXTENDS Naturals, FiniteSets, SequencesExt

CONSTANTS
  Webhooks,     \* subscription ids, numbers in the order of localeCompare
  None,
  MaxPending,   \* CAMPAIGN_WEBHOOK_QUEUE_MAX_PENDING_DELIVERIES
  PerWebhook,   \* CAMPAIGN_WEBHOOK_DELIVERY_RETENTION_PER_WEBHOOK
  PerCampaign,  \* CAMPAIGN_WEBHOOK_DELIVERY_RETENTION_PER_CAMPAIGN
  MaxEvents,    \* bound on published events
  MaxTurns      \* bound on tests, retries, changes of subscriptions, flushes that fail
                \* and kills of the process, together

ASSUME WebhookAssumption ==
  /\ Webhooks \subseteq Nat /\ IsFiniteSet(Webhooks) /\ None \notin Nat
  /\ {MaxPending, PerWebhook, PerCampaign} \subseteq Nat \ {0}
  /\ {MaxEvents, MaxTurns} \subseteq Nat

VARIABLES
  webhooks,    \* EngineState.campaignWebhooks, each with its revision (updatedAt)
  deliveries,  \* EngineState.campaignWebhookDeliveries
  saved,       \* both, as the last successful flush wrote them
  pending,     \* pendingWebhookDeliveryCount
  staged,      \* webhookDispatchScopes: the test or retry whose gated request has yet to commit it
  queue,       \* webhookEventQueue: the scheduled dispatches, the first one running
  at,          \* the delivery of that dispatch whose turn it is
  step,        \* what its loop does next: check, resolve, answer or, once a flush failed, catch
  lastId, lastEvent,  \* createId, in the order of createdAt
  sends,       \* every request that left: delivery, revision it was signed under, revision then
  stranded,    \* queued deliveries that no dispatch will take up: their commit failed, or a
               \* rollback undid an outcome that had not been flushed
  turns        \* how much of MaxTurns was used

ledger == <<webhooks, deliveries>>
dispatcher == <<queue, at, step>>
history == <<sends, stranded>>
vars == <<webhooks, deliveries, saved, pending, staged, queue, at, step, lastId, lastEvent,
          sends, stranded, turns>>

Ids == Nat \ {0}
Events == Nat \ {0}
Revisions == 0..MaxTurns
CampaignWebhookSubscription ==
  [life : {"absent", "present", "deleted"}, enabled : BOOLEAN, rev : Revisions]
CampaignWebhookDelivery ==
  [id : Ids, webhook : Webhooks, event : Events, attempt : Ids,
   status : {"queued", "delivered", "failed"}, retryOf : Ids \cup {None}]
Dispatches ==
  [automatic : BOOLEAN, work : Seq([webhook : Webhooks, rev : Revisions, id : Ids])]

TypeOK ==
  /\ webhooks \in [Webhooks -> CampaignWebhookSubscription]
  /\ deliveries \subseteq CampaignWebhookDelivery
  /\ saved.webhooks \in [Webhooks -> CampaignWebhookSubscription]
  /\ saved.deliveries \subseteq CampaignWebhookDelivery
  /\ pending \in 0..MaxPending /\ staged \in Seq(Dispatches)
  /\ queue \in Seq(Dispatches) /\ at \in Nat \ {0}
  /\ step \in {"check", "resolve", "answer", "catch"}
  /\ lastId \in Nat /\ lastEvent \in 0..MaxEvents
  /\ sends \subseteq [id : Ids, webhook : Webhooks, rev : Revisions, now : Revisions]
  /\ stranded \subseteq Ids
  /\ turns \in 0..MaxTurns

\* One of the bounded steps.
TurnTaken == turns < MaxTurns /\ turns' = turns + 1

Init ==
  /\ \E present \in SUBSET Webhooks :
       webhooks = [w \in Webhooks |-> [life |-> IF w \in present THEN "present" ELSE "absent",
                                       enabled |-> w \in present, rev |-> 0]]
  /\ deliveries = {} /\ saved = [webhooks |-> webhooks, deliveries |-> {}]
  /\ pending = 0 /\ staged = <<>> /\ queue = <<>> /\ at = 1 /\ step = "check"
  /\ lastId = 0 /\ lastEvent = 0 /\ sends = {} /\ stranded = {}
  /\ turns = 0
-------------------------------------------------------------------------------
(***************************************************************************)
(* The ledger.                                                             *)
(***************************************************************************)
Queued(S) == {d \in S : d.status = "queued"}
NewestFirst(S) == SetToSortSeq(S, LAMBDA a, b : a.id > b.id)

\* A slip: what waits may be dropped like what is settled.
RetainedNewest(S, limit) ==
  {d \in S : Cardinality({e \in S : e.id > d.id}) < limit}
\* retainedCampaignWebhookDeliveryIds: all that is queued, and of the settled
\* ones the first "limit" that are met walking back the chains of retries, of
\* the queued deliveries first and then of all, newest first.
Retained(S, limit) ==
  LET chain[d \in S] ==
        LET earlier == {e \in S : e.id = d.retryOf}
        IN <<d>> \o (IF earlier = {} THEN <<>> ELSE chain[CHOOSE e \in earlier : TRUE])
      met == FlattenSeq([i \in 1..2 |->
               LET starts == NewestFirst(IF i = 1 THEN Queued(S) ELSE S)
               IN FlattenSeq([j \in DOMAIN starts |-> chain[starts[j]]])])
      settledUpTo(i) == {met[j] : j \in 1..i} \ Queued(S)
  IN IF Cardinality(S) <= limit THEN S
     ELSE {d \in S : \/ d \in Queued(S)
                     \/ \E i \in DOMAIN met : met[i] = d /\ Cardinality(settledUpTo(i)) <= limit}

Own(S, w) == {d \in S : d.webhook = w}
\* pruneCampaignWebhookLedgers, for the subscription w.
Prune(S, w) == Retained((S \ Own(S, w)) \cup Retained(Own(S, w), PerWebhook), PerCampaign)

NextAttempt(S, w, e) == Max({d.attempt : d \in {c \in Own(S, w) : c.event = e}} \cup {0}) + 1

\* createCampaignWebhookDelivery
CreateDelivery(S, id, w, e, of) ==
  Prune(S \cup {[id |-> id, webhook |-> w, event |-> e, attempt |-> NextAttempt(S, w, e),
                 status |-> "queued", retryOf |-> of]}, w)

\* A slip: a delivery is taken for the one that was queued whatever became of it.
AnyWithId(S, id) == {d \in S : d.id = id}
\* currentQueuedCampaignWebhookDelivery, as a set of at most one.
CurrentQueued(S, id) == {d \in S : d.id = id /\ d.status = "queued"}

\* completeCampaignWebhookDelivery or failCampaignWebhookDelivery, if it is
\* still queued, and the prune that follows.
Settled(S, id, status) ==
  LET d == CHOOSE d \in CurrentQueued(S, id) : TRUE
  IN IF CurrentQueued(S, id) = {} THEN S
     ELSE Prune((S \ {d}) \cup {[d EXCEPT !.status = status]}, d.webhook)
-------------------------------------------------------------------------------
(***************************************************************************)
(* Publishing: commitWebhookEvents, from the onSend hook of a gated        *)
(* request, or of a phased request or a plugin event, which nothing rolls  *)
(* back when the flush fails.                                              *)
(***************************************************************************)
Present(w) == webhooks[w].life = "present"

Enabled == {w \in Webhooks : Present(w) /\ webhooks[w].enabled}
Room == IF pending <= MaxPending THEN MaxPending - pending ELSE 0

\* prepareWebhookDispatch: the enabled subscriptions by id, as many as fit.
Recipients ==
  LET fit == IF Cardinality(Enabled) <= Room THEN Cardinality(Enabled) ELSE Room
  IN {to \in [1..fit -> Enabled] :
        \A i \in 1..fit : Cardinality({w \in Enabled : w < to[i]}) = i - 1}
Prepared(to) ==
  [automatic |-> TRUE,
   work |-> [i \in 1..Len(to) |-> [webhook |-> to[i], rev |-> webhooks[to[i]].rev, id |-> lastId + i]]]
WithPrepared(to) ==
  LET made[i \in 0..Len(to)] ==
        IF i = 0 THEN deliveries
        ELSE CreateDelivery(made[i - 1], lastId + i, to[i], lastEvent + 1, None)
  IN made[Len(to)]

IdsOf(dispatch) == {dispatch.work[j].id : j \in DOMAIN dispatch.work}
Owned == UNION {IdsOf(queue[i]) : i \in DOMAIN queue}
QueuedIds(S) == {d.id : d \in Queued(S)}
Without(n) == IF n <= pending THEN pending - n ELSE 0
Save == saved' = [webhooks |-> webhooks', deliveries |-> deliveries']
Rollback ==
  /\ webhooks' = saved.webhooks /\ deliveries' = saved.deliveries
  /\ stranded' = stranded \cup (QueuedIds(saved.deliveries) \ Owned)
Published(to) ==
  /\ lastEvent < MaxEvents /\ lastEvent' = lastEvent + 1
  /\ lastId' = lastId + Len(to)

\* The ledger is durable, then the dispatch is scheduled.
Publish(gated, to) ==
  /\ gated => staged = <<>>
  /\ Published(to) /\ deliveries' = WithPrepared(to) /\ UNCHANGED webhooks /\ Save
  /\ pending' = pending + Len(to)
  /\ queue' = IF to = <<>> THEN queue ELSE Append(queue, Prepared(to))
  /\ UNCHANGED <<staged, at, step, sends, stranded, turns>>

\* The flush fails: the reserved places are returned; a gated request is rolled
\* back with its deliveries, the others leave them queued with no dispatch.
PublishFails(gated, to) ==
  /\ TurnTaken
  /\ gated => staged = <<>>
  /\ to # <<>> /\ Published(to)
  /\ \/ gated /\ Rollback
     \/ /\ ~gated /\ deliveries' = WithPrepared(to) /\ UNCHANGED webhooks
        /\ stranded' = stranded \cup IdsOf(Prepared(to))
  /\ UNCHANGED <<saved, pending, staged, dispatcher, sends>>
-------------------------------------------------------------------------------
(***************************************************************************)
(* The management routes, each one gated request.                          *)
(***************************************************************************)
Edit(w, change) ==
  /\ TurnTaken /\ staged = <<>>
  /\ webhooks' = [webhooks EXCEPT ![w] = change] /\ UNCHANGED deliveries /\ Save
  /\ UNCHANGED <<pending, staged, dispatcher, lastId, lastEvent, history>>

CreateWebhook(w) ==
  webhooks[w].life = "absent" /\ Edit(w, [webhooks[w] EXCEPT !.life = "present", !.enabled = TRUE])
\* PATCH, and the rotation of the secret: a new revision.
UpdateWebhook(w) ==
  Present(w) /\ \E on \in BOOLEAN :
    Edit(w, [webhooks[w] EXCEPT !.enabled = on, !.rev = @ + 1])
DisableWebhook(w) ==
  Present(w) /\ Edit(w, [webhooks[w] EXCEPT !.enabled = FALSE, !.rev = @ + 1])
DeleteWebhook(w) ==
  Present(w) /\ Edit(w, [webhooks[w] EXCEPT !.life = "deleted"])

\* stageManualWebhookDispatch, for a delivery just created.
Stage(w, e, of) ==
  /\ TurnTaken /\ staged = <<>> /\ Present(w)
  /\ lastId' = lastId + 1
  /\ LET made == CreateDelivery(deliveries, lastId + 1, w, e, of)
     IN IF pending >= MaxPending
        THEN /\ deliveries' = Settled(made, lastId + 1, "failed")
             /\ UNCHANGED <<webhooks, pending, staged>> /\ Save
        ELSE /\ deliveries' = made /\ pending' = pending + 1
             /\ staged' = <<[automatic |-> FALSE,
                             work |-> <<[webhook |-> w, rev |-> webhooks[w].rev, id |-> lastId + 1]>>]>>
             /\ UNCHANGED <<webhooks, saved>>
  /\ UNCHANGED <<dispatcher, lastEvent, history>>

\* POST .../test: a delivery of an event of its own.
TestWebhook(w) == Stage(w, MaxEvents + lastId + 1, None)
\* POST .../retry: another attempt of a failed delivery.
RetryDelivery(d) ==
  /\ d \in deliveries /\ d.status = "failed"
  /\ Stage(d.webhook, d.event, d.id)

\* The onSend hook of that request: durable, then scheduled.
CommitManual ==
  /\ staged # <<>> /\ queue' = queue \o staged /\ staged' = <<>>
  /\ UNCHANGED ledger /\ Save
  /\ UNCHANGED <<pending, at, step, lastId, lastEvent, history, turns>>
CommitManualFails ==
  /\ TurnTaken
  /\ staged # <<>> /\ staged' = <<>> /\ pending' = Without(1)
  /\ Rollback
  /\ UNCHANGED <<saved, dispatcher, lastId, lastEvent, sends>>
\* Any other gated request whose flush fails.
RequestFails ==
  /\ TurnTaken /\ staged = <<>>
  /\ Rollback
  /\ UNCHANGED <<saved, pending, staged, dispatcher, lastId, lastEvent, sends>>
\* The timer of a coalesced save.
TimerFlush ==
  /\ saved # [webhooks |-> webhooks, deliveries |-> deliveries]
  /\ UNCHANGED ledger /\ Save
  /\ UNCHANGED <<pending, staged, dispatcher, lastId, lastEvent, history, turns>>
-------------------------------------------------------------------------------
(***************************************************************************)
(* The dispatcher: scheduleWebhookDispatch.                                *)
(***************************************************************************)
Work == Head(queue).work
Turn == Work[at]
Running(s) == queue # <<>> /\ step = s /\ at <= Len(Work)

\* A slip: only the subscription's existence is looked at again.
StillThere(t) == Present(t.webhook)
Unchanged(t) ==
  /\ Present(t.webhook) /\ webhooks[t.webhook].rev = t.rev
  /\ Head(queue).automatic => webhooks[t.webhook].enabled

NextTurn == at' = at + 1 /\ step' = "check" /\ UNCHANGED queue
GoTo(s) == step' = s /\ UNCHANGED <<queue, at>>
Waits == CurrentQueued(deliveries, Turn.id) # {}
Settle(status) == deliveries' = Settled(deliveries, Turn.id, status) /\ UNCHANGED webhooks
Flushes == Save /\ UNCHANGED turns
FlushFails == TurnTaken /\ UNCHANGED saved

\* Inside the gate: is the delivery still waiting, its subscription unchanged?
Check ==
  /\ Running("check") /\ staged = <<>>
  /\ \/ ~Waits /\ NextTurn /\ UNCHANGED <<ledger, saved, turns>>
     \/ Waits /\ Unchanged(Turn) /\ GoTo("resolve") /\ UNCHANGED <<ledger, saved, turns>>
     \/ /\ Waits /\ ~Unchanged(Turn) /\ Settle("failed")
        /\ (Flushes /\ NextTurn) \/ (FlushFails /\ GoTo("catch"))
  /\ UNCHANGED <<pending, staged, lastId, lastEvent, history>>

\* Outside the gate: the target is looked up and validated, then the signed
\* request leaves; or the lookup fails or takes too long.
Transmit ==
  /\ Running("resolve") /\ GoTo("answer")
  /\ sends' = sends \cup {[id |-> Turn.id, webhook |-> Turn.webhook, rev |-> Turn.rev,
                           now |-> webhooks[Turn.webhook].rev]}
  /\ UNCHANGED <<ledger, saved, pending, staged, lastId, lastEvent, stranded, turns>>
Unreachable ==
  /\ Running("resolve") /\ GoTo("answer")
  /\ UNCHANGED <<ledger, saved, pending, staged, lastId, lastEvent, history, turns>>

\* Inside the gate again: the answer, or the deadline, is recorded.
Complete(status) ==
  /\ Running("answer") /\ staged = <<>>
  /\ status = "delivered" => \E s \in sends : s.id = Turn.id
  /\ Settle(status)
  /\ \/ ~Waits /\ NextTurn /\ UNCHANGED <<saved, turns>>
     \/ Waits /\ Flushes /\ NextTurn
     \/ Waits /\ FlushFails /\ GoTo("catch")
  /\ UNCHANGED <<pending, staged, lastId, lastEvent, history>>

\* A slip: what a dispatch reserved is returned only when all of it was tried.
ReturnedIfTried == IF at > Len(Work) THEN Without(Len(Work)) ELSE pending
\* The finally clause.
Returned == Without(Len(Work))
NextDispatch(s) == queue' = Tail(queue) /\ at' = 1 /\ step' = s /\ pending' = Returned
Finish ==
  /\ queue # <<>> /\ step = "check" /\ at > Len(Work) /\ NextDispatch("check")
  /\ UNCHANGED <<ledger, saved, staged, lastId, lastEvent, history, turns>>

\* The catch clause: what is still queued is failed.
AllFailed ==
  LET after[i \in 0..Len(Work)] ==
        IF i = 0 THEN deliveries ELSE Settled(after[i - 1], Work[i].id, "failed")
  IN deliveries' = after[Len(Work)] /\ UNCHANGED webhooks
GiveUp ==
  /\ queue # <<>> /\ step = "catch" /\ staged = <<>>
  /\ AllFailed /\ Flushes /\ NextDispatch("check")
  /\ UNCHANGED <<staged, lastId, lastEvent, history>>

\* recoverInterruptedCampaignWebhookDeliveries
Interrupted(S) ==
  LET failed == {[d EXCEPT !.status = IF @ = "queued" THEN "failed" ELSE @] : d \in S}
      affected == {d.webhook : d \in Queued(S)}
      kept == {d \in failed : d.webhook \in affected => d \in Retained(Own(failed, d.webhook), PerWebhook)}
  IN IF affected = {} THEN S ELSE Retained(kept, PerCampaign)
Restart ==
  /\ webhooks' = saved.webhooks /\ deliveries' = Interrupted(saved.deliveries)
  /\ pending' = 0 /\ staged' = <<>> /\ queue' = <<>> /\ at' = 1 /\ step' = "check"
  /\ UNCHANGED <<saved, lastId, lastEvent, history>>

\* The flush of the catch clause fails: its rejection reaches the catch of the
\* dispatch chained behind it, which then sends nothing; with none behind it,
\* it is an unhandled rejection and ends the process.
GiveUpFails ==
  /\ queue # <<>> /\ step = "catch" /\ staged = <<>>
  /\ TurnTaken
  /\ IF Len(queue) > 1
     THEN /\ AllFailed /\ NextDispatch("catch")
          /\ UNCHANGED <<saved, staged, lastId, lastEvent, history>>
     ELSE Restart
Crash ==
  TurnTaken /\ Restart

Dispatch ==
  \/ Check \/ Transmit \/ Unreachable \/ Finish \/ GiveUp
  \/ \E status \in {"delivered", "failed"} : Complete(status)
Manage ==
  \E w \in Webhooks :
    CreateWebhook(w) \/ UpdateWebhook(w) \/ DisableWebhook(w) \/ DeleteWebhook(w) \/ TestWebhook(w)
Next ==
  \/ \E gated \in BOOLEAN, to \in Recipients : Publish(gated, to) \/ PublishFails(gated, to)
  \/ Manage \/ (\E d \in deliveries : RetryDelivery(d))
  \/ CommitManual \/ CommitManualFails \/ RequestFails \/ TimerFlush
  \/ Dispatch \/ GiveUpFails \/ Crash

Spec == Init /\ [][Next]_vars
\* When Dispatch is enabled.
CanDispatch == queue # <<>> /\ (staged = <<>> \/ step = "resolve" \/ (step = "check" /\ at > Len(Work)))
\* The promise chain always goes on (weak fairness of Dispatch, its ENABLED
\* written out): the transport has a deadline and the gate serves its waiters in
\* order.  A request that staged a delivery ends.
FairSpec == Spec /\ ([]<>~CanDispatch \/ []<><<Dispatch>>_dispatcher) /\ WF_staged(CommitManual)
-------------------------------------------------------------------------------
\* The places taken in the queue are those of deliveries that are staged or
\* scheduled, on every path out of a dispatch (prepareWebhookDispatch, the
\* catch of commitWebhookEvents, the finally of scheduleWebhookDispatch): the
\* cap neither leaks away nor is exceeded.
Staged == UNION {IdsOf(staged[i]) : i \in DOMAIN staged}
PendingIsReserved == pending = Cardinality(Owned \cup Staged) /\ pending <= MaxPending

\* Every queued delivery of the ledger is the work of a dispatch still to come, so that none
\* waits for ever, but for those a failed flush stranded; and a scheduled delivery whose turn
\* is to come is in the ledger, queued, however much pruning, editing and rolling back went on.
QueuedIsOwned == QueuedIds(deliveries) \subseteq Owned \cup Staged \cup stranded
WorkIsQueued ==
  \A i \in DOMAIN queue : \A j \in DOMAIN queue[i].work :
    (i > 1 \/ j > at \/ (j = at /\ step # "catch"))
       => queue[i].work[j].id \in QueuedIds(deliveries)
LedgerMeetsQueue == TypeOK /\ QueuedIsOwned /\ WorkIsQueued

\* Within one change of a subscription at most the request already past its
\* check leaves under the older configuration (URL, secret); after that none.
AtMostOneStaleSend ==
  \A s, t \in sends : (s.webhook = t.webhook /\ s.rev = t.rev /\ s.rev < s.now /\ t.rev < t.now) => s = t

\* A durable outcome is final: neither a late answer, nor the catch clause, nor
\* a restart changes it.
DurableOutcomeIsFinal ==
  [][\A d \in saved.deliveries, e \in saved'.deliveries :
       d.id = e.id => d.status \in {"queued", e.status}]_saved

\* Again and again every place in the queue has been returned and every delivery
\* has its outcome, whatever the receivers do: a slow or dead one cannot shut
\* deliveries off.
EverythingSettles == []<>(pending = 0 /\ QueuedIds(deliveries) \subseteq stranded)
===============================================================================
