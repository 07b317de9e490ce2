------------------------------- MODULE JobLease -------------------------------
(***************************************************************************)
(* The job ledger of the API server (apps/api/src/admin-job-operations.ts, *)
(* worker-identity.ts and the /admin/jobs routes of app.ts) and the        *)
(* workers that lease jobs from it over HTTP (apps/worker/src/index.ts).   *)
(*                                                                         *)
(* A route of the ledger is one step: the durable mutation gate runs them  *)
(* one at a time and makes each durable before it answers (module          *)
(* MutationPipeline).  Only a dispatch, which works between its claim and  *)
(* its end, is two; it holds the gate between them unless its route is     *)
(* phased.  Calls and answers are lost, calls arrive late, and time        *)
(* passes, also while the gate is held: a lease that is not extended       *)
(* expires.                                                                *)
(***************************************************************************)
EXTENDS Naturals, Sequences

CONSTANTS
  Jobs, Workers, None,
  Types,        \* job types, each with the one route that does its work
  PhasedTypes,  \* those whose route runs outside the gate (AI and backup routes)
  MaxAttempts,  \* WorkerJobRecord.maxAttempts
  MaxFaults,    \* bound on calls or answers that time out, and on workers killed
  MaxForgets,   \* bound on idempotency records that are evicted
  MaxAdmin      \* bound on what server admins do to jobs

ASSUME JobLeaseAssumption ==
  /\ None \notin Workers /\ None \notin Jobs /\ PhasedTypes \subseteq Types
  /\ {MaxAttempts, MaxFaults, MaxForgets, MaxAdmin} \subseteq Nat

VARIABLES
  jobs,      \* EngineState.jobs
  order,     \* pairs of jobs, the one queued earlier first (queuedAt)
  records,   \* idempotency records of lease requests: request -> job and revision
  claims,    \* every lease that was granted, under which request
  effects,   \* dispatches that took effect, with the idempotency record of each
  executing, \* dispatches in progress
  settler,   \* the worker that settled a job, None when an admin did
  pc,        \* where runLeasedWorkerJob is, named for the call it awaits
  call,      \* what became of that call
  cur,       \* the job and leaseRevision the worker was given
  req,       \* the worker's current leaseRequestId
  strays,    \* calls still under way that nobody awaits
  faults, forgets, adminOps

ledger == <<jobs, order, records, claims, effects, executing, settler>>
worker == <<pc, call, cur, req>>
bounds == <<faults, forgets, adminOps>>
vars == <<jobs, order, records, claims, effects, executing, settler, pc, call, cur, req, strays,
          faults, forgets, adminOps>>

Terminal == {"succeeded", "failed", "cancelled"}
Statuses == {"absent", "queued", "running"} \cup Terminal
Requests == (Workers \cup {None}) \X Nat
Kinds == {"lease", "start", "dispatch", "succeed", "fail"}
Revisions == 0..MaxAttempts
Grants == [job : Jobs \cup {None}, rev : Revisions]
Calls == [kind : Kinds, worker : Workers, job : Jobs \cup {None}, rev : Revisions, id : Requests]
NoGrant == [job |-> None, rev |-> 0]
\* leaseExpiresAt: absent, in the future or in the past.
WorkerJobRecord ==
  [type : Types, status : Statuses, attempts : 0..MaxAttempts, leasedBy : Workers \cup {None},
   leaseRequestId : Requests, leaseRevision : Revisions, lease : {"none", "live", "past"},
   dispatchStarted : BOOLEAN]

LedgerTypeOK ==
  /\ jobs \in [Jobs -> WorkerJobRecord] /\ order \subseteq Jobs \X Jobs
  /\ records \subseteq [id : Requests, job : Jobs \cup {None}, rev : Revisions]
  /\ claims \subseteq [id : Requests, job : Jobs, rev : Revisions]
  /\ effects \in Seq([worker : Workers, job : Jobs, rev : Revisions])
  /\ executing \subseteq Calls
  /\ settler \in [Jobs -> Workers \cup {None}]
WorkerTypeOK ==
  /\ pc \in [Workers -> Kinds \cup {"idle"}]
  /\ call \in [Workers -> {"none", "sent", "executing", "ok", "refused"}]
  /\ cur \in [Workers -> Grants] /\ req \in [Workers -> Nat]
  /\ strays \subseteq Calls
BoundsTypeOK ==
  /\ faults \in 0..MaxFaults /\ forgets \in 0..MaxForgets /\ adminOps \in 0..MaxAdmin
TypeOK == LedgerTypeOK /\ WorkerTypeOK /\ BoundsTypeOK

Init ==
  /\ \E typeOf \in [Jobs -> Types] :
       jobs = [j \in Jobs |-> [type |-> typeOf[j], status |-> "absent", attempts |-> 0, leasedBy |-> None,
                               leaseRequestId |-> <<None, 0>>, leaseRevision |-> 0, lease |-> "none",
                               dispatchStarted |-> FALSE]]
  /\ order = {} /\ records = {} /\ claims = {} /\ effects = <<>> /\ executing = {}
  /\ settler = [j \in Jobs |-> None]
  /\ pc = [w \in Workers |-> "idle"] /\ call = [w \in Workers |-> "none"]
  /\ cur = [w \in Workers |-> NoGrant] /\ req = [w \in Workers |-> 1]
  /\ strays = {} /\ faults = 0 /\ forgets = 0 /\ adminOps = 0
-------------------------------------------------------------------------------
(***************************************************************************)
(* Calls on their way to the server.                                       *)
(***************************************************************************)
Call(w) == [kind |-> pc[w], worker |-> w, job |-> cur[w].job, rev |-> cur[w].rev, id |-> <<w, req[w]>>]
Awaited(c) == call[c.worker] \in {"sent", "executing"} /\ c = Call(c.worker)
InTransit == strays \cup {Call(w) : w \in {v \in Workers : call[v] = "sent"}}

\* The server is done with a call: the worker that awaits it gets the answer.
Answer(c, a) ==
  \/ /\ Awaited(c) /\ call' = [call EXCEPT ![c.worker] = a] /\ UNCHANGED strays
  \/ /\ c \in strays /\ strays' = strays \ {c} /\ UNCHANGED call

Phased(j) == jobs[j].type \in PhasedTypes
\* A slip: a dispatch gives the gate back while it works.
NeverHeld == FALSE
\* The route of a dispatch that is not phased holds the durable mutation gate
\* while it works: no other route of the ledger is served.
GateHeld == \E d \in executing : ~Phased(d.job)

\* A slip: only the lease's holder is compared, not its revision.
ActiveByHolder(j, w, rev) ==
  jobs[j].status = "running" /\ jobs[j].leasedBy = w /\ jobs[j].lease = "live"
\* activeWorkerLeaseError: what a worker presents is the job's unexpired lease.
Active(j, w, rev) ==
  /\ jobs[j].status = "running" /\ jobs[j].leasedBy = w
  /\ jobs[j].leaseRevision = rev /\ jobs[j].lease = "live"
-------------------------------------------------------------------------------
(***************************************************************************)
(* POST /admin/jobs/lease.                                                 *)
(***************************************************************************)

\* A slip: a job whose worker is gone stays with it.
QueuedOnly == {j \in Jobs : jobs[j].attempts < MaxAttempts /\ jobs[j].status = "queued"}
\* Jobs with attempts left that wait, or whose lease has expired.
Candidates ==
  {j \in Jobs : /\ jobs[j].attempts < MaxAttempts
                /\ jobs[j].status = "queued" \/ (jobs[j].status = "running" /\ jobs[j].lease = "past")}
IsOldest(j, S) == \A i \in S \ {j} : <<j, i>> \in order

Grant(c, j, rev) ==
  /\ Answer(c, "ok")
  /\ cur' = IF Awaited(c) /\ call' # call
            THEN [cur EXCEPT ![c.worker] = [job |-> j, rev |-> rev]] ELSE cur
Recorded(c) == {k \in records : k.id = c.id}
Record(c, j, rev) == records' = records \cup {[id |-> c.id, job |-> j, rev |-> rev]}

\* The lease request was answered before: its idempotency record is replayed.
ReplayLease(c) ==
  /\ c.kind = "lease"
  /\ \E k \in Recorded(c) : IF k.job = None THEN Answer(c, "refused") /\ UNCHANGED cur
                            ELSE Grant(c, k.job, k.rev)
  /\ UNCHANGED <<ledger, pc, req, bounds>>

\* A slip: the ledger does not look for the request among its leases.
NoneLeasedUnder(c) == {}
LeasedUnder(c) == {j \in Jobs : jobs[j].leaseRequestId = c.id}

\* leaseNextAdminJob: the lease this request already took, or the oldest
\* candidate under a new revision, or nothing (204).
LeaseNextAdminJob(c) ==
  /\ c.kind = "lease" /\ Recorded(c) = {}
  /\ \/ \E j \in LeasedUnder(c) :
          /\ IF jobs[j].leasedBy = c.worker
             THEN Grant(c, j, jobs[j].leaseRevision) /\ Record(c, j, jobs[j].leaseRevision)
             ELSE Answer(c, "refused") /\ UNCHANGED <<cur, records>>
          /\ UNCHANGED <<jobs, claims>>
     \/ \E j \in Candidates :
        /\ LeasedUnder(c) = {} /\ IsOldest(j, Candidates)
        /\ LET rev == jobs[j].leaseRevision + 1
           IN /\ jobs' = [jobs EXCEPT ![j].status = "running", ![j].attempts = @ + 1,
                                      ![j].leasedBy = c.worker, ![j].leaseRequestId = c.id,
                                      ![j].leaseRevision = rev, ![j].lease = "live",
                                      ![j].dispatchStarted = FALSE]
              /\ claims' = claims \cup {[id |-> c.id, job |-> j, rev |-> rev]}
              /\ Grant(c, j, rev) /\ Record(c, j, rev)
     \/ /\ LeasedUnder(c) = {} /\ Candidates = {}
        /\ Answer(c, "refused") /\ Record(c, None, 0) /\ UNCHANGED <<jobs, claims, cur>>
  /\ UNCHANGED <<order, effects, executing, settler, pc, req, bounds>>
-------------------------------------------------------------------------------
(***************************************************************************)
(* Heartbeat, dispatch and settlement.                                     *)
(***************************************************************************)

\* POST .../heartbeat: an active lease is extended (it stays live).
Heartbeat(c) ==
  /\ c.kind = "start"
  /\ Answer(c, IF Active(c.job, c.worker, c.rev) THEN "ok" ELSE "refused")
  /\ UNCHANGED <<ledger, pc, cur, req, bounds>>

\* A slip: the dispatch carries a fresh idempotency key.
NeverReplayed(c) == FALSE
\* The dispatch's idempotency key is made of the job and its route: a worker's
\* later dispatch of the job replays the answer of an earlier one.
Replayable(c) == \E n \in DOMAIN effects : effects[n].worker = c.worker /\ effects[n].job = c.job

MayClaim(c) == Active(c.job, c.worker, c.rev) /\ ~jobs[c.job].dispatchStarted
TakesEffect(c) ==
  effects' = Append(effects, [worker |-> c.worker, job |-> c.job, rev |-> c.rev])

\* authorizeWorkerDispatchRoute: replay, refuse, or claim the lease's one dispatch
\* and begin the work.
Dispatch(c) ==
  /\ c.kind = "dispatch"
  /\ ~\E d \in executing : d.worker = c.worker /\ d.job = c.job
  /\ \/ Replayable(c) /\ Answer(c, "ok") /\ UNCHANGED <<jobs, executing>>
     \/ ~Replayable(c) /\ ~MayClaim(c) /\ Answer(c, "refused") /\ UNCHANGED <<jobs, executing>>
     \/ /\ ~Replayable(c) /\ MayClaim(c) /\ Answer(c, "executing")
        /\ jobs' = [jobs EXCEPT ![c.job].dispatchStarted = TRUE]
        /\ executing' = executing \cup {c}
  /\ UNCHANGED <<order, records, claims, effects, settler, pc, cur, req, bounds>>

\* The worker gets the dispatch's answer if it still waits for it.
Ends(c, a) == call' = IF Awaited(c) THEN [call EXCEPT ![c.worker] = a] ELSE call

\* A dispatch commits its result, is refused by its route, or throws or is
\* aborted.  A phased one commits inside the gate; its claim is durable since it
\* began.  Of a gated one that throws or is aborted nothing is left, nor its claim.
FinishDispatch(c) ==
  /\ c \in executing /\ executing' = executing \ {c}
  /\ Phased(c.job) => ~GateHeld
  /\ \/ TakesEffect(c) /\ Ends(c, "ok") /\ UNCHANGED jobs
     \/ Ends(c, "refused") /\ UNCHANGED <<jobs, effects>>
     \/ /\ ~Phased(c.job) /\ Ends(c, "refused") /\ UNCHANGED effects
        /\ jobs' = [jobs EXCEPT ![c.job].dispatchStarted = FALSE]
  /\ UNCHANGED <<order, records, claims, settler, pc, cur, req, strays, bounds>>

MaySettle(c) ==
  Active(c.job, c.worker, c.rev) /\ (c.kind = "succeed" => jobs[c.job].dispatchStarted)

\* PATCH by a worker.
Settle(c) ==
  /\ c.kind \in {"succeed", "fail"}
  /\ IF MaySettle(c)
     THEN /\ jobs' = [jobs EXCEPT ![c.job].status = IF c.kind = "succeed" THEN "succeeded" ELSE "failed",
                                  ![c.job].leasedBy = None, ![c.job].lease = "none"]
          /\ settler' = [settler EXCEPT ![c.job] = c.worker]
          /\ Answer(c, "ok")
     ELSE Answer(c, "refused") /\ UNCHANGED <<jobs, settler>>
  /\ UNCHANGED <<order, records, claims, effects, executing, pc, cur, req, bounds>>

Serve(c) ==
  /\ c \in InTransit /\ ~GateHeld
  /\ ReplayLease(c) \/ LeaseNextAdminJob(c) \/ Heartbeat(c) \/ Dispatch(c) \/ Settle(c)
-------------------------------------------------------------------------------
(***************************************************************************)
(* The worker: runLeasedWorkerLoop and runLeasedWorkerJob.                 *)
(***************************************************************************)

\* What a worker does after a call that succeeded, and after one that threw.
AfterSuccess == [lease |-> "start", start |-> "dispatch", dispatch |-> "succeed",
                 succeed |-> "idle", fail |-> "idle"]
AfterError == [lease |-> "idle", start |-> "fail", dispatch |-> "fail",
               succeed |-> "fail", fail |-> "idle"]
Enter(w, next) ==
  /\ pc' = [pc EXCEPT ![w] = next]
  /\ call' = [call EXCEPT ![w] = IF next = "idle" THEN "none" ELSE "sent"]
\* The call nobody waits for any more is lost, or arrives some time.  A late
\* heartbeat changes nothing but the expiry of a lease that is live.
LetGo(w) ==
  \/ UNCHANGED strays
  \/ call[w] = "sent" /\ pc[w] # "start" /\ strays' = strays \cup {Call(w)}
Fault == faults < MaxFaults /\ faults' = faults + 1
Drop(w) == cur' = [cur EXCEPT ![w] = NoGrant] /\ req' = [req EXCEPT ![w] = @ + 1]

\* The loop polls for its next job.
Poll(w) ==
  /\ pc[w] = "idle" /\ Enter(w, "lease")
  /\ UNCHANGED <<ledger, cur, req, strays, bounds>>

\* An answer arrives.  The number of a request that got no job, and is not under
\* way any more, is used again: its worker never sends it again.
Receive(w) ==
  /\ call[w] \in {"ok", "refused"}
  /\ LET next == IF call[w] = "ok" THEN AfterSuccess[pc[w]] ELSE AfterError[pc[w]]
         id == <<w, req[w]>>
     IN /\ Enter(w, next)
        /\ IF next # "idle" THEN UNCHANGED <<cur, req, records>>
           ELSE IF pc[w] = "lease" /\ ~\E c \in strays : c.id = id
           THEN records' = {k \in records : k.id # id} /\ UNCHANGED <<cur, req>>
           ELSE Drop(w) /\ UNCHANGED records
  /\ UNCHANGED <<jobs, order, claims, effects, executing, settler, strays, bounds>>

\* A call or its answer times out.  A lease request may be sent again as it is.
TimeOut(w) ==
  /\ pc[w] # "idle" /\ Fault
  /\ LetGo(w)
  /\ \/ /\ pc[w] = "lease" /\ Enter(w, "lease") /\ UNCHANGED <<cur, req>>
     \/ /\ Enter(w, AfterError[pc[w]])
        /\ IF AfterError[pc[w]] = "idle" THEN Drop(w) ELSE UNCHANGED <<cur, req>>
  /\ UNCHANGED <<ledger, forgets, adminOps>>

\* The heartbeat monitor beats while the dispatch runs (behind the gate, when the
\* dispatch holds it); when a beat is refused or lost, the worker aborts the
\* dispatch and leaves the job unsettled.
Abandon(w) ==
  /\ pc[w] = "dispatch"
  /\ \/ ~GateHeld /\ ~Active(cur[w].job, w, cur[w].rev) /\ UNCHANGED faults
     \/ Fault
  /\ LetGo(w) /\ Enter(w, "idle") /\ Drop(w)
  /\ UNCHANGED <<ledger, forgets, adminOps>>

\* The worker is killed and starts again under the same identity.
WorkerCrash(w) ==
  /\ pc[w] # "idle" /\ Fault
  /\ LetGo(w) /\ Enter(w, "idle") /\ Drop(w)
  /\ UNCHANGED <<ledger, forgets, adminOps>>
-------------------------------------------------------------------------------
(***************************************************************************)
(* Time, eviction and server admins.  An admin's call carries the job's    *)
(* updatedAt; one that is stale changes nothing.                           *)
(***************************************************************************)
Expire(j) ==
  /\ jobs[j].lease = "live" /\ jobs' = [jobs EXCEPT ![j].lease = "past"]
  /\ UNCHANGED <<order, records, claims, effects, executing, settler, worker, strays, bounds>>

\* IDEMPOTENCY_MAX_RECORDS: an old record makes way for newer ones.  It matters
\* when a call with its key is still to arrive.
Forget ==
  /\ forgets < MaxForgets /\ forgets' = forgets + 1
  /\ \E c \in InTransit : c.kind = "lease" /\ Recorded(c) # {} /\ records' = records \ Recorded(c)
  /\ UNCHANGED <<jobs, order, claims, effects, executing, settler, worker, strays, faults, adminOps>>

\* The job is queued now, later than all others.
ToBack(j) ==
  {p \in order : j \notin {p[1], p[2]}}
    \cup {<<i, j>> : i \in {k \in Jobs \ {j} : jobs[k].status # "absent"}}
Create(j) ==
  /\ jobs[j].status = "absent" /\ ~GateHeld
  /\ jobs' = [jobs EXCEPT ![j].status = "queued"] /\ order' = ToBack(j)
  /\ UNCHANGED <<records, claims, effects, executing, settler, worker, strays, bounds>>

\* What every admin action on a job has in common.
AdminChange(j, record) ==
  /\ ~GateHeld /\ adminOps < MaxAdmin /\ adminOps' = adminOps + 1
  /\ jobs' = [jobs EXCEPT ![j] = record]
  /\ settler' = [settler EXCEPT ![j] = None]
  /\ UNCHANGED <<records, claims, effects, executing, worker, strays, faults, forgets>>

\* PATCH by an admin: transitionAdminJob, which starts a job without a lease.
AdminStart(j) ==
  /\ jobs[j].status = "queued" /\ jobs[j].attempts < MaxAttempts
  /\ AdminChange(j, [jobs[j] EXCEPT !.status = "running", !.attempts = @ + 1]) /\ UNCHANGED order
AdminEnd(j) ==
  /\ \E s \in Terminal :
       /\ jobs[j].status = "running" \/ (jobs[j].status = "queued" /\ s = "cancelled")
       /\ AdminChange(j, [jobs[j] EXCEPT !.status = s, !.leasedBy = None, !.lease = "none"])
  /\ UNCHANGED order

\* POST .../heartbeat by an admin extends any running job's lease, also one that
\* has expired.
AdminHeartbeat(j) ==
  /\ jobs[j].status = "running"
  /\ AdminChange(j, [jobs[j] EXCEPT !.lease = "live"]) /\ UNCHANGED order

\* What retry and cancel have in common.
Requeued(record) ==
  [record EXCEPT !.status = "queued", !.leasedBy = None, !.lease = "none", !.dispatchStarted = FALSE]
AdminRetry(j) ==
  /\ jobs[j].status \in {"failed", "cancelled"} /\ jobs[j].attempts < MaxAttempts
  /\ AdminChange(j, Requeued(jobs[j]))
  /\ order' = ToBack(j)

AdminCancel(j) ==
  /\ jobs[j].status \in {"queued", "running"}
  /\ AdminChange(j, [Requeued(jobs[j]) EXCEPT !.status = "cancelled"]) /\ UNCHANGED order

Admin(j) == AdminStart(j) \/ AdminEnd(j) \/ AdminHeartbeat(j) \/ AdminRetry(j) \/ AdminCancel(j)

Next ==
  \/ \E c \in InTransit : Serve(c)
  \/ \E c \in executing : FinishDispatch(c)
  \/ \E w \in Workers : Poll(w) \/ Receive(w) \/ TimeOut(w) \/ Abandon(w) \/ WorkerCrash(w)
  \/ \E j \in Jobs : Create(j) \/ Expire(j) \/ Admin(j)
  \/ Forget

Spec == Init /\ [][Next]_vars

\* Time passes, calls are served, dispatches end, and workers keep polling.
Fairness ==
  /\ \A w \in Workers :
       /\ WF_vars(Poll(w)) /\ WF_vars(Receive(w)) /\ WF_vars(call[w] = "sent" /\ Serve(Call(w)))
       /\ WF_vars(\E c \in executing : c.worker = w /\ FinishDispatch(c))
  /\ \A j \in Jobs : WF_vars(Expire(j))
FairSpec == Spec /\ Fairness
-------------------------------------------------------------------------------
(***************************************************************************)
(* Properties.                                                             *)
(***************************************************************************)

\* A lease request that is sent again does not take a second job or attempt, as
\* long as its first lease was not superseded: the idempotency record, and when
\* it is evicted leaseRequestId on the job (leaseNextAdminJob).
RepeatedLeaseClaimsOnce ==
  \A a, b \in claims : a.id = b.id /\ a # b =>
    a.rev < jobs[a.job].leaseRevision \/ b.rev < jobs[b.job].leaseRevision

\* A job a worker settled as succeeded was dispatched, with effect, under the
\* very lease that settled it, whatever older calls arrived late.
SucceededMeansDispatched ==
  TypeOK /\ \A j \in Jobs : jobs[j].status = "succeeded" /\ settler[j] # None =>
    \E n \in DOMAIN effects :
      effects[n] = [worker |-> settler[j], job |-> j, rev |-> jobs[j].leaseRevision]

\* However often a worker leases and dispatches a job, its work takes effect
\* once: expired leases, late calls, retries by an admin.
OneEffectPerWorker ==
  \A m, n \in DOMAIN effects :
    effects[m].worker = effects[n].worker /\ effects[m].job = effects[n].job => m = n

\* Work done inside the gate takes effect under the lease that claimed it, while
\* its job still runs for that worker and nobody was given a newer one, however
\* long it took: the lease may have expired by then, but whoever would be given
\* the job, settle or cancel it waits for the gate (authorizeWorkerDispatchRoute).
DispatchUnderLease ==
  [][\A n \in DOMAIN effects' \ DOMAIN effects :
       LET e == effects'[n] IN
         ~Phased(e.job) =>
           /\ jobs[e.job].status = "running" /\ jobs[e.job].leasedBy = e.worker
           /\ jobs[e.job].dispatchStarted
           /\ \A k \in claims : k.job = e.job => k.rev <= e.rev]_vars

\* A dispatch that a worker saw succeed is one the ledger has a claim of, as long
\* as the worker's lease is live.
AnsweredDispatchIsClaimed ==
  \A w \in Workers :
    pc[w] = "succeed" /\ Active(cur[w].job, w, cur[w].rev) => jobs[cur[w].job].dispatchStarted

\* Nobody gives such a job back: its attempts are used up and its lease is over,
\* or an admin started it without one.
Stranded(j) ==
  jobs[j].status = "running" /\
    (jobs[j].lease = "none" \/ (jobs[j].attempts = MaxAttempts /\ jobs[j].lease = "past"))

\* Every job that is created is settled in the end, or needs an admin: leases
\* that expire are handed on, oldest job first.
EveryJobEnds ==
  \A j \in Jobs : jobs[j].status # "absent" ~> jobs[j].status \in Terminal \/ Stranded(j)
===============================================================================
