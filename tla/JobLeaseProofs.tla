---------------------------- MODULE JobLeaseProofs ----------------------------
(***************************************************************************)
(* Proofs about JobLease, for any number of jobs, workers, attempts, lost  *)
(* calls, evicted records and actions of admins.                           *)
(***************************************************************************)
EXTENDS JobLease, TLAPS

-------------------------------------------------------------------------------
(***************************************************************************)
(* Types, and what a worker and a call carry at each point.                *)
(***************************************************************************)

\* A worker that is past its lease request has a job, and so has its call.
WorkerWell(w) ==
  /\ call[w] = "none" <=> pc[w] = "idle"
  /\ call[w] = "executing" => pc[w] = "dispatch"
  /\ pc[w] \notin {"idle", "lease"} \/ (pc[w] = "lease" /\ call[w] = "ok") => cur[w].job \in Jobs
CallWell(c) == c.kind # "lease" => c.job \in Jobs

TypeInv ==
  /\ TypeOK
  /\ \A w \in Workers : WorkerWell(w)
  /\ \A c \in strays \cup executing : CallWell(c)
  /\ \A c \in executing : c.kind = "dispatch"
  /\ \A j \in Jobs : jobs[j].leaseRevision <= jobs[j].attempts

\* What is under way is a well-formed call.
LEMMA TransitType ==
  ASSUME TypeInv, NEW c \in InTransit
  PROVE  c \in Calls /\ CallWell(c) /\ c.worker \in Workers /\ c.id \in Requests
<1>1. CASE c \in strays
  BY <1>1 DEF TypeInv, TypeOK, WorkerTypeOK, Calls
<1>2. ASSUME NEW w \in Workers, call[w] = "sent", c = Call(w)
      PROVE  c \in Calls /\ CallWell(c) /\ c.worker \in Workers /\ c.id \in Requests
  <2>1. pc[w] \in Kinds /\ (pc[w] # "lease" => cur[w].job \in Jobs)
    BY <1>2 DEF TypeInv, TypeOK, WorkerTypeOK, WorkerWell
  <2>2. cur[w] \in Grants /\ req[w] \in Nat
    BY DEF TypeInv, TypeOK, WorkerTypeOK
  <2> QED
    BY <1>2, <2>1, <2>2 DEF Calls, Call, CallWell, Grants, Requests
<1> QED
  BY <1>1, <1>2 DEF InTransit

\* An answer reaches the worker that awaits the call, or the call is forgotten.
LEMMA AnswerStep ==
  ASSUME TypeInv, NEW c \in InTransit, NEW a, Answer(c, a)
  PROVE  /\ strays' \subseteq strays
         /\ call' = call \/ (call' = [call EXCEPT ![c.worker] = a] /\ Awaited(c))
         /\ \A w \in Workers : call'[w] # call[w] => w = c.worker /\ c = Call(w) /\ call'[w] = a
BY TransitType DEF Answer, Awaited, TypeInv, TypeOK, WorkerTypeOK

\* The lease of a job is granted: the worker that awaits it has the job.
LEMMA GrantStep ==
  ASSUME TypeInv, NEW c \in InTransit, c.kind = "lease", NEW j \in Jobs, NEW rev \in Revisions,
         Grant(c, j, rev), UNCHANGED <<pc, req>>
  PROVE  /\ WorkerTypeOK' /\ \A w \in Workers : WorkerWell(w)'
         /\ strays' \subseteq strays
         /\ \A w \in Workers : call'[w] = call[w] => cur'[w] = cur[w]
         /\ \A w \in Workers : call'[w] # call[w] => pc[w] = "lease" /\ call'[w] = "ok"
<1> DEFINE g == [job |-> j, rev |-> rev]
<1>1. g \in Grants /\ g.job \in Jobs
  BY DEF Grants
<1>2. /\ strays' \subseteq strays
      /\ call' = call \/ (call' = [call EXCEPT ![c.worker] = "ok"] /\ Awaited(c))
  BY AnswerStep DEF Grant
<1>3. Awaited(c) => c = Call(c.worker) /\ pc[c.worker] = "lease"
  BY DEF Awaited, Call
<1>4. c.worker \in Workers
  BY TransitType
<1>5. /\ call' \in [Workers -> {"none", "sent", "executing", "ok", "refused"}]
      /\ cur' \in [Workers -> Grants]
  BY <1>1, <1>2, <1>4 DEF Grant, TypeInv, TypeOK, WorkerTypeOK
<1>6. CASE call' = call
  BY <1>2, <1>5, <1>6 DEF Grant, TypeInv, TypeOK, WorkerTypeOK, WorkerWell
<1>7. CASE call' # call
  <2>1. /\ Awaited(c) /\ call' = [call EXCEPT ![c.worker] = "ok"]
        /\ cur' = [cur EXCEPT ![c.worker] = g]
    BY <1>2, <1>7 DEF Grant
  <2>2. cur'[c.worker] = g /\ call'[c.worker] = "ok" /\ pc[c.worker] = "lease"
    BY <1>3, <1>4, <2>1 DEF TypeInv, TypeOK, WorkerTypeOK
  <2>3. \A w \in Workers : w # c.worker => cur'[w] = cur[w] /\ call'[w] = call[w]
    BY <2>1 DEF TypeInv, TypeOK, WorkerTypeOK
  <2> HIDE DEF g
  <2>5. call[c.worker] # "ok"
    BY <2>1 DEF Awaited
  <2>4. \A w \in Workers : WorkerWell(w)'
    BY <1>1, <2>2, <2>3 DEF TypeInv, WorkerWell
  <2> QED
    BY <1>2, <1>5, <2>2, <2>3, <2>4, <2>5 DEF TypeInv, TypeOK, WorkerTypeOK
<1> QED
  BY <1>6, <1>7

\* Any other answer leaves the worker's job as it is.
LEMMA OtherAnswer ==
  ASSUME TypeInv, NEW c \in InTransit, NEW a \in {"ok", "refused", "executing"}, Answer(c, a),
         c.kind = "lease" => a = "refused", a = "executing" => c.kind = "dispatch",
         UNCHANGED <<pc, cur, req>>
  PROVE  /\ WorkerTypeOK' /\ \A w \in Workers : WorkerWell(w)'
         /\ strays' \subseteq strays
<1>1. /\ strays' \subseteq strays
      /\ call' = call \/ (call' = [call EXCEPT ![c.worker] = a] /\ Awaited(c))
  BY AnswerStep
<1>2. WorkerTypeOK'
  BY <1>1, TransitType DEF TypeInv, TypeOK, WorkerTypeOK
<1>3. CASE call' = call
  BY <1>1, <1>2, <1>3 DEF TypeInv, WorkerWell
<1>4. CASE call' = [call EXCEPT ![c.worker] = a] /\ Awaited(c)
  <2>1. c.kind = pc[c.worker] /\ call[c.worker] # "none" /\ c.worker \in Workers
    BY <1>4, TransitType DEF Awaited, Call
  <2>2. call'[c.worker] = a /\ \A w \in Workers : w # c.worker => call'[w] = call[w]
    BY <1>4, <2>1 DEF TypeInv, TypeOK, WorkerTypeOK
  <2> QED
    BY <1>1, <1>2, <2>1, <2>2 DEF TypeInv, WorkerWell
<1> QED
  BY <1>1, <1>3, <1>4

\* A worker goes on to its next call; it is idle, or asks for a lease, or has a
\* job.
LEMMA EnterStep ==
  ASSUME TypeInv, NEW w \in Workers, NEW next \in Kinds \cup {"idle"}, Enter(w, next),
         \A v \in Workers : v # w => cur'[v] = cur[v],
         cur' \in [Workers -> Grants], req' \in [Workers -> Nat],
         next \notin {"idle", "lease"} => cur'[w].job \in Jobs,
         UNCHANGED strays \/ LetGo(w)
  PROVE  /\ WorkerTypeOK' /\ \A v \in Workers : WorkerWell(v)'
         /\ \A c \in strays' : CallWell(c)
<1>1. strays' \subseteq Calls /\ \A c \in strays' : CallWell(c)
  <2>1. CASE UNCHANGED strays
    BY <2>1 DEF TypeInv, TypeOK, WorkerTypeOK
  <2>2. CASE strays' = strays \cup {Call(w)} /\ call[w] = "sent"
    <3>1. Call(w) \in InTransit
      BY <2>2 DEF InTransit
    <3> QED
      BY <2>2, <3>1, TransitType DEF TypeInv, TypeOK, WorkerTypeOK
  <2> QED
    BY <2>1, <2>2 DEF LetGo
<1>2. /\ pc'[w] = next /\ call'[w] = IF next = "idle" THEN "none" ELSE "sent"
      /\ \A v \in Workers : v # w => pc'[v] = pc[v] /\ call'[v] = call[v]
      /\ pc' \in [Workers -> Kinds \cup {"idle"}]
      /\ call' \in [Workers -> {"none", "sent", "executing", "ok", "refused"}]
  BY DEF Enter, TypeInv, TypeOK, WorkerTypeOK
<1>3. \A v \in Workers : WorkerWell(v)'
  BY <1>2 DEF TypeInv, WorkerWell
<1> QED
  BY <1>1, <1>2, <1>3 DEF WorkerTypeOK

\* A dropped job leaves the worker well-formed.
LEMMA DropType ==
  ASSUME TypeInv, NEW w \in Workers, Drop(w)
  PROVE  /\ cur' \in [Workers -> Grants] /\ req' \in [Workers -> Nat]
         /\ \A v \in Workers : v # w => cur'[v] = cur[v]
BY JobLeaseAssumption DEF Drop, TypeInv, TypeOK, WorkerTypeOK, Grants, NoGrant, Revisions

JobsWell ==
  /\ jobs \in [Jobs -> WorkerJobRecord]
  /\ \A j \in Jobs : jobs[j].leaseRevision <= jobs[j].attempts

\* The jobs when one of them is leased anew.
LeasedJobs(c, j, rev) ==
  [jobs EXCEPT ![j].status = "running", ![j].attempts = @ + 1, ![j].leasedBy = c.worker,
               ![j].leaseRequestId = c.id, ![j].leaseRevision = rev, ![j].lease = "live",
               ![j].dispatchStarted = FALSE]

\* A new lease takes an attempt and a revision.
LEMMA LeaseJob ==
  ASSUME TypeInv, NEW c \in InTransit, NEW j \in Candidates, NEW rev, rev = jobs[j].leaseRevision + 1,
         jobs' = LeasedJobs(c, j, rev)
  PROVE  /\ JobsWell' /\ rev \in Revisions
         /\ jobs'[j].leaseRevision = rev /\ jobs'[j].leaseRequestId = c.id
         /\ jobs'[j].leasedBy = c.worker /\ jobs'[j].type = jobs[j].type
         /\ ~jobs'[j].dispatchStarted /\ jobs'[j].status = "running"
         /\ \A i \in Jobs \ {j} : jobs'[i] = jobs[i]
<1>1. j \in Jobs /\ c.worker \in Workers /\ c.id \in Requests
  BY TransitType DEF Candidates
<1>2. jobs[j] \in WorkerJobRecord /\ jobs \in [Jobs -> WorkerJobRecord]
  BY <1>1 DEF TypeInv, TypeOK, LedgerTypeOK
<1>3. /\ jobs[j].attempts \in 0..MaxAttempts /\ jobs[j].attempts < MaxAttempts
      /\ jobs[j].leaseRevision \in Nat /\ jobs[j].leaseRevision <= jobs[j].attempts
  BY <1>1, <1>2 DEF WorkerJobRecord, Candidates, TypeInv, Revisions
<1>4. rev \in Revisions /\ rev <= jobs[j].attempts + 1 /\ jobs[j].attempts + 1 \in 0..MaxAttempts
  BY <1>3, JobLeaseAssumption DEF Revisions
<1> DEFINE r == [jobs[j] EXCEPT !.status = "running", !.attempts = @ + 1,
                              !.leasedBy = c.worker, !.leaseRequestId = c.id,
                              !.leaseRevision = rev, !.lease = "live", !.dispatchStarted = FALSE]
<1>5. r \in WorkerJobRecord /\ r.leaseRevision <= r.attempts
  BY <1>1, <1>2, <1>4 DEF WorkerJobRecord, Statuses
<1>9. /\ r.leaseRevision = rev /\ r.leaseRequestId = c.id /\ r.leasedBy = c.worker
      /\ r.type = jobs[j].type /\ ~r.dispatchStarted /\ r.status = "running"
  BY <1>2 DEF WorkerJobRecord
<1>6. jobs' = [jobs EXCEPT ![j] = r]
  BY <1>1, <1>2 DEF LeasedJobs
<1> HIDE DEF r
<1>7. jobs'[j] = r /\ \A i \in Jobs \ {j} : jobs'[i] = jobs[i]
  BY <1>1, <1>2, <1>6
<1>8. JobsWell'
  BY <1>1, <1>2, <1>5, <1>6, <1>7 DEF JobsWell, TypeInv
<1> QED
  BY <1>4, <1>7, <1>8, <1>9

\* What else happens to a job's record keeps its type and its books.
LEMMA JobChange ==
  ASSUME TypeInv, NEW j \in Jobs, NEW r, jobs' = [jobs EXCEPT ![j] = r],
         r.type = jobs[j].type, r.leaseRequestId = jobs[j].leaseRequestId,
         r.leaseRevision = jobs[j].leaseRevision, r \in WorkerJobRecord,
         r.attempts \in {jobs[j].attempts, jobs[j].attempts + 1}
  PROVE  /\ JobsWell' /\ jobs'[j] = r
         /\ \A i \in Jobs \ {j} : jobs'[i] = jobs[i]
<1>1. jobs \in [Jobs -> WorkerJobRecord] /\ \A i \in Jobs : jobs[i].leaseRevision <= jobs[i].attempts
  BY DEF TypeInv, TypeOK, LedgerTypeOK
<1>2. jobs[j].leaseRevision \in Nat /\ jobs[j].attempts \in Nat
  BY <1>1, JobLeaseAssumption DEF WorkerJobRecord, Revisions
<1> QED
  BY <1>1, <1>2 DEF JobsWell

\* A job goes on under its lease: all but a new lease.
Continues(j) ==
  /\ jobs'[j].type = jobs[j].type /\ jobs'[j].leaseRequestId = jobs[j].leaseRequestId
  /\ jobs'[j].leaseRevision = jobs[j].leaseRevision
  /\ jobs'[j].leasedBy \in {jobs[j].leasedBy, None}
Untouched(i) == jobs'[i] = jobs[i]
\* The job runs on for the worker that claimed its dispatch.
SameClaim(j) ==
  /\ jobs'[j].status = jobs[j].status /\ jobs'[j].leasedBy = jobs[j].leasedBy
  /\ jobs'[j].dispatchStarted = jobs[j].dispatchStarted

\* An admin changes a job.
LEMMA AdminJob ==
  ASSUME TypeInv, NEW j \in Jobs, Admin(j)
  PROVE  /\ JobsWell' /\ Continues(j) /\ \A i \in Jobs \ {j} : Untouched(i)
         /\ jobs'[j].dispatchStarted => jobs[j].dispatchStarted
         /\ settler' = [settler EXCEPT ![j] = None] /\ adminOps' \in 0..MaxAdmin
         /\ order' \subseteq Jobs \X Jobs
         /\ UNCHANGED <<records, claims, effects, executing, worker, strays, faults, forgets>>
<1>1. jobs[j] \in WorkerJobRecord /\ order \subseteq Jobs \X Jobs /\ adminOps \in 0..MaxAdmin
  BY DEF TypeInv, TypeOK, LedgerTypeOK, BoundsTypeOK
<1>2. jobs[j].attempts < MaxAttempts => jobs[j].attempts + 1 \in 0..MaxAttempts
  BY <1>1, JobLeaseAssumption DEF WorkerJobRecord
<1>3. ASSUME NEW r \in WorkerJobRecord, AdminChange(j, r),
             r.type = jobs[j].type, r.leaseRequestId = jobs[j].leaseRequestId,
             r.leaseRevision = jobs[j].leaseRevision, r.leasedBy \in {jobs[j].leasedBy, None},
             r.attempts \in {jobs[j].attempts, jobs[j].attempts + 1},
             r.dispatchStarted => jobs[j].dispatchStarted
      PROVE  /\ JobsWell' /\ Continues(j) /\ \A i \in Jobs \ {j} : Untouched(i)
             /\ jobs'[j].dispatchStarted => jobs[j].dispatchStarted
             /\ settler' = [settler EXCEPT ![j] = None] /\ adminOps' \in 0..MaxAdmin
             /\ UNCHANGED <<records, claims, effects, executing, worker, strays, faults, forgets>>
  <2>1. jobs' = [jobs EXCEPT ![j] = r]
    BY <1>3 DEF AdminChange
  <2>2. JobsWell' /\ jobs'[j] = r /\ \A i \in Jobs \ {j} : jobs'[i] = jobs[i]
    BY <1>3, <2>1, JobChange
  <2>3. adminOps' \in 0..MaxAdmin
    BY <1>1, <1>3, JobLeaseAssumption DEF AdminChange
  <2> QED
    BY <1>3, <2>2, <2>3 DEF AdminChange, Continues, Untouched
<1>4. CASE AdminStart(j)
  BY <1>1, <1>2, <1>3, <1>4 DEF AdminStart, WorkerJobRecord, Statuses
<1>5. CASE AdminEnd(j)
  <2>1. PICK s \in Terminal : AdminChange(j, [jobs[j] EXCEPT !.status = s, !.leasedBy = None, !.lease = "none"])
    BY <1>5 DEF AdminEnd
  <2>2. [jobs[j] EXCEPT !.status = s, !.leasedBy = None, !.lease = "none"] \in WorkerJobRecord
    BY <1>1 DEF WorkerJobRecord, Statuses
  <2>3. order' = order
    BY <1>5 DEF AdminEnd
  <2> QED
    BY <1>1, <1>3, <2>1, <2>2, <2>3 DEF WorkerJobRecord
<1>6. CASE AdminHeartbeat(j)
  BY <1>1, <1>3, <1>6 DEF AdminHeartbeat, WorkerJobRecord, Statuses
<1>7. Requeued(jobs[j]) \in WorkerJobRecord
  BY <1>1 DEF Requeued, WorkerJobRecord, Statuses
<1>8. CASE AdminRetry(j)
  <2>1. order' \subseteq Jobs \X Jobs
    BY <1>1, <1>8 DEF AdminRetry, ToBack
  <2> QED
    BY <1>1, <1>3, <1>7, <1>8, <2>1 DEF AdminRetry, Requeued, WorkerJobRecord
<1>9. CASE AdminCancel(j)
  <2>1. [Requeued(jobs[j]) EXCEPT !.status = "cancelled"] \in WorkerJobRecord
    BY <1>7 DEF WorkerJobRecord, Statuses, Terminal
  <2> QED
    BY <1>1, <1>3, <1>9, <2>1 DEF AdminCancel, Requeued, WorkerJobRecord
<1> QED
  BY <1>4, <1>5, <1>6, <1>8, <1>9 DEF Admin

\* A worker settles its job.
LEMMA SettleJob ==
  ASSUME TypeInv, NEW c \in InTransit, Settle(c)
  PROVE  \/ UNCHANGED <<jobs, settler>> /\ Answer(c, "refused")
         \/ /\ JobsWell' /\ Continues(c.job) /\ \A i \in Jobs \ {c.job} : Untouched(i)
            /\ c.job \in Jobs /\ MaySettle(c) /\ Answer(c, "ok")
            /\ jobs'[c.job].status = IF c.kind = "succeed" THEN "succeeded" ELSE "failed"
            /\ jobs'[c.job].dispatchStarted = jobs[c.job].dispatchStarted
            /\ settler' = [settler EXCEPT ![c.job] = c.worker]
<1>1. c.job \in Jobs
  BY TransitType DEF Settle, CallWell
<1>2. jobs[c.job] \in WorkerJobRecord /\ jobs \in [Jobs -> WorkerJobRecord]
  BY <1>1 DEF TypeInv, TypeOK, LedgerTypeOK
<1>3. CASE MaySettle(c)
  <2> DEFINE s == IF c.kind = "succeed" THEN "succeeded" ELSE "failed"
             r == [jobs[c.job] EXCEPT !.status = s, !.leasedBy = None, !.lease = "none"]
  <2>1. jobs' = [jobs EXCEPT ![c.job] = r]
    BY <1>1, <1>2, <1>3 DEF Settle
  <2>2. r \in WorkerJobRecord /\ r.attempts = jobs[c.job].attempts
    BY <1>2 DEF WorkerJobRecord, Statuses, Terminal
  <2>3. /\ r.type = jobs[c.job].type /\ r.leaseRequestId = jobs[c.job].leaseRequestId
        /\ r.leaseRevision = jobs[c.job].leaseRevision /\ r.leasedBy = None
        /\ r.dispatchStarted = jobs[c.job].dispatchStarted /\ r.status = s
    BY <1>2 DEF WorkerJobRecord
  <2> HIDE DEF r
  <2>4. JobsWell' /\ jobs'[c.job] = r /\ \A i \in Jobs \ {c.job} : jobs'[i] = jobs[i]
    BY <1>1, <2>1, <2>2, <2>3, JobChange
  <2> QED
    BY <1>1, <1>3, <2>3, <2>4 DEF Settle, Continues, Untouched
<1> QED
  BY <1>3 DEF Settle

\* A dispatch is refused or replayed, or claims its lease.
LEMMA DispatchJob ==
  ASSUME TypeInv, NEW c \in InTransit, Dispatch(c)
  PROVE  /\ c.job \in Jobs /\ c.worker \in Workers
         /\ UNCHANGED effects
         /\ \/ /\ UNCHANGED <<jobs, executing>>
               /\ Answer(c, "refused") \/ (Replayable(c) /\ Answer(c, "ok"))
            \/ /\ JobsWell' /\ Continues(c.job) /\ \A i \in Jobs \ {c.job} : Untouched(i)
               /\ MayClaim(c) /\ ~Replayable(c)
               /\ jobs'[c.job].status = "running" /\ jobs'[c.job].dispatchStarted
               /\ jobs'[c.job].leasedBy = jobs[c.job].leasedBy
               /\ Answer(c, "executing") /\ executing' = executing \cup {c}
<1>1. c.job \in Jobs /\ c.worker \in Workers
  BY TransitType DEF Dispatch, CallWell
<1>2. jobs[c.job] \in WorkerJobRecord /\ jobs \in [Jobs -> WorkerJobRecord]
  BY <1>1 DEF TypeInv, TypeOK, LedgerTypeOK
<1>3. CASE /\ ~Replayable(c) /\ MayClaim(c)
           /\ jobs' = [jobs EXCEPT ![c.job].dispatchStarted = TRUE]
           /\ Answer(c, "executing") /\ executing' = executing \cup {c}
  <2> DEFINE r == [jobs[c.job] EXCEPT !.dispatchStarted = TRUE]
  <2>1. jobs' = [jobs EXCEPT ![c.job] = r]
    BY <1>1, <1>2, <1>3
  <2>2. /\ r \in WorkerJobRecord /\ r.attempts = jobs[c.job].attempts
        /\ r.type = jobs[c.job].type /\ r.leaseRequestId = jobs[c.job].leaseRequestId
        /\ r.leaseRevision = jobs[c.job].leaseRevision /\ r.leasedBy = jobs[c.job].leasedBy
        /\ r.status = jobs[c.job].status /\ r.dispatchStarted
    BY <1>2 DEF WorkerJobRecord
  <2> HIDE DEF r
  <2>3. JobsWell' /\ jobs'[c.job] = r /\ \A i \in Jobs \ {c.job} : jobs'[i] = jobs[i]
    BY <1>1, <2>1, <2>2, JobChange
  <2> QED
    BY <1>1, <1>3, <2>2, <2>3 DEF Continues, Untouched, MayClaim, Active, Dispatch
<1> QED
  BY <1>1, <1>3 DEF Dispatch

\* A dispatch that ends has its effect, or the job loses at most its claim.
LEMMA FinishJob ==
  ASSUME TypeInv, NEW c \in executing, FinishDispatch(c)
  PROVE  /\ c \in Calls /\ c.worker \in Workers /\ c.rev \in Revisions /\ c.job \in Jobs
         /\ c.kind = "dispatch"
         /\ JobsWell'
         /\ \A j \in Jobs : /\ Continues(j) /\ jobs'[j].status = jobs[j].status
                            /\ jobs'[j].leasedBy = jobs[j].leasedBy
                            /\ jobs'[j].dispatchStarted => jobs[j].dispatchStarted
         /\ \A j \in Jobs \ {c.job} : Untouched(j)
         /\ Phased(c.job) => UNCHANGED jobs
         /\ UNCHANGED effects \/ (TakesEffect(c) /\ UNCHANGED jobs)
<1>1. /\ c \in Calls /\ c.worker \in Workers /\ c.rev \in Revisions /\ c.job \in Jobs
      /\ c.kind = "dispatch"
  BY DEF TypeInv, TypeOK, LedgerTypeOK, Calls, CallWell
<1>2. jobs[c.job] \in WorkerJobRecord /\ jobs \in [Jobs -> WorkerJobRecord]
  BY <1>1 DEF TypeInv, TypeOK, LedgerTypeOK
<1>3. CASE UNCHANGED jobs
  BY <1>1, <1>3 DEF FinishDispatch, JobsWell, TypeInv, TypeOK, LedgerTypeOK, Continues, Untouched
<1>4. CASE ~UNCHANGED jobs
  <2> DEFINE r == [jobs[c.job] EXCEPT !.dispatchStarted = FALSE]
  <2>1. jobs' = [jobs EXCEPT ![c.job] = r] /\ UNCHANGED effects /\ ~Phased(c.job)
    BY <1>1, <1>2, <1>4 DEF FinishDispatch
  <2>2. /\ r \in WorkerJobRecord /\ r.attempts = jobs[c.job].attempts
        /\ r.type = jobs[c.job].type /\ r.leaseRequestId = jobs[c.job].leaseRequestId
        /\ r.leaseRevision = jobs[c.job].leaseRevision /\ r.leasedBy = jobs[c.job].leasedBy
        /\ r.status = jobs[c.job].status /\ ~r.dispatchStarted
    BY <1>2 DEF WorkerJobRecord
  <2> HIDE DEF r
  <2>3. JobsWell' /\ jobs'[c.job] = r /\ \A i \in Jobs \ {c.job} : jobs'[i] = jobs[i]
    BY <1>1, <2>1, <2>2, JobChange
  <2> QED
    BY <1>1, <2>1, <2>2, <2>3 DEF Continues, Untouched
<1> QED
  BY <1>3, <1>4

\* A ledger that does not change keeps its type.
LEMMA LedgerKept ==
  ASSUME LedgerTypeOK, UNCHANGED ledger
  PROVE  LedgerTypeOK' /\ jobs' = jobs /\ executing' = executing
BY DEF ledger, LedgerTypeOK

\* An effect is added at the end.
LEMMA EffectAppended ==
  ASSUME LedgerTypeOK, NEW c, c.worker \in Workers, c.job \in Jobs, c.rev \in Revisions, TakesEffect(c)
  PROVE  /\ effects' \in Seq([worker : Workers, job : Jobs, rev : Revisions])
         /\ DOMAIN effects' = DOMAIN effects \cup {Len(effects) + 1} /\ Len(effects) + 1 \notin DOMAIN effects
         /\ \A n \in DOMAIN effects : effects'[n] = effects[n]
         /\ effects'[Len(effects) + 1] = [worker |-> c.worker, job |-> c.job, rev |-> c.rev]
<1> DEFINE E == [worker : Workers, job : Jobs, rev : Revisions]
           e == [worker |-> c.worker, job |-> c.job, rev |-> c.rev]
<1>1. e \in E /\ effects \in Seq(E) /\ effects' = Append(effects, e)
  BY DEF LedgerTypeOK, TakesEffect
<1> HIDE DEF E, e
<1>2. /\ effects' \in Seq(E) /\ DOMAIN effects' = DOMAIN effects \cup {Len(effects) + 1}
      /\ Len(effects) + 1 \notin DOMAIN effects
      /\ \A n \in DOMAIN effects : effects'[n] = effects[n]
      /\ effects'[Len(effects) + 1] = e
  BY <1>1
<1> QED
  BY <1>2 DEF E, e

\* Serving a call keeps the types.
LEMMA ServeType ==
  ASSUME TypeInv, NEW c \in InTransit, Serve(c)
  PROVE  TypeInv'
<1>0. /\ c \in Calls /\ CallWell(c) /\ c.worker \in Workers /\ c.id \in Requests /\ c.rev \in Revisions
      /\ LedgerTypeOK /\ JobsWell /\ BoundsTypeOK /\ 0 \in Revisions
      /\ \A d \in strays \cup executing : CallWell(d)
      /\ \A d \in executing : d.kind = "dispatch"
  BY TransitType, JobLeaseAssumption DEF TypeInv, TypeOK, LedgerTypeOK, JobsWell, Calls, Revisions
<1>a. SUFFICES ASSUME TRUE
               PROVE  /\ LedgerTypeOK' /\ \A j \in Jobs : jobs'[j].leaseRevision <= jobs'[j].attempts
                      /\ WorkerTypeOK' /\ \A w \in Workers : WorkerWell(w)'
                      /\ UNCHANGED bounds /\ strays' \subseteq strays
                      /\ \A d \in executing' : CallWell(d) /\ d.kind = "dispatch"
  BY <1>0 DEF TypeInv, TypeOK, BoundsTypeOK, bounds, CallWell
<1>1. CASE ReplayLease(c)
  <2>1. PICK k \in Recorded(c) : IF k.job = None THEN Answer(c, "refused") /\ UNCHANGED cur
                                 ELSE Grant(c, k.job, k.rev)
    BY <1>1 DEF ReplayLease
  <2>2. k.job \in Jobs \cup {None} /\ k.rev \in Revisions
    BY <1>0 DEF LedgerTypeOK, Recorded
  <2>3. WorkerTypeOK' /\ (\A w \in Workers : WorkerWell(w)') /\ strays' \subseteq strays
    <3>1. CASE k.job = None
      BY <1>1, <2>1, <3>1, OtherAnswer DEF ReplayLease
    <3>2. CASE k.job # None
      BY <1>1, <2>1, <2>2, <3>2, GrantStep DEF ReplayLease
    <3> QED
      BY <3>1, <3>2
  <2>4. UNCHANGED ledger /\ UNCHANGED bounds
    BY <1>1 DEF ReplayLease
  <2>5. LedgerTypeOK' /\ jobs' = jobs /\ executing' = executing
    BY <1>0, <2>4, LedgerKept
  <2> QED
    BY <1>0, <2>3, <2>4, <2>5 DEF JobsWell
<1>2. CASE LeaseNextAdminJob(c)
  <2>0. c.kind = "lease" /\ UNCHANGED <<order, effects, executing, settler, pc, req, bounds>>
    BY <1>2 DEF LeaseNextAdminJob
  <2>1. ASSUME NEW j \in LeasedUnder(c), UNCHANGED <<jobs, claims>>,
               IF jobs[j].leasedBy = c.worker
               THEN Grant(c, j, jobs[j].leaseRevision) /\ Record(c, j, jobs[j].leaseRevision)
               ELSE Answer(c, "refused") /\ UNCHANGED <<cur, records>>
        PROVE  /\ WorkerTypeOK' /\ (\A w \in Workers : WorkerWell(w)') /\ strays' \subseteq strays
               /\ records' \subseteq [id : Requests, job : Jobs \cup {None}, rev : Revisions]
    <3>1. j \in Jobs /\ jobs[j].leaseRevision \in Revisions
      BY <1>0 DEF LeasedUnder, LedgerTypeOK, WorkerJobRecord
    <3>2. CASE jobs[j].leasedBy = c.worker
      BY <1>0, <2>0, <2>1, <3>1, <3>2, GrantStep DEF Record, LedgerTypeOK
    <3>3. CASE jobs[j].leasedBy # c.worker
      BY <1>0, <2>0, <2>1, <3>3, OtherAnswer DEF LedgerTypeOK
    <3> QED
      BY <3>2, <3>3
  <2>2. ASSUME NEW j \in Candidates, NEW rev, rev = jobs[j].leaseRevision + 1,
               jobs' = LeasedJobs(c, j, rev),
               claims' = claims \cup {[id |-> c.id, job |-> j, rev |-> rev]},
               Grant(c, j, rev), Record(c, j, rev)
        PROVE  /\ WorkerTypeOK' /\ (\A w \in Workers : WorkerWell(w)') /\ strays' \subseteq strays
               /\ records' \subseteq [id : Requests, job : Jobs \cup {None}, rev : Revisions]
               /\ claims' \subseteq [id : Requests, job : Jobs, rev : Revisions]
               /\ JobsWell'
    <3>1. JobsWell' /\ rev \in Revisions /\ j \in Jobs
      BY <2>2, LeaseJob DEF Candidates
    <3> QED
      BY <1>0, <2>0, <2>2, <3>1, GrantStep DEF Record, LedgerTypeOK
  <2>3. ASSUME Answer(c, "refused"), Record(c, None, 0), UNCHANGED cur
        PROVE  /\ WorkerTypeOK' /\ (\A w \in Workers : WorkerWell(w)') /\ strays' \subseteq strays
               /\ records' \subseteq [id : Requests, job : Jobs \cup {None}, rev : Revisions]
    BY <1>0, <2>0, <2>3, OtherAnswer DEF Record, LedgerTypeOK
  <2>4. /\ WorkerTypeOK' /\ (\A w \in Workers : WorkerWell(w)') /\ strays' \subseteq strays
        /\ records' \subseteq [id : Requests, job : Jobs \cup {None}, rev : Revisions]
        /\ claims' \subseteq [id : Requests, job : Jobs, rev : Revisions]
        /\ JobsWell'
    BY <1>0, <1>2, <2>1, <2>2, <2>3 DEF LeaseNextAdminJob, LeasedJobs, LedgerTypeOK, JobsWell
  <2> QED
    BY <1>0, <2>0, <2>4 DEF LedgerTypeOK, JobsWell
<1>3. CASE Heartbeat(c)
  BY <1>0, <1>3, OtherAnswer, LedgerKept DEF Heartbeat, JobsWell
<1>4. CASE Dispatch(c)
  <2>0. /\ c.kind = "dispatch" /\ c.job \in Jobs
        /\ UNCHANGED <<order, records, claims, settler, pc, cur, req, bounds>>
    BY <1>4, DispatchJob DEF Dispatch
  <2>1. WorkerTypeOK' /\ (\A w \in Workers : WorkerWell(w)') /\ strays' \subseteq strays
    BY <1>4, <2>0, DispatchJob, OtherAnswer
  <2>2. JobsWell' /\ executing' \subseteq executing \cup {c}
    BY <1>0, <1>4, DispatchJob DEF JobsWell
  <2>3. effects' = effects
    BY <1>4, DispatchJob
  <2> QED
    BY <1>0, <2>0, <2>1, <2>2, <2>3 DEF LedgerTypeOK, JobsWell
<1>5. CASE Settle(c)
  <2>0. /\ c.kind \in {"succeed", "fail"}
        /\ UNCHANGED <<order, records, claims, effects, executing, pc, cur, req, bounds>>
    BY <1>5 DEF Settle
  <2>1. JobsWell' /\ settler' \in [Jobs -> Workers \cup {None}] /\ (Answer(c, "ok") \/ Answer(c, "refused"))
    BY <1>0, <1>5, SettleJob DEF LedgerTypeOK, JobsWell
  <2>2. WorkerTypeOK' /\ (\A w \in Workers : WorkerWell(w)') /\ strays' \subseteq strays
    BY <2>0, <2>1, OtherAnswer
  <2> QED
    BY <1>0, <2>0, <2>1, <2>2 DEF LedgerTypeOK, JobsWell
<1> QED
  BY <1>1, <1>2, <1>3, <1>4, <1>5 DEF Serve

\* The types hold of the ledger when a worker goes on, whatever it forgets.
LEMMA WorkerType ==
  ASSUME TypeInv, UNCHANGED <<jobs, order, claims, effects, executing, settler, forgets, adminOps>>,
         records' \subseteq records, faults' \in 0..MaxFaults,
         WorkerTypeOK', \A v \in Workers : WorkerWell(v)', \A c \in strays' : CallWell(c)
  PROVE  TypeInv'
BY DEF TypeInv, TypeOK, LedgerTypeOK, BoundsTypeOK, CallWell

\* A fault stays within its bound.
LEMMA FaultType ==
  ASSUME TypeInv, Fault
  PROVE  faults' \in 0..MaxFaults
BY JobLeaseAssumption DEF TypeInv, TypeOK, BoundsTypeOK, Fault

\* A job that changes changes nothing of the workers.
LEMMA JobType ==
  ASSUME TypeInv, JobsWell', order' \subseteq Jobs \X Jobs, settler' \in [Jobs -> Workers \cup {None}],
         adminOps' \in 0..MaxAdmin,
         UNCHANGED <<records, claims, effects, executing, worker, strays, faults, forgets>>
  PROVE  TypeInv'
BY DEF TypeInv, TypeOK, LedgerTypeOK, BoundsTypeOK, WorkerTypeOK, WorkerWell, CallWell, JobsWell, worker

\* Creating a job and the end of a lease keep its books.
LEMMA JobStep ==
  ASSUME TypeInv, NEW j \in Jobs, Create(j) \/ Expire(j)
  PROVE  /\ JobsWell' /\ Continues(j) /\ \A i \in Jobs \ {j} : Untouched(i)
         /\ jobs'[j].dispatchStarted = jobs[j].dispatchStarted
         /\ jobs'[j].status = "succeeded" => jobs[j].status = "succeeded"
         /\ Expire(j) => SameClaim(j)
         /\ order' \subseteq Jobs \X Jobs
         /\ UNCHANGED <<records, claims, effects, executing, settler, worker, strays, bounds>>
<1>1. jobs[j] \in WorkerJobRecord /\ jobs \in [Jobs -> WorkerJobRecord] /\ order \subseteq Jobs \X Jobs
  BY DEF TypeInv, TypeOK, LedgerTypeOK
<1>2. ASSUME NEW r \in WorkerJobRecord, jobs' = [jobs EXCEPT ![j] = r], r.type = jobs[j].type,
             r.leaseRequestId = jobs[j].leaseRequestId, r.leaseRevision = jobs[j].leaseRevision,
             r.leasedBy = jobs[j].leasedBy, r.attempts = jobs[j].attempts,
             r.dispatchStarted = jobs[j].dispatchStarted,
             r.status = "succeeded" => jobs[j].status = "succeeded"
      PROVE  /\ JobsWell' /\ Continues(j) /\ \A i \in Jobs \ {j} : Untouched(i)
             /\ jobs'[j].dispatchStarted = jobs[j].dispatchStarted
             /\ jobs'[j].status = "succeeded" => jobs[j].status = "succeeded"
  BY <1>2, JobChange DEF Continues, Untouched
<1>3. CASE Create(j)
  <2> DEFINE r == [jobs[j] EXCEPT !.status = "queued"]
  <2>1. r \in WorkerJobRecord /\ jobs' = [jobs EXCEPT ![j] = r]
    BY <1>1, <1>3 DEF WorkerJobRecord, Statuses, Create
  <2>2. order' \subseteq Jobs \X Jobs
    BY <1>1, <1>3 DEF Create, ToBack
  <2>3. ~Expire(j)
    BY <1>1, <1>3 DEF Create, Expire, WorkerJobRecord
  <2> QED
    BY <1>1, <1>2, <1>3, <2>1, <2>2, <2>3 DEF Create, WorkerJobRecord
<1>4. CASE Expire(j)
  <2> DEFINE r == [jobs[j] EXCEPT !.lease = "past"]
  <2>1. r \in WorkerJobRecord /\ jobs' = [jobs EXCEPT ![j] = r]
    BY <1>1, <1>4 DEF WorkerJobRecord, Expire
  <2>2. SameClaim(j)
    BY <1>1, <2>1 DEF SameClaim, WorkerJobRecord
  <2> QED
    BY <1>1, <1>2, <1>4, <2>1, <2>2 DEF Expire, WorkerJobRecord
<1> QED
  BY <1>3, <1>4

\* Every step keeps the types.
LEMMA TypeStep ==
  ASSUME TypeInv, [Next]_vars
  PROVE  TypeInv'
<1>0. /\ LedgerTypeOK /\ WorkerTypeOK /\ BoundsTypeOK
      /\ \A w \in Workers : WorkerWell(w)
  BY DEF TypeInv, TypeOK
<1>1. ASSUME NEW c \in InTransit, Serve(c)
      PROVE  TypeInv'
  BY <1>1, ServeType
<1>2. ASSUME NEW c \in executing, FinishDispatch(c)
      PROVE  TypeInv'
  <2>1. /\ c \in Calls /\ c.worker \in Workers /\ c.rev \in Revisions /\ c.job \in Jobs
        /\ c.kind = "dispatch" /\ executing' \subseteq executing /\ JobsWell'
        /\ UNCHANGED <<order, records, claims, settler, pc, cur, req, strays, bounds>>
    BY <1>2, FinishJob DEF FinishDispatch
  <2>2. UNCHANGED effects \/ TakesEffect(c)
    BY <1>2, FinishJob
  <2>3. effects' \in Seq([worker : Workers, job : Jobs, rev : Revisions])
    BY <1>0, <2>1, <2>2, EffectAppended DEF LedgerTypeOK
  <2>4. PICK a \in {"ok", "refused"} :
          call' = IF Awaited(c) THEN [call EXCEPT ![c.worker] = a] ELSE call
    BY <1>2 DEF FinishDispatch, Ends
  <2>5. Awaited(c) => pc[c.worker] = "dispatch" /\ call[c.worker] # "none"
    BY <2>1 DEF Awaited, Call
  <2>6. /\ call' \in [Workers -> {"none", "sent", "executing", "ok", "refused"}]
        /\ \A w \in Workers : call'[w] = call[w] \/ (call'[w] = a /\ call[w] # "none" /\ pc[w] = "dispatch")
    BY <1>0, <2>1, <2>4, <2>5 DEF WorkerTypeOK
  <2>7. LedgerTypeOK' /\ WorkerTypeOK' /\ BoundsTypeOK'
    BY <1>0, <2>1, <2>3, <2>6 DEF LedgerTypeOK, WorkerTypeOK, BoundsTypeOK, bounds, JobsWell
  <2>8. \A w \in Workers : WorkerWell(w)'
    BY <1>0, <2>1, <2>6 DEF WorkerWell
  <2> QED
    BY <2>1, <2>7, <2>8 DEF TypeInv, TypeOK, CallWell, JobsWell
<1>3. ASSUME NEW w \in Workers, Poll(w)
      PROVE  TypeInv'
  <2>1. WorkerTypeOK' /\ (\A v \in Workers : WorkerWell(v)') /\ \A c \in strays' : CallWell(c)
    BY <1>0, <1>3, EnterStep DEF Poll, Kinds, WorkerTypeOK
  <2> QED
    BY <1>0, <1>3, <2>1, WorkerType DEF Poll, ledger, bounds, BoundsTypeOK
<1>4. ASSUME NEW w \in Workers, Receive(w)
      PROVE  TypeInv'
  <2> DEFINE next == IF call[w] = "ok" THEN AfterSuccess[pc[w]] ELSE AfterError[pc[w]]
  <2>1. pc[w] \in Kinds /\ (pc[w] # "lease" \/ call[w] = "ok" => cur[w].job \in Jobs)
    BY <1>0, <1>4 DEF Receive, WorkerTypeOK, WorkerWell
  <2>2. /\ next \in Kinds \cup {"idle"}
        /\ next \notin {"idle", "lease"} => pc[w] # "lease" \/ call[w] = "ok"
    BY <2>1 DEF AfterSuccess, AfterError, Kinds
  <2>3. Enter(w, next) /\ UNCHANGED strays
    BY <1>4 DEF Receive
  <2>4. UNCHANGED <<cur, req>> \/ (next = "idle" /\ Drop(w))
    BY <1>4 DEF Receive
  <2>5. records' \subseteq records
    BY <1>4 DEF Receive
  <2> HIDE DEF next
  <2>6. /\ cur' \in [Workers -> Grants] /\ req' \in [Workers -> Nat]
        /\ \A v \in Workers : v # w => cur'[v] = cur[v]
        /\ next \notin {"idle", "lease"} => cur'[w].job \in Jobs
    BY <1>0, <2>1, <2>2, <2>4, DropType DEF WorkerTypeOK
  <2>7. WorkerTypeOK' /\ (\A v \in Workers : WorkerWell(v)') /\ \A c \in strays' : CallWell(c)
    BY <2>2, <2>3, <2>6, EnterStep
  <2> QED
    BY <1>0, <1>4, <2>5, <2>7, WorkerType DEF Receive, bounds, BoundsTypeOK
<1>5. ASSUME NEW w \in Workers, TimeOut(w)
      PROVE  TypeInv'
  <2>1. pc[w] \in Kinds /\ (pc[w] # "lease" => cur[w].job \in Jobs) /\ faults' \in 0..MaxFaults
    BY <1>0, <1>5, FaultType DEF TimeOut, WorkerTypeOK, WorkerWell
  <2>2. PICK next \in {"lease", AfterError[pc[w]]} :
          /\ Enter(w, next) /\ (UNCHANGED <<cur, req>> \/ Drop(w))
          /\ next \notin {"idle", "lease"} => pc[w] # "lease" /\ UNCHANGED <<cur, req>>
    BY <1>5, <2>1 DEF TimeOut, AfterError, Kinds
  <2>3. next \in Kinds \cup {"idle"}
    BY <2>1, <2>2 DEF AfterError, Kinds
  <2>4. /\ cur' \in [Workers -> Grants] /\ req' \in [Workers -> Nat]
        /\ \A v \in Workers : v # w => cur'[v] = cur[v]
        /\ next \notin {"idle", "lease"} => cur'[w].job \in Jobs
    BY <1>0, <2>1, <2>2, DropType DEF WorkerTypeOK
  <2>5. WorkerTypeOK' /\ (\A v \in Workers : WorkerWell(v)') /\ \A c \in strays' : CallWell(c)
    <3>1. LetGo(w) /\ Enter(w, next)
      BY <1>5, <2>2 DEF TimeOut
    <3> QED
      BY <2>3, <2>4, <3>1, EnterStep
  <2> QED
    BY <1>5, <2>1, <2>5, WorkerType DEF TimeOut, ledger
<1>6. ASSUME NEW w \in Workers, Abandon(w) \/ WorkerCrash(w)
      PROVE  TypeInv'
  <2>1. Enter(w, "idle") /\ Drop(w) /\ LetGo(w) /\ UNCHANGED <<ledger, forgets, adminOps>>
    BY <1>6 DEF Abandon, WorkerCrash
  <2>2. faults' \in 0..MaxFaults
    BY <1>0, <1>6, FaultType DEF Abandon, WorkerCrash, BoundsTypeOK
  <2>3. WorkerTypeOK' /\ (\A v \in Workers : WorkerWell(v)') /\ \A c \in strays' : CallWell(c)
    BY <2>1, DropType, EnterStep
  <2> QED
    BY <2>1, <2>2, <2>3, WorkerType DEF ledger
<1>7. ASSUME NEW j \in Jobs, Create(j) \/ Expire(j)
      PROVE  TypeInv'
  <2>1. /\ JobsWell' /\ order' \subseteq Jobs \X Jobs
        /\ UNCHANGED <<records, claims, effects, executing, settler, worker, strays, bounds>>
    BY <1>7, JobStep
  <2>2. settler' \in [Jobs -> Workers \cup {None}] /\ adminOps' \in 0..MaxAdmin
    BY <1>0, <2>1 DEF bounds, LedgerTypeOK, BoundsTypeOK
  <2> QED
    BY <2>1, <2>2, JobType DEF bounds
<1>8. ASSUME NEW j \in Jobs, Admin(j)
      PROVE  TypeInv'
  <2>1. settler' \in [Jobs -> Workers \cup {None}]
    BY <1>0, <1>8, AdminJob DEF LedgerTypeOK
  <2> QED
    BY <1>8, <2>1, AdminJob, JobType
<1>9. CASE Forget
  <2>1. forgets' \in 0..MaxForgets /\ records' \subseteq records
    BY <1>0, <1>9, JobLeaseAssumption DEF Forget, BoundsTypeOK
  <2> QED
    BY <1>9, <2>1 DEF Forget, worker, TypeInv, TypeOK, LedgerTypeOK, BoundsTypeOK, WorkerTypeOK,
       WorkerWell, CallWell
<1>10. CASE UNCHANGED vars
  BY <1>10 DEF vars, TypeInv, TypeOK, LedgerTypeOK, BoundsTypeOK, WorkerTypeOK, WorkerWell, CallWell
<1> QED
  BY <1>1, <1>2, <1>3, <1>4, <1>5, <1>6, <1>7, <1>8, <1>9, <1>10 DEF Next

\* Types hold at the start.
LEMMA TypeInit == Init => TypeInv
<1> SUFFICES ASSUME Init PROVE TypeInv
  OBVIOUS
<1>1. PICK typeOf \in [Jobs -> Types] :
        jobs = [j \in Jobs |-> [type |-> typeOf[j], status |-> "absent", attempts |-> 0, leasedBy |-> None,
                               leaseRequestId |-> <<None, 0>>, leaseRevision |-> 0, lease |-> "none",
                               dispatchStarted |-> FALSE]]
  BY DEF Init
<1>2. 0 \in 0..MaxAttempts /\ 0 \in 0..MaxFaults /\ 0 \in 0..MaxForgets /\ 0 \in 0..MaxAdmin
  BY JobLeaseAssumption
<1>3. jobs \in [Jobs -> WorkerJobRecord] /\ \A j \in Jobs : jobs[j].leaseRevision <= jobs[j].attempts
  BY <1>1, <1>2 DEF WorkerJobRecord, Requests, Revisions, Statuses
<1>4. LedgerTypeOK /\ BoundsTypeOK
  BY <1>2, <1>3 DEF Init, LedgerTypeOK, BoundsTypeOK
<1>5. WorkerTypeOK /\ \A w \in Workers : WorkerWell(w)
  BY <1>2 DEF Init, WorkerTypeOK, WorkerWell, Grants, NoGrant, Revisions
<1> QED
  BY <1>3, <1>4, <1>5 DEF TypeInv, TypeOK, Init

\* The ledger, its workers and the calls between them have their types, and a
\* lease revision never exceeds the attempts it took.
THEOREM TypeCorrect == Spec => []TypeInv
BY TypeInit, TypeStep, PTL DEF Spec

-------------------------------------------------------------------------------
(***************************************************************************)
(* What a step does to the jobs and to the work that took effect.          *)
(***************************************************************************)

\* The job's lease stays as it is, or ends; its dispatch may be undone by an
\* admin, and is claimed only by NewClaim.
\* While a dispatch holds the gate, its job stays as its claim left it.
Kept ==
  /\ claims' = claims
  /\ \A j \in Jobs : Continues(j) /\ (jobs'[j].dispatchStarted => jobs[j].dispatchStarted)
  /\ GateHeld => \A j \in Jobs : SameClaim(j)

\* A job is leased under a new revision.
NewLease(c, j) ==
  /\ ~GateHeld /\ LeasedUnder(c) = {} /\ claims' = claims \cup {[id |-> c.id, job |-> j, rev |-> jobs[j].leaseRevision + 1]}
  /\ jobs'[j].leaseRevision = jobs[j].leaseRevision + 1 /\ jobs'[j].leaseRequestId = c.id
  /\ jobs'[j].leasedBy = c.worker /\ jobs'[j].type = jobs[j].type
  /\ ~jobs'[j].dispatchStarted /\ jobs'[j].status = "running"
  /\ \A i \in Jobs \ {j} : Untouched(i)
  /\ UNCHANGED <<effects, executing>>

\* The one dispatch of a lease is claimed.
NewClaim(c) ==
  /\ c.job \in Jobs /\ c.worker \in Workers /\ c.kind = "dispatch" /\ claims' = claims /\ ~GateHeld
  /\ ~\E d \in executing : d.worker = c.worker /\ d.job = c.job
  /\ MayClaim(c) /\ ~Replayable(c)
  /\ Continues(c.job) /\ jobs'[c.job].status = "running" /\ \A i \in Jobs \ {c.job} : Untouched(i)
  /\ jobs'[c.job].leasedBy = c.worker /\ jobs'[c.job].dispatchStarted
  /\ executing' = executing \cup {c} /\ UNCHANGED effects

\* A job that does not change is kept.
LEMMA UntouchedKept ==
  ASSUME TypeInv, NEW j \in Jobs, Untouched(j)
  PROVE  /\ Continues(j) /\ SameClaim(j)
         /\ jobs'[j].dispatchStarted => jobs[j].dispatchStarted
BY DEF Untouched, Continues, SameClaim

\* A lease request grants anew, or leaves the jobs alone.
LEMMA LeaseStep ==
  ASSUME TypeInv, NEW c \in InTransit, LeaseNextAdminJob(c), ~GateHeld
  PROVE  UNCHANGED <<jobs, claims, effects, executing>> \/ \E j \in Jobs : NewLease(c, j)
<1>1. ASSUME NEW j \in Candidates, NEW rev, rev = jobs[j].leaseRevision + 1, LeasedUnder(c) = {},
             jobs' = LeasedJobs(c, j, rev),
             claims' = claims \cup {[id |-> c.id, job |-> j, rev |-> rev]},
             UNCHANGED <<effects, executing>>
      PROVE  NewLease(c, j)
  <2>1. j \in Jobs /\ jobs[j] \in WorkerJobRecord
    BY DEF Candidates, TypeInv, TypeOK, LedgerTypeOK
  <2>2. /\ jobs'[j].leaseRevision = rev /\ jobs'[j].leaseRequestId = c.id
        /\ jobs'[j].leasedBy = c.worker /\ jobs'[j].type = jobs[j].type
        /\ ~jobs'[j].dispatchStarted /\ jobs'[j].status = "running"
        /\ \A i \in Jobs \ {j} : jobs'[i] = jobs[i]
    BY <1>1, LeaseJob DEF Candidates
  <2> QED
    BY <1>1, <2>1, <2>2 DEF NewLease, Untouched
<1>2. \A j \in Candidates : j \in Jobs
  BY DEF Candidates
<1>3. \/ UNCHANGED <<jobs, claims>>
      \/ \E j \in Candidates, rev \in {jobs[i].leaseRevision + 1 : i \in Jobs} :
           /\ LeasedUnder(c) = {} /\ rev = jobs[j].leaseRevision + 1
           /\ jobs' = LeasedJobs(c, j, rev)
           /\ claims' = claims \cup {[id |-> c.id, job |-> j, rev |-> rev]}
  BY <1>2 DEF LeaseNextAdminJob, LeasedJobs
<1>4. UNCHANGED <<effects, executing>>
  BY DEF LeaseNextAdminJob
<1> QED
  BY <1>1, <1>2, <1>3, <1>4

\* Serving a call keeps the jobs, leases one or claims its dispatch.
LEMMA ServeStep ==
  ASSUME TypeInv, NEW c \in InTransit, Serve(c)
  PROVE  \/ Kept /\ UNCHANGED <<effects, executing>>
         \/ \E j \in Jobs : NewLease(c, j)
         \/ NewClaim(c)
<1>a. ~GateHeld
  BY DEF Serve
<1>0. ASSUME UNCHANGED <<jobs, claims>>
      PROVE  Kept
  BY <1>0 DEF Kept, Continues, SameClaim
<1>1. CASE ReplayLease(c) \/ Heartbeat(c)
  BY <1>0, <1>1 DEF ReplayLease, Heartbeat, ledger
<1>2. CASE LeaseNextAdminJob(c)
  BY <1>0, <1>2, <1>a, LeaseStep
<1>3. CASE Dispatch(c)
  <2>1. /\ c.kind = "dispatch" /\ claims' = claims
        /\ ~\E d \in executing : d.worker = c.worker /\ d.job = c.job
    BY <1>3 DEF Dispatch
  <2>2. CASE UNCHANGED <<jobs, effects, executing>>
    BY <1>0, <2>1, <2>2
  <2>3. CASE ~UNCHANGED <<jobs, effects, executing>>
    BY <1>3, <1>a, <2>1, <2>3, DispatchJob DEF NewClaim, MayClaim, Active
  <2> QED
    BY <2>2, <2>3
<1>4. CASE Settle(c)
  <2>1. claims' = claims /\ UNCHANGED <<effects, executing>>
    BY <1>4 DEF Settle
  <2>2. CASE UNCHANGED <<jobs, settler>>
    BY <1>0, <2>1, <2>2
  <2>3. CASE ~UNCHANGED <<jobs, settler>>
    <3>1. /\ Continues(c.job) /\ \A i \in Jobs \ {c.job} : Untouched(i)
          /\ jobs'[c.job].dispatchStarted = jobs[c.job].dispatchStarted
      BY <1>4, <2>3, SettleJob
    <3> QED
      BY <1>a, <2>1, <3>1, UntouchedKept DEF Kept
  <2> QED
    BY <2>2, <2>3
<1> QED
  BY <1>1, <1>2, <1>3, <1>4 DEF Serve

\* Every step is of one of four kinds.
LEMMA Evolution ==
  ASSUME TypeInv, [Next]_vars
  PROVE  \/ Kept /\ UNCHANGED <<effects, executing>>
         \/ \E c \in executing : FinishDispatch(c)
         \/ \E c \in InTransit, j \in Jobs : NewLease(c, j)
         \/ \E c \in InTransit : NewClaim(c)
<1>0. ASSUME UNCHANGED <<jobs, claims>>
      PROVE  Kept
  BY <1>0 DEF Kept, Continues, SameClaim
<1>1. ASSUME NEW c \in InTransit, Serve(c)
      PROVE  \/ Kept /\ UNCHANGED <<effects, executing>>
             \/ \E j \in Jobs : NewLease(c, j)
             \/ NewClaim(c)
  BY <1>1, ServeStep
<1>2. ASSUME NEW w \in Workers, Poll(w) \/ Receive(w) \/ TimeOut(w) \/ Abandon(w) \/ WorkerCrash(w)
      PROVE  UNCHANGED <<jobs, claims, effects, executing>>
  BY <1>2 DEF Poll, Receive, TimeOut, Abandon, WorkerCrash, ledger
<1>3. ASSUME NEW j \in Jobs, Create(j) \/ Expire(j) \/ Admin(j)
      PROVE  Kept /\ UNCHANGED <<effects, executing>>
  <2>1. /\ Continues(j) /\ (\A i \in Jobs \ {j} : Untouched(i))
        /\ jobs'[j].dispatchStarted => jobs[j].dispatchStarted
        /\ UNCHANGED <<claims, effects, executing>>
    BY <1>3, JobStep, AdminJob
  <2>2. CASE Expire(j)
    BY <2>1, <2>2, JobStep, UntouchedKept DEF Kept
  <2>3. CASE ~GateHeld
    BY <2>1, <2>3, UntouchedKept DEF Kept
  <2>4. Create(j) \/ Admin(j) => ~GateHeld
    BY DEF Create, Admin, AdminStart, AdminEnd, AdminHeartbeat, AdminRetry, AdminCancel, AdminChange
  <2> QED
    BY <1>3, <2>2, <2>3, <2>4
<1>4. CASE Forget \/ UNCHANGED vars
  BY <1>0, <1>4 DEF Forget, vars
<1> QED
  BY <1>0, <1>1, <1>2, <1>3, <1>4 DEF Next

-------------------------------------------------------------------------------
(***************************************************************************)
(* A lease request claims once.                                            *)
(***************************************************************************)

\* Of the leases of a job the newest is in its record, with its request.
Latest ==
  \A k \in claims :
    /\ k.rev <= jobs[k.job].leaseRevision
    /\ k.rev = jobs[k.job].leaseRevision => jobs[k.job].leaseRequestId = k.id

\* A request takes a new lease only when none of its leases is the newest of its
\* job.
LEMMA ClaimStep ==
  ASSUME TypeInv, TypeInv', Latest, RepeatedLeaseClaimsOnce, [Next]_vars
  PROVE  Latest' /\ RepeatedLeaseClaimsOnce'
<1>0. /\ \A k \in claims : k.job \in Jobs /\ k.rev \in Nat
      /\ \A j \in Jobs : jobs[j].leaseRevision \in Nat
  BY JobLeaseAssumption DEF TypeInv, TypeOK, LedgerTypeOK, WorkerJobRecord, Revisions
<1>1. CASE Kept \/ \E c \in executing : FinishDispatch(c)
  <2>1. claims' = claims /\ \A j \in Jobs : jobs'[j].leaseRevision = jobs[j].leaseRevision
                                            /\ jobs'[j].leaseRequestId = jobs[j].leaseRequestId
    BY <1>1, FinishJob DEF Kept, Continues, FinishDispatch
  <2> QED
    BY <1>0, <2>1 DEF Latest, RepeatedLeaseClaimsOnce
<1>2. ASSUME NEW c \in InTransit, NewClaim(c)
      PROVE  Latest' /\ RepeatedLeaseClaimsOnce'
  <2>1. claims' = claims /\ \A j \in Jobs : jobs'[j].leaseRevision = jobs[j].leaseRevision
                                            /\ jobs'[j].leaseRequestId = jobs[j].leaseRequestId
    BY <1>2 DEF NewClaim, Continues, Untouched
  <2> QED
    BY <1>0, <2>1 DEF Latest, RepeatedLeaseClaimsOnce
<1>3. ASSUME NEW c \in InTransit, NEW j \in Jobs, NewLease(c, j)
      PROVE  Latest' /\ RepeatedLeaseClaimsOnce'
  <2> DEFINE new == [id |-> c.id, job |-> j, rev |-> jobs[j].leaseRevision + 1]
  <2>1. claims' = claims \cup {new} /\ new.id = c.id /\ new.job = j /\ new.rev = jobs[j].leaseRevision + 1
    BY <1>3 DEF NewLease
  <2> HIDE DEF new
  <2>2. /\ jobs'[j].leaseRevision = jobs[j].leaseRevision + 1 /\ jobs'[j].leaseRequestId = c.id
        /\ \A i \in Jobs \ {j} : jobs'[i] = jobs[i]
    BY <1>3 DEF NewLease, Untouched
  <2>3. \A k \in claims :
          k.rev <= jobs'[k.job].leaseRevision /\ (k.job = j => k.rev < jobs'[k.job].leaseRevision)
    BY <1>0, <2>2 DEF Latest
  <2>4. Latest'
    BY <1>0, <2>1, <2>2, <2>3 DEF Latest
  <2>5. \A k \in claims : k.id = c.id => k.rev < jobs'[k.job].leaseRevision
    <3>1. \A i \in Jobs : jobs[i].leaseRequestId # c.id
      BY <1>3 DEF NewLease, LeasedUnder
    <3> QED
      BY <1>0, <2>2, <3>1 DEF Latest
  <2>6. \A k \in claims : k.rev < jobs[k.job].leaseRevision => k.rev < jobs'[k.job].leaseRevision
    BY <1>0, <2>2
  <2> QED
    BY <2>1, <2>4, <2>5, <2>6 DEF RepeatedLeaseClaimsOnce
<1> QED
  BY <1>1, <1>2, <1>3, Evolution

-------------------------------------------------------------------------------
(***************************************************************************)
(* A worker's work on a job takes effect once, and under the lease that    *)
(* claimed it.                                                             *)
(***************************************************************************)
Worked(w, j) == \E n \in DOMAIN effects : effects[n].worker = w /\ effects[n].job = j

\* What a dispatch still does has no effect yet, and nobody else does it.
Exclusive ==
  \A d \in executing :
    /\ ~Worked(d.worker, d.job)
    /\ \A e \in executing : e.worker = d.worker /\ e.job = d.job => e = d

\* A lease whose dispatch is claimed owns all that its worker did to the job.
ClaimOwns ==
  \A j \in Jobs : jobs[j].dispatchStarted /\ jobs[j].leasedBy # None =>
    /\ \A n \in DOMAIN effects :
         effects[n].worker = jobs[j].leasedBy /\ effects[n].job = j => effects[n].rev = jobs[j].leaseRevision
    /\ \A d \in executing :
         d.worker = jobs[j].leasedBy /\ d.job = j => d.rev = jobs[j].leaseRevision

\* A dispatch that holds the gate keeps the claim that let it begin; it is the
\* only one that holds it.
HolderClaimed ==
  \A d \in executing : ~Phased(d.job) =>
    /\ jobs[d.job].status = "running" /\ jobs[d.job].leasedBy = d.worker
    /\ jobs[d.job].leaseRevision = d.rev /\ jobs[d.job].dispatchStarted
    /\ \A e \in executing : ~Phased(e.job) => e = d

WorkInv == Exclusive /\ OneEffectPerWorker /\ ClaimOwns /\ HolderClaimed

\* An effect of a dispatch that had none keeps the effects single.
LEMMA OneMore ==
  ASSUME TypeInv, OneEffectPerWorker, NEW c, c.worker \in Workers, c.job \in Jobs, c.rev \in Revisions,
         TakesEffect(c), ~Worked(c.worker, c.job)
  PROVE  /\ OneEffectPerWorker'
         /\ \A w, j : Worked(w, j)' <=> Worked(w, j) \/ (w = c.worker /\ j = c.job)
         /\ \A n \in DOMAIN effects' : \/ n \in DOMAIN effects /\ effects'[n] = effects[n]
                                       \/ /\ n \notin DOMAIN effects
                                          /\ effects'[n] = [worker |-> c.worker, job |-> c.job, rev |-> c.rev]
<1> DEFINE e == [worker |-> c.worker, job |-> c.job, rev |-> c.rev]
           last == Len(effects) + 1
<1>1. /\ DOMAIN effects' = DOMAIN effects \cup {last} /\ last \notin DOMAIN effects
      /\ \A n \in DOMAIN effects : effects'[n] = effects[n]
      /\ effects'[last] = e
  BY EffectAppended DEF TypeInv, TypeOK
<1>2. e.worker = c.worker /\ e.job = c.job
  OBVIOUS
<1> HIDE DEF e, last
<1>3. OneEffectPerWorker'
  BY <1>1, <1>2 DEF OneEffectPerWorker, Worked
<1>4. \A w, j : Worked(w, j)' <=> Worked(w, j) \/ (w = c.worker /\ j = c.job)
  BY <1>1, <1>2 DEF Worked
<1> QED
  BY <1>1, <1>3, <1>4 DEF e

\* Every step keeps the work single and owned.
LEMMA WorkStep ==
  ASSUME TypeInv, WorkInv, [Next]_vars
  PROVE  WorkInv'
<1>0. /\ Exclusive /\ OneEffectPerWorker /\ ClaimOwns /\ HolderClaimed
      /\ \A d \in executing : d.job \in Jobs /\ d.worker \in Workers /\ d.rev \in Revisions
  BY DEF WorkInv, TypeInv, TypeOK, LedgerTypeOK, Calls, CallWell
<1>1. CASE Kept /\ UNCHANGED <<effects, executing>>
  <2>1. \A j \in Jobs : /\ jobs'[j].type = jobs[j].type /\ jobs'[j].leaseRevision = jobs[j].leaseRevision
                        /\ jobs'[j].leasedBy # None => jobs'[j].leasedBy = jobs[j].leasedBy
                        /\ jobs'[j].dispatchStarted => jobs[j].dispatchStarted
    BY <1>1 DEF Kept, Continues
  <2>2. Exclusive'
    BY <1>0, <1>1 DEF Exclusive, Worked
  <2>3. OneEffectPerWorker'
    BY <1>0, <1>1 DEF OneEffectPerWorker
  <2>4. ClaimOwns'
    BY <1>0, <1>1, <2>1 DEF ClaimOwns
  <2>5. HolderClaimed'
    <3>1. GateHeld => \A j \in Jobs : SameClaim(j)
      BY <1>1 DEF Kept
    <3> QED
      BY <1>0, <1>1, <2>1, <3>1 DEF HolderClaimed, SameClaim, GateHeld, Phased
  <2> QED
    BY <2>2, <2>3, <2>4, <2>5 DEF WorkInv
<1>2. ASSUME NEW c \in executing, FinishDispatch(c)
      PROVE  WorkInv'
  <2>1. /\ executing' = executing \ {c} /\ (UNCHANGED effects \/ (TakesEffect(c) /\ UNCHANGED jobs))
        /\ \A j \in Jobs : /\ jobs'[j].type = jobs[j].type /\ jobs'[j].leaseRevision = jobs[j].leaseRevision
                           /\ jobs'[j].leasedBy = jobs[j].leasedBy
                           /\ jobs'[j].dispatchStarted => jobs[j].dispatchStarted
    BY <1>2, FinishJob DEF FinishDispatch, Continues
  <2>2. HolderClaimed'
    <3>1. CASE Phased(c.job)
      BY <1>0, <1>2, <2>1, <3>1, FinishJob DEF HolderClaimed, Phased
    <3>2. CASE ~Phased(c.job)
      BY <1>0, <2>1, <3>2 DEF HolderClaimed, Phased
    <3> QED
      BY <3>1, <3>2
  <2>3. CASE UNCHANGED effects
    <3>1. Exclusive'
      BY <1>0, <2>1, <2>3 DEF Exclusive, Worked
    <3>2. OneEffectPerWorker'
      BY <1>0, <2>3 DEF OneEffectPerWorker
    <3>3. ClaimOwns'
      BY <1>0, <2>1, <2>3 DEF ClaimOwns
    <3> QED
      BY <2>2, <3>1, <3>2, <3>3 DEF WorkInv
  <2>4. CASE TakesEffect(c)
    <3>1. ~Worked(c.worker, c.job) /\ \A d \in executing' : d.worker # c.worker \/ d.job # c.job
      BY <1>0, <2>1 DEF Exclusive
    <3>2. /\ OneEffectPerWorker'
          /\ \A w, j : Worked(w, j)' <=> Worked(w, j) \/ (w = c.worker /\ j = c.job)
          /\ \A n \in DOMAIN effects' : \/ n \in DOMAIN effects /\ effects'[n] = effects[n]
                                        \/ effects'[n] = [worker |-> c.worker, job |-> c.job, rev |-> c.rev]
      BY <1>0, <2>4, <3>1, OneMore
    <3>3. Exclusive'
      BY <1>0, <2>1, <3>1, <3>2 DEF Exclusive
    <3>4. ClaimOwns'
      BY <1>0, <2>1, <3>2 DEF ClaimOwns
    <3> QED
      BY <2>2, <3>2, <3>3, <3>4 DEF WorkInv
  <2> QED
    BY <2>1, <2>3, <2>4
<1>3. ASSUME NEW c \in InTransit, NEW j \in Jobs, NewLease(c, j)
      PROVE  WorkInv'
  <2>1. /\ ~jobs'[j].dispatchStarted /\ (\A i \in Jobs \ {j} : jobs'[i] = jobs[i])
        /\ \A i \in Jobs : jobs'[i].type = jobs[i].type
        /\ UNCHANGED <<effects, executing>> /\ ~GateHeld
    BY <1>3 DEF NewLease, Untouched
  <2>2. Exclusive'
    BY <1>0, <2>1 DEF Exclusive, Worked
  <2>3. OneEffectPerWorker'
    BY <1>0, <2>1 DEF OneEffectPerWorker
  <2>4. ClaimOwns'
    BY <1>0, <2>1 DEF ClaimOwns
  <2>5. HolderClaimed'
    BY <1>0, <2>1 DEF HolderClaimed, GateHeld, Phased
  <2> QED
    BY <2>2, <2>3, <2>4, <2>5 DEF WorkInv
<1>4. ASSUME NEW c \in InTransit, NewClaim(c)
      PROVE  WorkInv'
  <2>1. /\ c.job \in Jobs /\ c.worker \in Workers /\ c.rev \in Revisions
        /\ jobs[c.job].leasedBy = c.worker /\ jobs[c.job].leaseRevision = c.rev
        /\ ~Worked(c.worker, c.job) /\ ~GateHeld
        /\ \A d \in executing : d.worker # c.worker \/ d.job # c.job
    BY <1>4, TransitType DEF NewClaim, MayClaim, Active, Replayable, Worked, Calls
  <2>2. /\ \A i \in Jobs : jobs'[i].type = jobs[i].type /\ jobs'[i].leaseRevision = jobs[i].leaseRevision
        /\ jobs'[c.job].leasedBy = c.worker /\ jobs'[c.job].status = "running"
        /\ jobs'[c.job].dispatchStarted
        /\ \A i \in Jobs \ {c.job} : jobs'[i] = jobs[i]
        /\ executing' = executing \cup {c} /\ UNCHANGED effects
    BY <1>4, <2>1 DEF NewClaim, Continues, Untouched
  <2>3. Exclusive'
    BY <1>0, <2>1, <2>2 DEF Exclusive, Worked
  <2>4. OneEffectPerWorker'
    BY <1>0, <2>2 DEF OneEffectPerWorker
  <2>5. ClaimOwns'
    BY <1>0, <2>1, <2>2 DEF ClaimOwns, Worked
  <2>6. HolderClaimed'
    <3>1. \A d \in executing : Phased(d.job) /\ Phased(d.job)'
      BY <1>0, <2>1, <2>2 DEF GateHeld, Phased
    <3> QED
      BY <2>1, <2>2, <3>1 DEF HolderClaimed
  <2> QED
    BY <2>3, <2>4, <2>5, <2>6 DEF WorkInv
<1> QED
  BY <1>1, <1>2, <1>3, <1>4, Evolution

-------------------------------------------------------------------------------
(***************************************************************************)
(* A worker that reports success saw its dispatch succeed.                 *)
(***************************************************************************)
Seen ==
  /\ \A w \in Workers : pc[w] = "succeed" \/ (pc[w] = "dispatch" /\ call[w] = "ok") => Worked(w, cur[w].job)
  /\ \A c \in strays : c.kind = "succeed" => Worked(c.worker, c.job)

WorkedNext(w, j) == \E n \in DOMAIN effects' : effects'[n].worker = w /\ effects'[n].job = j

\* Work that took effect stays.
LEMMA WorkedGrows ==
  ASSUME TypeInv, [Next]_vars, NEW w, NEW j, Worked(w, j)
  PROVE  WorkedNext(w, j)
<1>1. ASSUME UNCHANGED effects
      PROVE  WorkedNext(w, j)
  BY <1>1 DEF Worked, WorkedNext
<1>2. ASSUME NEW c, c.worker \in Workers, c.job \in Jobs, c.rev \in Revisions, TakesEffect(c)
      PROVE  WorkedNext(w, j)
  BY <1>2, EffectAppended DEF Worked, WorkedNext, TypeInv, TypeOK
<1>3. CASE \E c \in executing : FinishDispatch(c)
  <2>1. PICK c \in executing : FinishDispatch(c)
    BY <1>3
  <2> QED
    BY <1>1, <1>2, <2>1, FinishJob
<1> QED
  BY <1>1, <1>3, Evolution DEF NewLease, NewClaim

\* A dispatch that takes effect is done.
LEMMA WorkDone ==
  ASSUME TypeInv, NEW c, c.worker \in Workers, c.job \in Jobs, c.rev \in Revisions, TakesEffect(c)
  PROVE  WorkedNext(c.worker, c.job)
<1> DEFINE e == [worker |-> c.worker, job |-> c.job, rev |-> c.rev]
<1>1. \E n \in DOMAIN effects' : effects'[n] = e
  BY EffectAppended DEF TypeInv, TypeOK
<1>2. e.worker = c.worker /\ e.job = c.job
  OBVIOUS
<1> HIDE DEF e
<1> QED
  BY <1>1, <1>2 DEF WorkedNext

\* A worker that has work to report, or reports it, is given no other job.
LEMMA ServeSees ==
  ASSUME TypeInv, Seen, [Next]_vars, NEW c \in InTransit, Serve(c)
  PROVE  Seen'
<1>1. UNCHANGED pc /\ strays' \subseteq strays /\ \E a : Answer(c, a)
  <2>1. \E a : Answer(c, a)
    <3>1. CASE ReplayLease(c)
      BY <3>1 DEF ReplayLease, Grant
    <3>2. CASE LeaseNextAdminJob(c)
      BY <3>2 DEF LeaseNextAdminJob, Grant
    <3>3. CASE Heartbeat(c)
      BY <3>3 DEF Heartbeat
    <3>4. CASE Dispatch(c)
      BY <3>4 DEF Dispatch
    <3>5. CASE Settle(c)
      BY <3>5 DEF Settle
    <3> QED
      BY <3>1, <3>2, <3>3, <3>4, <3>5 DEF Serve
  <2>2. UNCHANGED pc
    BY DEF Serve, ReplayLease, LeaseNextAdminJob, Heartbeat, Dispatch, Settle
  <2> QED
    BY <2>1, <2>2, AnswerStep
<1>2. ASSUME NEW w \in Workers, pc[w] # "lease"
      PROVE  cur'[w] = cur[w]
  <2>1. ASSUME NEW j, NEW rev, Grant(c, j, rev), c.kind = "lease"
        PROVE  cur'[w] = cur[w]
    <3>1. Awaited(c) => c.worker # w
      BY <1>2, <2>1 DEF Awaited, Call
    <3> QED
      BY <2>1, <3>1 DEF Grant, TypeInv, TypeOK, WorkerTypeOK
  <2>2. CASE ReplayLease(c)
    BY <2>1, <2>2 DEF ReplayLease
  <2>3. CASE LeaseNextAdminJob(c)
    BY <2>1, <2>3 DEF LeaseNextAdminJob
  <2>4. CASE Heartbeat(c) \/ Dispatch(c) \/ Settle(c)
    BY <2>4 DEF Heartbeat, Dispatch, Settle
  <2> QED
    BY <2>2, <2>3, <2>4 DEF Serve
<1>3. ASSUME NEW w \in Workers, pc[w] = "dispatch", call'[w] = "ok", call[w] # "ok"
      PROVE  WorkedNext(w, cur[w].job)
  <2>1. c = Call(w) /\ c.worker = w /\ c.kind = "dispatch" /\ c.job = cur[w].job /\ c.rev = cur[w].rev
    BY <1>1, <1>3, AnswerStep DEF Call
  <2>2. Dispatch(c)
    BY <2>1 DEF Serve, ReplayLease, LeaseNextAdminJob, Heartbeat, Settle
  <2>3. ASSUME NEW a, a # "ok", Answer(c, a)
        PROVE  FALSE
    BY <1>3, <2>3, AnswerStep
  <2>4. Replayable(c)
    BY <2>2, <2>3, DispatchJob
  <2> QED
    BY <2>1, <2>4, WorkedGrows DEF Replayable, Worked, WorkedNext
<1>4. \A w \in Workers :
        pc'[w] = "succeed" \/ (pc'[w] = "dispatch" /\ call'[w] = "ok") =>
          WorkedNext(w, cur'[w].job)
  <2>1. SUFFICES ASSUME NEW w \in Workers, pc'[w] = "succeed" \/ (pc'[w] = "dispatch" /\ call'[w] = "ok")
                 PROVE  WorkedNext(w, cur'[w].job)
    OBVIOUS
  <2>2. pc[w] # "lease" /\ cur'[w] = cur[w]
    BY <1>1, <1>2, <2>1
  <2>3. CASE Worked(w, cur[w].job)
    <3>1. WorkedNext(w, cur[w].job)
      BY <2>2, <2>3, WorkedGrows DEF Worked, WorkedNext
    <3> QED
      BY <2>2, <3>1 DEF Worked, WorkedNext
  <2>4. CASE ~Worked(w, cur[w].job)
    BY <1>1, <1>3, <2>1, <2>2, <2>4 DEF Seen
  <2> QED
    BY <2>3, <2>4
<1>5. \A d \in strays' : d.kind = "succeed" => WorkedNext(d.worker, d.job)
  BY <1>1, WorkedGrows DEF Seen
<1> QED
  BY <1>4, <1>5 DEF Seen, Worked, WorkedNext

\* Whatever a worker does next, it reports only what it saw.
LEMMA EnterSees ==
  ASSUME TypeInv, Seen, UNCHANGED effects, NEW w \in Workers, NEW next, Enter(w, next),
         \A v \in Workers : v # w => cur'[v] = cur[v],
         next = "succeed" => pc[w] = "dispatch" /\ call[w] = "ok" /\ cur'[w] = cur[w],
         UNCHANGED strays \/ LetGo(w)
  PROVE  Seen'
<1>1. /\ pc'[w] = next /\ call'[w] # "ok"
      /\ \A v \in Workers : v # w => pc'[v] = pc[v] /\ call'[v] = call[v]
  BY DEF Enter, TypeInv, TypeOK, WorkerTypeOK
<1>2. \A v \in Workers :
        pc'[v] = "succeed" \/ (pc'[v] = "dispatch" /\ call'[v] = "ok") =>
          WorkedNext(v, cur'[v].job)
  BY <1>1 DEF Seen, Worked, WorkedNext
<1>3. \A c \in strays' : c.kind = "succeed" => WorkedNext(c.worker, c.job)
  BY DEF LetGo, Call, Seen, Worked, WorkedNext
<1> QED
  BY <1>2, <1>3 DEF Seen, Worked, WorkedNext

\* Every step keeps what the workers saw.
LEMMA SeenStep ==
  ASSUME TypeInv, Seen, [Next]_vars
  PROVE  Seen'
<1>1. ASSUME NEW c \in InTransit, Serve(c)
      PROVE  Seen'
  BY <1>1, ServeSees
<1>2. ASSUME NEW c \in executing, FinishDispatch(c)
      PROVE  Seen'
  <2>1. c.worker \in Workers /\ c.job \in Jobs /\ c.rev \in Revisions
    BY DEF TypeInv, TypeOK, LedgerTypeOK, Calls, CallWell
  <2>2. UNCHANGED <<pc, cur, strays>>
    BY <1>2 DEF FinishDispatch
  <2>3. ASSUME NEW w \in Workers, call'[w] = "ok", call[w] # "ok"
        PROVE  c = Call(w) /\ TakesEffect(c)
    BY <1>2, <2>3 DEF FinishDispatch, Ends, Awaited, TypeInv, TypeOK, WorkerTypeOK
  <2>4. ASSUME NEW w \in Workers, call'[w] = "ok", call[w] # "ok"
        PROVE  WorkedNext(w, cur[w].job)
    <3>1. WorkedNext(c.worker, c.job)
      BY <2>1, <2>3, <2>4, WorkDone
    <3> QED
      BY <2>3, <2>4, <3>1 DEF Call
  <2>5. \A w \in Workers :
          pc'[w] = "succeed" \/ (pc'[w] = "dispatch" /\ call'[w] = "ok") =>
            WorkedNext(w, cur[w].job)
    BY <2>2, <2>4, WorkedGrows DEF Seen
  <2>6. \A d \in strays' : d.kind = "succeed" => WorkedNext(d.worker, d.job)
    BY <2>2, WorkedGrows DEF Seen
  <2> QED
    BY <2>2, <2>5, <2>6 DEF Seen, Worked, WorkedNext
<1>3. ASSUME NEW w \in Workers, Poll(w)
      PROVE  Seen'
  BY <1>3, EnterSees DEF Poll, ledger
<1>4. ASSUME NEW w \in Workers, Receive(w)
      PROVE  Seen'
  <2> DEFINE next == IF call[w] = "ok" THEN AfterSuccess[pc[w]] ELSE AfterError[pc[w]]
  <2>1. pc[w] \in Kinds
    BY <1>4 DEF Receive, TypeInv, TypeOK, WorkerTypeOK, WorkerWell
  <2>2. next = "succeed" => pc[w] = "dispatch" /\ call[w] = "ok"
    BY <2>1 DEF AfterSuccess, AfterError, Kinds
  <2>3. /\ Enter(w, next) /\ UNCHANGED <<effects, strays>>
        /\ UNCHANGED <<cur, req>> \/ (next = "idle" /\ Drop(w))
    BY <1>4 DEF Receive
  <2> HIDE DEF next
  <2>4. (\A v \in Workers : v # w => cur'[v] = cur[v]) /\ (next = "succeed" => cur'[w] = cur[w])
    BY <2>3, DropType
  <2> QED
    BY <2>2, <2>3, <2>4, EnterSees
<1>5. ASSUME NEW w \in Workers, TimeOut(w)
      PROVE  Seen'
  <2>1. pc[w] \in Kinds
    BY <1>5 DEF TimeOut, TypeInv, TypeOK, WorkerTypeOK
  <2>2. PICK next \in {"lease", AfterError[pc[w]]} : Enter(w, next) /\ (UNCHANGED <<cur, req>> \/ Drop(w))
    BY <1>5 DEF TimeOut
  <2>3. next # "succeed" /\ LetGo(w) /\ UNCHANGED effects
    BY <1>5, <2>1, <2>2 DEF TimeOut, AfterError, Kinds, ledger
  <2>4. \A v \in Workers : v # w => cur'[v] = cur[v]
    BY <2>2, DropType
  <2> QED
    BY <2>2, <2>3, <2>4, EnterSees
<1>6. ASSUME NEW w \in Workers, Abandon(w) \/ WorkerCrash(w)
      PROVE  Seen'
  <2>1. Enter(w, "idle") /\ Drop(w) /\ LetGo(w) /\ UNCHANGED effects
    BY <1>6 DEF Abandon, WorkerCrash, ledger
  <2> QED
    BY <2>1, DropType, EnterSees
<1>7. ASSUME UNCHANGED <<effects, worker, strays>>
      PROVE  Seen'
  BY <1>7 DEF Seen, Worked, WorkedNext, worker
<1>8. ASSUME NEW j \in Jobs, Create(j) \/ Expire(j) \/ Admin(j)
      PROVE  Seen'
  <2>1. UNCHANGED <<effects, worker, strays>>
    BY <1>8, JobStep, AdminJob
  <2> QED
    BY <1>7, <2>1
<1>9. CASE Forget \/ UNCHANGED vars
  BY <1>7, <1>9 DEF Forget, vars, worker
<1> QED
  BY <1>1, <1>2, <1>3, <1>4, <1>5, <1>6, <1>8, <1>9 DEF Next

-------------------------------------------------------------------------------
(***************************************************************************)
(* The theorems.                                                           *)
(***************************************************************************)

\* A job is settled as succeeded by the call that says so, and stays settled
\* under the same lease.
LEMMA SucceededStep ==
  ASSUME TypeInv, [Next]_vars, NEW j \in Jobs, jobs'[j].status = "succeeded", settler'[j] # None
  PROVE  /\ jobs'[j].leaseRevision = jobs[j].leaseRevision
         /\ \/ jobs[j].status = "succeeded" /\ settler'[j] = settler[j]
            \/ \E c \in InTransit : /\ c.kind = "succeed" /\ c.job = j /\ MaySettle(c)
                                    /\ settler'[j] = c.worker
<1>0. ASSUME UNCHANGED <<jobs, settler>>
      PROVE  /\ jobs'[j].leaseRevision = jobs[j].leaseRevision
             /\ jobs[j].status = "succeeded" /\ settler'[j] = settler[j]
  BY <1>0
<1>1. ASSUME NEW c \in InTransit, Serve(c)
      PROVE  /\ jobs'[j].leaseRevision = jobs[j].leaseRevision
             /\ \/ jobs[j].status = "succeeded" /\ settler'[j] = settler[j]
                \/ c.kind = "succeed" /\ c.job = j /\ MaySettle(c) /\ settler'[j] = c.worker
  <2>1. CASE ReplayLease(c) \/ Heartbeat(c)
    BY <1>0, <2>1 DEF ReplayLease, Heartbeat, ledger
  <2>2. CASE LeaseNextAdminJob(c)
    <3>1. settler' = settler
      BY <2>2 DEF LeaseNextAdminJob
    <3>2. ASSUME NEW i \in Jobs, NewLease(c, i)
          PROVE  jobs'[j] = jobs[j]
      BY <3>2 DEF NewLease, Untouched
    <3>3. ~GateHeld
      BY <1>1 DEF Serve
    <3> QED
      BY <1>0, <2>2, <3>1, <3>2, <3>3, LeaseStep
  <2>3. CASE Dispatch(c)
    <3>1. settler' = settler
      BY <2>3 DEF Dispatch
    <3>2. UNCHANGED jobs \/ (jobs'[c.job].status = "running" /\ \A i \in Jobs \ {c.job} : Untouched(i))
      BY <2>3, DispatchJob
    <3> QED
      BY <3>1, <3>2 DEF Untouched
  <2>4. CASE Settle(c)
    <3>1. CASE UNCHANGED <<jobs, settler>>
      BY <1>0, <3>1
    <3>2. CASE ~UNCHANGED <<jobs, settler>>
      <4>1. /\ Continues(c.job) /\ \A i \in Jobs \ {c.job} : Untouched(i)
            /\ c.job \in Jobs /\ MaySettle(c)
            /\ jobs'[c.job].status = IF c.kind = "succeed" THEN "succeeded" ELSE "failed"
            /\ settler' = [settler EXCEPT ![c.job] = c.worker]
        BY <2>4, <3>2, SettleJob
      <4>2. settler \in [Jobs -> Workers \cup {None}]
        BY DEF TypeInv, TypeOK, LedgerTypeOK
      <4> QED
        BY <4>1, <4>2 DEF Continues, Untouched
    <3> QED
      BY <3>1, <3>2
  <2> QED
    BY <1>1, <2>1, <2>2, <2>3, <2>4 DEF Serve
<1>2. ASSUME NEW w \in Workers, Poll(w) \/ Receive(w) \/ TimeOut(w) \/ Abandon(w) \/ WorkerCrash(w)
      PROVE  UNCHANGED <<jobs, settler>>
  BY <1>2 DEF Poll, Receive, TimeOut, Abandon, WorkerCrash, ledger
<1>3. ASSUME NEW i \in Jobs, Create(i) \/ Expire(i)
      PROVE  /\ jobs'[j].leaseRevision = jobs[j].leaseRevision
             /\ jobs[j].status = "succeeded" /\ settler'[j] = settler[j]
  BY <1>3, JobStep DEF Continues, Untouched
<1>4. ASSUME NEW i \in Jobs, Admin(i)
      PROVE  /\ jobs'[j].leaseRevision = jobs[j].leaseRevision
             /\ jobs[j].status = "succeeded" /\ settler'[j] = settler[j]
  <2>1. settler' = [settler EXCEPT ![i] = None] /\ settler \in [Jobs -> Workers \cup {None}]
    BY <1>4, AdminJob DEF TypeInv, TypeOK, LedgerTypeOK
  <2>2. i # j
    BY <2>1
  <2> QED
    BY <1>4, <2>1, <2>2, AdminJob DEF Untouched
<1>5. CASE Forget \/ UNCHANGED vars
  BY <1>0, <1>5 DEF Forget, vars
<1>6. ASSUME NEW c \in executing, FinishDispatch(c)
      PROVE  /\ jobs'[j].leaseRevision = jobs[j].leaseRevision
             /\ jobs[j].status = "succeeded" /\ settler'[j] = settler[j]
  BY <1>6, FinishJob DEF FinishDispatch, Continues
<1> QED
  BY <1>0, <1>1, <1>2, <1>3, <1>4, <1>5, <1>6 DEF Next

LedgerInv ==
  /\ TypeInv /\ Latest /\ RepeatedLeaseClaimsOnce /\ WorkInv /\ Seen /\ SucceededMeansDispatched

\* A report of success is believed of the lease that did the work.
LEMMA SettledStep ==
  ASSUME LedgerInv, TypeInv', [Next]_vars
  PROVE  SucceededMeansDispatched'
<1>0. /\ TypeInv /\ Seen /\ ClaimOwns /\ SucceededMeansDispatched
      /\ effects \in Seq([worker : Workers, job : Jobs, rev : Revisions])
  BY DEF LedgerInv, WorkInv, TypeInv, TypeOK, LedgerTypeOK
<1>1. ASSUME NEW n \in DOMAIN effects
      PROVE  n \in DOMAIN effects' /\ effects'[n] = effects[n]
  <2>1. ASSUME UNCHANGED effects
        PROVE  n \in DOMAIN effects' /\ effects'[n] = effects[n]
    BY <2>1
  <2>2. ASSUME NEW c, c.worker \in Workers, c.job \in Jobs, c.rev \in Revisions, TakesEffect(c)
        PROVE  n \in DOMAIN effects' /\ effects'[n] = effects[n]
    BY <1>0, <2>2, EffectAppended DEF TypeInv, TypeOK
  <2>3. ASSUME NEW c \in executing, FinishDispatch(c)
        PROVE  n \in DOMAIN effects' /\ effects'[n] = effects[n]
    BY <1>0, <2>1, <2>2, <2>3, FinishJob
  <2> QED
    BY <1>0, <2>1, <2>3, Evolution DEF NewLease, NewClaim
<1>2. ASSUME NEW j \in Jobs, jobs'[j].status = "succeeded", settler'[j] # None
      PROVE  \E n \in DOMAIN effects' :
               effects'[n] = [worker |-> settler'[j], job |-> j, rev |-> jobs'[j].leaseRevision]
  <2>1. jobs'[j].leaseRevision = jobs[j].leaseRevision
    BY <1>0, <1>2, SucceededStep
  <2>2. CASE jobs[j].status = "succeeded" /\ settler'[j] = settler[j]
    <3>1. PICK n \in DOMAIN effects :
            effects[n] = [worker |-> settler[j], job |-> j, rev |-> jobs[j].leaseRevision]
      BY <1>0, <1>2, <2>2 DEF SucceededMeansDispatched
    <3> QED
      BY <1>1, <2>1, <2>2, <3>1
  <2>3. ASSUME NEW c \in InTransit, c.kind = "succeed", c.job = j, MaySettle(c), settler'[j] = c.worker
        PROVE  \E n \in DOMAIN effects :
                 effects[n] = [worker |-> settler'[j], job |-> j, rev |-> jobs[j].leaseRevision]
    <3>1. Worked(c.worker, j)
      BY <1>0, <2>3 DEF InTransit, Call, Seen
    <3>2. jobs[j].dispatchStarted /\ jobs[j].leasedBy = c.worker /\ c.worker # None
      BY <1>2, <2>3 DEF MaySettle, Active
    <3>3. PICK n \in DOMAIN effects :
            effects[n].worker = c.worker /\ effects[n].job = j /\ effects[n].rev = jobs[j].leaseRevision
      BY <1>0, <3>1, <3>2 DEF Worked, ClaimOwns
    <3>4. effects[n] \in [worker : Workers, job : Jobs, rev : Revisions]
      <4> DEFINE E == [worker : Workers, job : Jobs, rev : Revisions]
      <4>1. effects \in Seq(E)
        BY <1>0
      <4> HIDE DEF E
      <4>2. effects[n] \in E
        BY <4>1
      <4> QED
        BY <4>2 DEF E
    <3>5. effects[n] = [worker |-> effects[n].worker, job |-> effects[n].job, rev |-> effects[n].rev]
      BY <3>4
    <3> QED
      BY <2>3, <3>3, <3>5
  <2>4. CASE \E c \in InTransit : /\ c.kind = "succeed" /\ c.job = j /\ MaySettle(c)
                                  /\ settler'[j] = c.worker
    BY <1>1, <2>1, <2>3, <2>4
  <2> QED
    BY <1>0, <1>2, <2>2, <2>4, SucceededStep
<1> QED
  BY <1>2 DEF SucceededMeansDispatched, TypeInv

\* Everything holds at the start.
LEMMA LedgerInit == Init => LedgerInv
<1> SUFFICES ASSUME Init PROVE LedgerInv
  OBVIOUS
<1>1. TypeInv
  BY TypeInit
<1>2. Latest /\ RepeatedLeaseClaimsOnce /\ Exclusive /\ OneEffectPerWorker /\ Seen
  BY DEF Init, Latest, RepeatedLeaseClaimsOnce, Exclusive, OneEffectPerWorker, Seen
<1>3. ClaimOwns /\ HolderClaimed /\ \A j \in Jobs : settler[j] = None
  BY DEF Init, ClaimOwns, HolderClaimed
<1> QED
  BY <1>1, <1>2, <1>3 DEF LedgerInv, WorkInv, SucceededMeansDispatched, TypeInv

\* The ledger's invariant is inductive.
LEMMA LedgerStep == LedgerInv /\ [Next]_vars => LedgerInv'
<1> SUFFICES ASSUME LedgerInv, [Next]_vars PROVE LedgerInv'
  OBVIOUS
<1>1. TypeInv'
  BY TypeStep DEF LedgerInv
<1> QED
  BY <1>1, ClaimStep, WorkStep, SeenStep, SettledStep DEF LedgerInv

\* The ledger's invariant always holds.
THEOREM LedgerCorrect == Spec => []LedgerInv
BY LedgerInit, LedgerStep, PTL DEF Spec

\* A lease request that is sent again takes no second job or attempt while its
\* first lease is the newest of its job.
THEOREM LeasesOnce == Spec => []RepeatedLeaseClaimsOnce
<1>1. LedgerInv => RepeatedLeaseClaimsOnce
  BY DEF LedgerInv
<1> QED
  BY <1>1, LedgerCorrect, PTL

\* However often a worker leases and dispatches a job, its work takes effect
\* once.
THEOREM WorksOnce == Spec => []OneEffectPerWorker
<1>1. LedgerInv => OneEffectPerWorker
  BY DEF LedgerInv, WorkInv
<1> QED
  BY <1>1, LedgerCorrect, PTL

\* A job a worker settled as succeeded was dispatched, with effect, under the
\* very lease that settled it.
THEOREM SettledWasDispatched == Spec => []SucceededMeansDispatched
<1>1. LedgerInv => SucceededMeansDispatched
  BY DEF LedgerInv
<1> QED
  BY <1>1, LedgerCorrect, PTL

\* Work done inside the gate is claimed, and under the newest lease of its job.
LEMMA UnderLease ==
  ASSUME LedgerInv, [Next]_vars, NEW n \in DOMAIN effects' \ DOMAIN effects, ~Phased(effects'[n].job)
  PROVE  /\ jobs[effects'[n].job].status = "running" /\ jobs[effects'[n].job].leasedBy = effects'[n].worker
         /\ jobs[effects'[n].job].dispatchStarted
         /\ \A k \in claims : k.job = effects'[n].job => k.rev <= effects'[n].rev
<1>0. TypeInv /\ HolderClaimed /\ Latest
  BY DEF LedgerInv, WorkInv
<1>1. PICK c \in executing : FinishDispatch(c) /\ TakesEffect(c)
  BY <1>0, Evolution, FinishJob DEF NewLease, NewClaim
<1>2. c.worker \in Workers /\ c.job \in Jobs /\ c.rev \in Revisions
  BY <1>0, <1>1, FinishJob
<1>3. effects'[n] = [worker |-> c.worker, job |-> c.job, rev |-> c.rev]
  BY <1>0, <1>1, <1>2, EffectAppended DEF TypeInv, TypeOK
<1>4. effects'[n].worker = c.worker /\ effects'[n].job = c.job /\ effects'[n].rev = c.rev
  BY <1>3
<1>5. /\ jobs[c.job].status = "running" /\ jobs[c.job].leasedBy = c.worker
      /\ jobs[c.job].dispatchStarted /\ jobs[c.job].leaseRevision = c.rev
  BY <1>0, <1>4 DEF HolderClaimed
<1> QED
  BY <1>0, <1>4, <1>5 DEF Latest

\* Work done inside the gate takes effect under the lease that claimed it, which
\* nobody superseded, settled or took back while the work was under way.
THEOREM DispatchesUnderLease == Spec => DispatchUnderLease
<1>1. LedgerInv /\ [Next]_vars =>
        [\A n \in DOMAIN effects' \ DOMAIN effects :
           LET e == effects'[n] IN
             ~Phased(e.job) =>
               /\ jobs[e.job].status = "running" /\ jobs[e.job].leasedBy = e.worker
               /\ jobs[e.job].dispatchStarted
               /\ \A k \in claims : k.job = e.job => k.rev <= e.rev]_vars
  BY UnderLease
<1> QED
  BY <1>1, LedgerCorrect, PTL DEF Spec, DispatchUnderLease
===============================================================================
