---------------------------- MODULE ArchiveImport -----------------------------
(***************************************************************************)
(* The import of a campaign archive, and the operator's rollback of it      *)
(* (apps/api/src/campaign-archive-import-recovery.ts,                       *)
(* archive-asset-restore.ts, the two routes and their hooks in app.ts).     *)
(*                                                                         *)
(* An import replaces records of the state, which become durable in one     *)
(* write, and objects of the asset store, which do so one by one.  Both     *)
(* routes hold the mutation gate (MutationPipeline), so one of them runs at *)
(* a time and other requests' changes come between them, each whole.  Both  *)
(* carry an idempotency key: store.replace() inside the handler is written  *)
(* when the response is sent, or by somebody's flush before that.           *)
(***************************************************************************)
EXTENDS FiniteSets, Integers

CONSTANTS
  Records,       \* ids of the archive's records
  Assets,        \* those that are assets, with an object (file)
  Refers,        \* <<x, y>>: the archive's record x names record y
  MaxFaults,     \* bound on kills, disconnects, failing writes and failing asset store calls
  MaxEdits       \* bound on the users' changes

ASSUME ImportAssumption ==
  /\ Assets \subseteq Records /\ Refers \subseteq Records \X Records
  /\ {MaxFaults, MaxEdits} \subseteq Nat

VARIABLES
  mem, disk,   \* the state, see States, in memory and as it was last written
  dirty,       \* another request's save waits for its write
  object,      \* the asset store
  inverse,     \* its inverse objects, the bytes from before the import
  request,     \* the request that holds the gate
  pc,          \* where it is
  batch,       \* the records its import takes from the archive
  todo,        \* the assets its present loop has to visit
  written,     \* those it has to take back if it fails
  previous,    \* the objects it found
  plan,        \* the steps its rollback rolls back, see Plan
  client,      \* still there, or disconnected and signalled to its AbortController, or
               \* gone before there was one
  attempt,     \* its compensations so far
  torn,        \* assets whose object is not as their record says: left by a kill or a
               \* failed compensation, or taken back while the state stayed
  lost,        \* assets whose bytes from before the import a request gives up while the
               \* operation that leads back to them stays
  faults, edits

stateVars == <<mem, disk, dirty>>
requestVars == <<request, pc, batch, todo, written, previous, plan, client, attempt>>
vars == <<stateVars, object, inverse, requestVars, torn, lost, faults, edits>>

\* An object's bytes, and a record's versions: as before the import (relabelled:
\* with the archive's bytes already), as in the archive, edited since, or
\* replaced, bytes and all, by a later import.
Bytes == {"none", "old", "imported", "later"}
Versions == {"none", "old", "relabelled", "imported", "edited", "later"}
BytesOf == [v \in Versions |-> CASE v \in {"relabelled", "imported", "edited"} -> "imported"
                                 [] OTHER -> v]
Newer == {"imported", "edited", "later"}

\* A CampaignArchiveImportOperation; records and files are its steps without a
\* rolledBackAt, was and bytes what they lead back to.
Operations == [status : {"none", "applied", "partially_rolled_back", "rolled_back"},
               records : SUBSET Records, files : SUBSET Assets,
               was : [Records -> Versions], bytes : [Assets -> Bytes]]
States == [rec : [Records -> Versions],
           refs : SUBSET Records,      \* named by records outside the archive
           op : Operations]
TypeOK ==
  /\ mem \in States /\ disk \in States /\ dirty \in BOOLEAN
  /\ object \in [Assets -> Bytes] /\ inverse \in [Assets -> Bytes]
  /\ request \in {"none", "import", "rollback"}
  /\ pc \in {"idle", "prepare", "write", "compensate", "clean", "reply"}
  /\ batch \subseteq Records /\ todo \subseteq Assets /\ written \subseteq Assets
  /\ previous \in [Assets -> Bytes]
  /\ plan \in [records : SUBSET Records, files : SUBSET Assets]
  /\ client \in {"there", "signalled", "gone"} /\ attempt \in 0..2
  /\ torn \subseteq Assets /\ lost \subseteq Assets
  /\ faults \in 0..MaxFaults /\ edits \in 0..MaxEdits

NoPlan == [records |-> {}, files |-> {}]
NoObjects == [a \in Assets |-> "none"]

Init ==
  /\ mem \in [rec : [Records -> {"none", "old", "relabelled"}], refs : {{}},
              op : {[status |-> "none", records |-> {}, files |-> {},
                     was |-> [x \in Records |-> "none"], bytes |-> NoObjects]}]
  /\ \A x \in Records \ Assets : mem.rec[x] # "relabelled"
  /\ disk = mem /\ dirty = FALSE
  /\ object = [a \in Assets |-> BytesOf[mem.rec[a]]] /\ inverse = NoObjects
  /\ request = "none" /\ pc = "idle" /\ batch = {} /\ todo = {} /\ written = {}
  /\ previous = NoObjects /\ plan = NoPlan /\ client = "there" /\ attempt = 0
  /\ torn = {} /\ lost = {} /\ faults = 0 /\ edits = 0
-------------------------------------------------------------------------------
Idle == request = "none"

\* Something fails, within the bound.
Fails == faults < MaxFaults /\ faults' = faults + 1

\* restoreDurableState.
Reload == mem' = disk /\ dirty' = FALSE /\ UNCHANGED disk

\* The state is written: store.flush() while the writer is dirty.
Flush(state) ==
  \/ mem' = state /\ disk' = state /\ dirty' = FALSE /\ UNCHANGED faults
  \/ Fails /\ Reload

\* The request gives the gate back.
Done ==
  /\ request' = "none" /\ pc' = "idle" /\ batch' = {} /\ todo' = {} /\ written' = {}
  /\ previous' = NoObjects /\ plan' = NoPlan /\ client' = "there" /\ attempt' = 0

(***************************************************************************)
(* The import.                                                             *)
(***************************************************************************)

\* mode upsert takes every record, skip_conflicts those that do not exist.  One
\* operation is followed at a time: the next import comes when it is rolled back.
StartImport(skip) ==
  /\ Idle /\ mem.op.status \in {"none", "rolled_back"}
  /\ request' = "import" /\ pc' = "prepare"
  /\ batch' = IF skip THEN {x \in Records : mem.rec[x] = "none"} ELSE Records
  /\ todo' = {a \in Assets \cap batch' : object[a] # "imported"}
  /\ UNCHANGED <<stateVars, object, inverse, written, previous, plan, client,
                 attempt, torn, lost, faults, edits>>

\* prepareCampaignArchiveImportAssetSteps copies what the file will replace.
KeepPrevious(a) ==
  /\ request = "import" /\ pc = "prepare" /\ a \in todo
  /\ todo' = todo \ {a}
  /\ inverse' = [inverse EXCEPT ![a] = object[a]]
  /\ UNCHANGED <<stateVars, object, request, pc, batch, written, previous, plan,
                 client, attempt, torn, lost, faults, edits>>

\* A read or a copy fails, or a read of restoreArchivedAssetFiles: nothing has
\* been written, the copies are deleted.
PrepareFails ==
  /\ request = "import" /\ pc = "prepare" /\ Fails
  /\ inverse' = NoObjects
  /\ Reload /\ Done
  /\ UNCHANGED <<object, torn, lost, edits>>

\* Every destination is read before the first write.
BeginRestore ==
  /\ request = "import" /\ pc = "prepare" /\ todo = {}
  /\ pc' = "write" /\ todo' = Assets \cap batch /\ previous' = object
  /\ UNCHANGED <<stateVars, object, inverse, request, batch, written, plan, client,
                 attempt, torn, lost, faults, edits>>

\* The client disconnects.  The AbortController is made after the copies, before the
\* reads: a disconnect before it leaves the request's flag, which its last hook reads.
Disconnect ==
  /\ request = "import" /\ client = "there" /\ Fails
  /\ \/ pc = "prepare" /\ client' = "gone"
     \/ pc = "write" /\ client' = "signalled"
  /\ UNCHANGED <<stateVars, object, inverse, request, pc, batch, todo, written,
                 previous, plan, attempt, torn, lost, edits>>

PutFile(a) ==
  /\ request = "import" /\ pc = "write" /\ a \in todo /\ client # "signalled"
  /\ todo' = todo \ {a} /\ written' = written \cup {a}
  /\ object' = [object EXCEPT ![a] = "imported"]
  /\ UNCHANGED <<stateVars, inverse, request, pc, batch, previous, plan, client,
                 attempt, torn, lost, faults, edits>>

\* A slip: only the puts that succeeded count as attempted.
PutFileFailsUncounted(a) ==
  /\ request = "import" /\ pc = "write" /\ a \in todo /\ client # "signalled" /\ Fails
  /\ object' \in {object, [object EXCEPT ![a] = "imported"]}
  /\ todo' = written /\ pc' = "compensate"
  /\ UNCHANGED <<stateVars, inverse, request, batch, written, previous, plan, client,
                 attempt, torn, lost, edits>>

\* A put throws, having written or not; the entry counts as attempted.
PutFileFails(a) ==
  /\ request = "import" /\ pc = "write" /\ a \in todo /\ client # "signalled" /\ Fails
  /\ object' \in {object, [object EXCEPT ![a] = "imported"]}
  /\ written' = written \cup {a} /\ todo' = written' /\ pc' = "compensate"
  /\ UNCHANGED <<stateVars, inverse, request, batch, previous, plan, client, attempt,
                 torn, lost, edits>>

\* throwIfArchiveRestoreAborted, before and after each put.
RestoreAborted ==
  /\ request = "import" /\ pc = "write" /\ client = "signalled"
  /\ pc' = "compensate" /\ todo' = written
  /\ UNCHANGED <<stateVars, object, inverse, request, batch, written, previous, plan,
                 client, attempt, torn, lost, faults, edits>>

\* store.replace() and store.flush(): the state stays in memory until the reply
\* unless another request's save is waiting, which takes it along.
Replace(state, next) ==
  \/ /\ ~dirty /\ mem' = state /\ pc' = next
     /\ UNCHANGED <<disk, dirty, todo, faults>>
  \/ /\ dirty /\ Flush(state)
     /\ IF faults' = faults THEN pc' = next /\ UNCHANGED todo
                            ELSE pc' = "compensate" /\ todo' = written

\* mergeArchive, and the operation that leads back.
Merged ==
  [mem EXCEPT
     !.rec = [x \in Records |-> IF x \in batch THEN "imported" ELSE @[x]],
     !.op = [status |-> "applied", was |-> mem.rec, bytes |-> previous,
             records |-> {x \in batch : mem.rec[x] # "imported"},
             files |-> {a \in Assets \cap batch : previous[a] # "imported"}]]
MergeArchive ==
  /\ request = "import" /\ pc = "write" /\ todo = {} /\ client # "signalled"
  /\ Replace(Merged, "reply")
  /\ UNCHANGED <<object, inverse, request, batch, written, previous, plan, client,
                 attempt, torn, lost, edits>>
-------------------------------------------------------------------------------
(***************************************************************************)
(* The rollback of the operation.                                          *)
(***************************************************************************)

\* Somebody names record y, in the records rec (stateReferencesId).
Named(rec, y) == y \in mem.refs \/ \E x \in Records : <<x, y>> \in Refers /\ rec[x] \in Newer

\* Two slips: a record is compared by its id only; a file is never satisfied.
ApplicableById(x) == mem.rec[x] # "none"
NeverSatisfied(a) == FALSE

\* campaignArchiveImportRollbackPlan.  A step is satisfied or can be applied, or
\* else in conflict: the record or the bytes changed since the import.
Satisfied(x) == mem.rec[x] = mem.op.was[x]
Applicable(x) == mem.rec[x] = "imported"
FileSatisfied(a) == object[a] = inverse[a] /\ (inverse[a] = "none" <=> mem.op.bytes[a] = "none")
RecordConflicts == {x \in mem.op.records : ~Satisfied(x) /\ ~Applicable(x)}
BytesConflicts ==
  {a \in mem.op.files \ RecordConflicts : ~FileSatisfied(a) /\ object[a] # "imported"}

\* stateWithRecordDecisions.
WithDeleted(steps, deleted) ==
  [x \in Records |-> CASE x \in deleted -> "none"
                       [] x \in steps /\ mem.op.was[x] # "none" -> mem.op.was[x]
                       [] OTHER -> mem.rec[x]]

\* A slip: references are not looked at.
DeletableUnchecked(steps) == {x \in steps : Applicable(x) /\ mem.op.was[x] = "none"}

\* addReferenceConflicts: of the records to delete, as many as nothing that stays
\* names.
Deletable(steps) ==
  LET deletes == {x \in steps : Applicable(x) /\ mem.op.was[x] = "none"}
  IN  UNION {d \in SUBSET deletes : \A y \in d : ~Named(WithDeleted(steps, d), y)}

Plan ==
  LET steps == mem.op.records \ (RecordConflicts \cup BytesConflicts)
      kept == {x \in steps : Applicable(x) /\ mem.op.was[x] = "none"} \ Deletable(steps)
  IN  [records |-> steps \ kept,
       files |-> mem.op.files \ (RecordConflicts \cup BytesConflicts \cup kept)]

\* A read of the asset store that fails answers 500 before any change.
StartRollback ==
  /\ Idle /\ mem.op.status # "none"
  /\ request' = "rollback" /\ pc' = "write"
  /\ plan' = Plan /\ previous' = object
  /\ todo' = {a \in plan'.files : ~FileSatisfied(a)}
  /\ UNCHANGED <<stateVars, object, inverse, batch, written, client, attempt, torn, lost,
                 faults, edits>>

\* put(inverseBody) or delete.
Lost(a) == inverse[a] = "none" /\ mem.op.bytes[a] # "none"
RollBackFile(a) ==
  /\ request = "rollback" /\ pc = "write" /\ a \in todo /\ ~Lost(a)
  /\ todo' = todo \ {a} /\ written' = written \cup {a}
  /\ object' = [object EXCEPT ![a] = inverse[a]]
  /\ UNCHANGED <<stateVars, inverse, request, pc, batch, previous, plan, client,
                 attempt, torn, lost, faults, edits>>

\* "Archive import inverse bytes are missing", or the asset store throws.  The
\* asset is not in appliedAssetWrites: if it was written before, it stays so.
RollBackFileFails(a) ==
  /\ request = "rollback" /\ pc = "write" /\ a \in todo
  /\ IF Lost(a)
     THEN UNCHANGED <<object, faults>>
     ELSE Fails /\ object' \in {object, [object EXCEPT ![a] = inverse[a]]}
  /\ torn' = IF object' = object THEN torn ELSE torn \cup {a}
  /\ Reload
  /\ pc' = "compensate" /\ todo' = written
  /\ UNCHANGED <<inverse, request, batch, written, previous, plan, client, attempt,
                 lost, edits>>

\* stateForCampaignArchiveImportRollback.
RolledBackState ==
  [mem EXCEPT
     !.rec = [x \in Records |-> IF x \in plan.records THEN mem.op.was[x] ELSE @[x]],
     !.op.records = @ \ plan.records,
     !.op.files = @ \ plan.files,
     !.op.status = IF mem.op.records = plan.records /\ mem.op.files = plan.files
                   THEN "rolled_back" ELSE "partially_rolled_back"]
ApplyRollback ==
  /\ request = "rollback" /\ pc = "write" /\ todo = {}
  /\ Replace(RolledBackState, "clean")
  /\ UNCHANGED <<object, inverse, request, batch, written, previous, plan, client,
                 attempt, torn, lost, edits>>

\* deleteCampaignArchiveImportInverseObjects, of all steps rolled back so far.  A
\* deletion that fails leaves an object nobody refers to.
DeleteInverses ==
  /\ request = "rollback" /\ pc = "clean"
  /\ inverse' = [a \in Assets |-> IF a \in mem.op.files THEN inverse[a] ELSE "none"]
  /\ pc' = "reply"
  /\ UNCHANGED <<stateVars, object, request, batch, todo, written, previous, plan,
                 client, attempt, torn, lost, faults, edits>>
-------------------------------------------------------------------------------
(***************************************************************************)
(* Both: the reply, and the compensation of a failed request.              *)
(***************************************************************************)

\* Files that a rollback brings back, unless the import found them torn.
Mended == {a \in plan.files : mem.op.bytes[a] = BytesOf[mem.op.was[a]]}

\* Those of the assets that had an object before the import.
Found(assets) == {a \in assets : mem.op.bytes[a] # "none"}

\* The onSend hooks write the state with the reply's record; then an import
\* forgets the objects it found (commit).
Reply ==
  /\ pc = "reply" /\ client # "gone" /\ disk' = mem /\ dirty' = FALSE /\ UNCHANGED mem
  /\ torn' = torn \ Mended
  /\ Done
  /\ UNCHANGED <<object, inverse, lost, faults, edits>>

\* An import takes its objects back, and will delete their inverse objects; a state
\* that is written by then stays.
TakeBack(stays) ==
  /\ pc' = "compensate" /\ todo' = written
  /\ torn' = IF stays THEN torn \cup mem.op.files ELSE torn
  /\ lost' = IF stays THEN lost \cup Found(written) ELSE lost
  /\ UNCHANGED <<request, batch, written, previous, plan, client, attempt>>

\* The first of the hooks writes the state, the last one finds the flag of a request
\* whose disconnect its AbortController missed.
ReplyToNobody ==
  /\ request = "import" /\ pc = "reply" /\ client = "gone"
  /\ disk' = mem /\ dirty' = FALSE /\ UNCHANGED mem
  /\ TakeBack(TRUE)
  /\ UNCHANGED <<object, inverse, faults, edits>>

\* A rollback that ends, its inverse objects deleted, without its state's write.
Unwritten(isUnwritten) ==
  /\ torn' = IF isUnwritten THEN torn \cup written ELSE torn \ Mended
  /\ lost' = IF isUnwritten THEN lost \cup Found(plan.files) ELSE lost

\* That write fails.  An import takes its objects back, a rollback only the state.
ReplyFails ==
  /\ pc = "reply" /\ Fails /\ Reload
  /\ \/ request = "import" /\ TakeBack(disk = mem)
     \/ request = "rollback" /\ Unwritten(disk # mem) /\ Done
  /\ UNCHANGED <<object, inverse, edits>>

\* CompensatingArchiveAssetRestore.performRollback deletes what was written and
\* puts back what was found; the catch of rollbackCampaignArchiveImportOperation
\* only puts (or deletes) it.
Compensate(a) ==
  /\ pc = "compensate" /\ a \in todo
  /\ todo' = todo \ {a} /\ written' = written \ {a}
  /\ object' = [object EXCEPT ![a] = previous[a]]
  /\ UNCHANGED <<stateVars, inverse, request, pc, batch, previous, plan, client,
                 attempt, torn, lost, faults, edits>>
CompensateFails(a) ==
  /\ pc = "compensate" /\ a \in todo /\ Fails
  /\ todo' = todo \ {a}
  /\ \E b \in {object[a], previous[a]} \cup (IF request = "import" THEN {"none"} ELSE {}) :
       object' = [object EXCEPT ![a] = b]
  /\ UNCHANGED <<stateVars, inverse, request, pc, batch, written, previous, plan,
                 client, attempt, torn, lost, edits>>

\* An import then deletes its inverse objects, and its error passes at least one
\* more hook that tries again what failed (onError or onSend).
Compensated ==
  /\ pc = "compensate" /\ todo = {}
  /\ inverse' = IF request = "import" THEN NoObjects ELSE inverse
  /\ IF request = "import" /\ written # {} /\ attempt = 0
     THEN /\ attempt' = 1 /\ todo' = written
          /\ UNCHANGED <<stateVars, request, pc, batch, written, previous, plan,
                         client, torn>>
     ELSE torn' = torn \cup written /\ Reload /\ Done
  /\ UNCHANGED <<object, lost, faults, edits>>
-------------------------------------------------------------------------------
(***************************************************************************)
(* Around them.                                                            *)
(***************************************************************************)

\* A GET saves its audit row outside the gate, and the writer's timer fires;
\* neither comes between the hooks of one response.
AuditedRead ==
  /\ ~dirty /\ pc # "reply" /\ dirty' = TRUE
  /\ UNCHANGED <<mem, disk, object, inverse, requestVars, torn, lost, faults, edits>>
Timer ==
  /\ dirty /\ pc # "reply" /\ dirty' = FALSE /\ disk' = mem
  /\ UNCHANGED <<mem, object, inverse, requestVars, torn, lost, faults, edits>>

\* The process is killed and started again.
Durable == pc \in {"clean", "reply"} /\ disk = mem
Kill ==
  /\ ~Idle /\ Fails
  /\ torn' = IF Durable THEN torn \ Mended ELSE torn \cup written
  /\ lost' = IF request = "rollback" /\ pc = "reply" /\ disk # mem
             THEN lost \cup Found(plan.files) ELSE lost
  /\ Reload /\ Done
  /\ UNCHANGED <<object, inverse, edits>>

\* What users do between: they edit a record, replace it by another import (whose
\* own rollback brings it back), delete one nobody names, name it or stop to.  A
\* later import that finds a torn object is left out.
Change(rec, refs) ==
  /\ Idle /\ edits < MaxEdits /\ edits' = edits + 1
  /\ mem' = [mem EXCEPT !.rec = rec, !.refs = refs] /\ disk' = mem' /\ dirty' = FALSE
  /\ UNCHANGED <<inverse, requestVars, torn, lost, faults>>
With(x, v) == [mem.rec EXCEPT ![x] = v]
WithBytes(x, b) == IF x \in Assets THEN [object EXCEPT ![x] = b] ELSE object
Edit(x) == mem.rec[x] = "imported" /\ Change(With(x, "edited"), mem.refs) /\ UNCHANGED object
LaterImport(x) ==
  /\ mem.rec[x] = "imported" /\ x \notin torn
  /\ Change(With(x, "later"), mem.refs) /\ object' = WithBytes(x, "later")
LaterImportRolledBack(x) ==
  /\ mem.rec[x] = "later"
  /\ Change(With(x, "imported"), mem.refs) /\ object' = WithBytes(x, "imported")
Delete(x) ==
  /\ x \notin Assets /\ mem.rec[x] # "none" /\ ~Named(mem.rec, x)
  /\ Change(With(x, "none"), mem.refs) /\ UNCHANGED object
Name(x) ==
  /\ mem.rec[x] # "none" /\ x \notin mem.refs
  /\ Change(mem.rec, mem.refs \cup {x}) /\ UNCHANGED object
Unname(x) == x \in mem.refs /\ Change(mem.rec, mem.refs \ {x}) /\ UNCHANGED object

ImportStep ==
  \/ BeginRestore \/ RestoreAborted \/ MergeArchive \/ PrepareFails
  \/ \E a \in Assets : KeepPrevious(a) \/ PutFile(a) \/ PutFileFails(a)
RollbackStep ==
  \/ ApplyRollback \/ DeleteInverses
  \/ \E a \in Assets : RollBackFile(a) \/ RollBackFileFails(a)
EndStep ==
  \/ Reply \/ ReplyToNobody \/ ReplyFails \/ Compensated
  \/ \E a \in Assets : Compensate(a) \/ CompensateFails(a)
UserStep ==
  \E x \in Records : \/ Edit(x) \/ LaterImport(x) \/ LaterImportRolledBack(x)
                     \/ Delete(x) \/ Name(x) \/ Unname(x)

Next ==
  \/ \E skip \in BOOLEAN : StartImport(skip)
  \/ StartRollback \/ ImportStep \/ RollbackStep \/ EndStep
  \/ Disconnect \/ AuditedRead \/ Timer \/ Kill \/ UserStep

Spec == Init /\ [][Next]_vars

\* The handlers run to their end, and the operator repeats a rollback.
FairSpec == Spec /\ WF_vars(ImportStep \/ RollbackStep \/ EndStep) /\ WF_vars(StartRollback)
-------------------------------------------------------------------------------
(***************************************************************************)
(* Properties.                                                             *)
(***************************************************************************)

\* Between requests every asset's object is the one its record describes, but for
\* the torn ones: an import or rollback that fails at one of its steps takes back both
\* halves (rollbackCampaignArchiveImport, CompensatingArchiveAssetRestore, the catch of
\* the rollback).  Torn are the objects that a kill or a failed compensation left half
\* way, and those of an import whose reply took them back after its state was written:
\* its client had gone before the AbortController was there, or the reply's write
\* failed when another request's flush had taken the state along.
ObjectsMatchRecords ==
  TypeOK /\ (Idle => \A a \in Assets \ torn : object[a] = BytesOf[mem.rec[a]])

\* A rollback, whatever fails in it, leaves alone what users or a later import
\* changed (campaignArchiveImportRollbackPlan).
LaterWorkStays ==
  [][request = "rollback" =>
       /\ \A x \in Records : mem.rec[x] \in {"edited", "later"} => mem'.rec[x] = mem.rec[x]
       /\ \A a \in Assets : object[a] = "later" => object'[a] = "later"]_<<mem, object>>

\* No record is missing that a record of the archive's version or later, or one
\* outside the archive, names, in memory or on disk (addReferenceConflicts).
NothingNamedIsMissing ==
  \A s \in {mem, disk} : \A y \in Records :
    s.rec[y] = "none" =>
      y \notin s.refs /\ \A x \in Records : <<x, y>> \in Refers => s.rec[x] \notin Newer

\* A rollback that is repeated until it ends brings back the records and the bytes
\* from before the import, whatever failed or was killed before, if nobody has
\* changed them since and the bytes are not among the lost: those of an import whose
\* objects were taken back while its state stayed, or of a rollback that failed or was
\* killed after deleting its inverse objects and before its state's write.
AsBefore ==
  mem.op.status = "rolled_back" /\ mem.rec = mem.op.was /\ object = mem.op.bytes
RollbackCompletes == mem.op.status = "applied" /\ Idle ~> AsBefore \/ edits > 0 \/ lost # {}

\* A rollback, however it ends, leaves the bytes that each step still to be rolled
\* back leads to (docs/api/rest.md:761, "durable pre-import asset bytes"), unless they
\* were lost before.
RollbackIsRetryable ==
  [][request = "rollback" /\ Idle' =>
       \A a \in disk'.op.files \ lost : inverse'[a] = disk'.op.bytes[a]]_vars
===============================================================================
