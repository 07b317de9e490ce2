---------------------------- MODULE RestoreIntent ----------------------------
(***************************************************************************)
(* The destructive SQLite restore (SqliteStateStore.restoreBackup), its    *)
(* intent journal, its in-process rollback and the recovery a server runs  *)
(* before it opens its database (apps/api/src/sqlite-store.ts).            *)
(*                                                                         *)
(* Every file operation is a step.  Between any two of them, or in the     *)
(* middle of one, the process may be killed, the machine may lose power,   *)
(* or the operation may throw.  Names created, renamed or removed since    *)
(* the directory was last flushed may be undone by a power loss; the file  *)
(* system is assumed to keep their order and to honour fsync.              *)
(***************************************************************************)
EXTENDS Integers, Sequences

CONSTANTS
  MaxRestores,  \* bound on restores
  MaxWrites,    \* bound on acknowledged writes
  MaxErrors,    \* bound on file operations that throw in a live process
  MaxCrashes    \* bound on kills and power losses

ASSUME RestoreAssumption == {MaxRestores, MaxWrites, MaxErrors, MaxCrashes} \subseteq Nat

\* The two faults that a restore does not survive: a kill or a power loss while
\* the reconciliation is committed, and the entry rolled_back that cannot be
\* written after the original has been opened again.
RareFaults == {"crash_in_commit", "rollback_entry_error"}

VARIABLES
  dir,     \* the names of the storage directory, as processes see them
  lag,     \* the directories a power loss may leave, dir among them
  on,      \* the routine that runs: stage, swap, undo, done or recover
  pc,      \* its next step; or serve, broken, down, refused
  answer,  \* what was said of the last restore, "none" while it is open
  seen,    \* the database as it was last served
  used     \* how much of each bound is used, and the rare faults that struck

vars == <<dir, lag, on, pc, answer, seen, used>>

--------------------------------------------------------------------------------
(* Files. *)

\* A database is what the k-th restore left, with the writes acknowledged since.
Whole(k, n) == [is |-> "whole", restore |-> k, writes |-> n]
File(is) == [is |-> is, restore |-> 0, writes |-> 0]
Absent == File("absent")
Torn == File("torn")            \* part of a copy
Candidate == File("candidate")  \* the backup, not yet reconciled
Half == File("half")            \* pages of an unfinished commit
Corrupt == File("corrupt")
Files == [is : {"whole", "absent", "torn", "candidate", "half", "corrupt"},
          restore : Nat, writes : Nat]

forwardRestoreIntentPhases ==
  <<"preparing", "staged", "live_renamed", "candidate_promoted", "candidate_opened",
    "candidate_migrated", "candidate_loaded", "reconciled", "committed">>
Phases == {forwardRestoreIntentPhases[i] : i \in 1..9} \cup {"rolled_back"}
Decided == {"committed", "rolled_back"}

\* The journal: its lines, and whether it ends in a part of one (or is empty).
Journals == [there : BOOLEAN, lines : Seq(Phases \cup {"garbled"}), part : BOOLEAN]
NoJournal == [there |-> FALSE, lines |-> <<>>, part |-> FALSE]

\* appendRestoreIntent adds to whatever is there, a part of a line included.
Appended(j, phase) ==
  [there |-> TRUE, part |-> FALSE,
   lines |-> Append(j.lines, IF j.part THEN "garbled" ELSE phase)]
LeftByAppend(j, phase) == {j, [j EXCEPT !.there = TRUE, !.part = TRUE], Appended(j, phase)}

validRestoreIntentTransition(current, next) ==
  /\ current # "rolled_back"
  /\ \/ next = "rolled_back"
     \/ \E i \in 1..8 : /\ current = forwardRestoreIntentPhases[i]
                        /\ next = forwardRestoreIntentPhases[i + 1]

\* readRestoreIntent: a part of a line is skipped at the end, and only there.
Readable(j) ==
  /\ j.lines # <<>> /\ j.lines[1] = "preparing"
  /\ \A i \in 1..Len(j.lines) - 1 : validRestoreIntentTransition(j.lines[i], j.lines[i + 1])
PhaseOf(j) == j.lines[Len(j.lines)]

Directories ==
  [live : Files, stage : Files, rollback : Files, journal : Journals,
   hot : BOOLEAN]  \* SQLite's rollback journal of a commit lies beside live
Logged(d, phase) == [d EXCEPT !.journal = Appended(@, phase)]
Renamed(d) == [d EXCEPT !.rollback = d.live, !.live = Absent]
Promoted(d) == [d EXCEPT !.live = d.stage, !.stage = Absent]
Cleared(d) == [d EXCEPT !.journal = NoJournal]

\* SQLite undoes an unfinished commit with the journal it finds beside the
\* database, whichever database that is.
Opened(d) ==
  [d EXCEPT !.hot = FALSE,
            !.live = IF ~d.hot THEN @ ELSE IF @ = Half THEN Candidate ELSE Corrupt]

TypeOK ==
  /\ dir \in Directories /\ lag \subseteq Directories /\ dir \in lag
  /\ on \in {"none", "stage", "swap", "undo", "done", "recover"}
  /\ pc \in Phases \cup {"serve", "broken", "down", "refused", "copy", "flush", "rename", "promote",
                         "begin", "commit", "copyBack", "flushBack", "putBack", "reopen",
                         "rmStage", "rmRollback", "clear", "resolve", "open"}
  /\ answer \in {"idle", "none", "passed", "failed", "lost"}
  /\ seen \in Files
  /\ used \in [restores : 0..MaxRestores, writes : 0..MaxWrites,
               errors : 0..MaxErrors, crashes : 0..MaxCrashes, struck : SUBSET RareFaults]

Init ==
  /\ dir = [live |-> Whole(0, 0), stage |-> Absent, rollback |-> Absent, journal |-> NoJournal, hot |-> FALSE]
  /\ lag = {dir} /\ on = "none" /\ pc = "serve" /\ answer = "idle" /\ seen = dir.live
  /\ used = [restores |-> 0, writes |-> 0, errors |-> 0, crashes |-> 0, struck |-> {}]

--------------------------------------------------------------------------------
(* Steps. *)

Cached(d) == dir' = d /\ lag' = lag \cup {d}
Flushed(d) == dir' = d /\ lag' = {d}          \* fsyncFile, fsyncDirectory
Goto(step) == pc' = step /\ UNCHANGED <<on, answer, seen, used>>
Enter(routine, step) == on' = routine /\ pc' = step /\ UNCHANGED <<answer, seen>>
Serve(a) == on' = "none" /\ pc' = "serve" /\ answer' = a /\ seen' = dir'.live

\* Whether an error or a crash at the present step is one of RareFaults.
Striking(bound) ==
  {f \in RareFaults :
     \/ f = "crash_in_commit" /\ bound = "crashes" /\ pc = "commit"
     \/ f = "rollback_entry_error" /\ bound = "errors" /\ on = "undo" /\ pc = "rolled_back"}
Count(bound) == used' = [used EXCEPT ![bound] = @ + 1, !.struck = @ \cup Striking(bound)]

\* flushNow commits a write before it is acknowledged.
Write ==
  /\ pc = "serve" /\ used.writes < MaxWrites
  /\ LET live == [dir.live EXCEPT !.writes = @ + 1] IN
       /\ dir' = [dir EXCEPT !.live = live] /\ seen' = live
       /\ lag' = {[d EXCEPT !.live = live] : d \in lag}
  /\ Count("writes") /\ UNCHANGED <<on, pc, answer>>

\* A restore that passed its revision check and its drill; both change nothing.
\* The journal is created with "wx": one that is still there fails the restore.
restoreBackup ==
  /\ pc = "serve" /\ used.restores < MaxRestores
  /\ Count("restores") /\ UNCHANGED <<dir, lag, seen>>
  /\ IF dir.journal.there
     THEN answer' = "failed" /\ UNCHANGED <<on, pc>>
     ELSE answer' = "none" /\ on' = "stage" /\ pc' = "preparing"

\* advanceRestoreIntent: append, fsync the journal, fsync the directory.
Advance(phase, step) == pc = phase /\ Flushed(Logged(dir, phase)) /\ Goto(step)

Record == Advance("preparing", "copy")
Stage == pc = "copy" /\ Cached([dir EXCEPT !.stage = Candidate]) /\ Goto("flush")
FlushStage == pc = "flush" /\ Flushed(dir) /\ Goto("staged")
Staged ==
  /\ pc = "staged" /\ Flushed(Logged(dir, "staged"))
  /\ Enter("swap", "rename") /\ UNCHANGED used

\* A slip: no fsyncDirectory between the rename and the entry that reports it.
RenameOnly == pc = "rename" /\ Cached(Renamed(dir)) /\ Goto("live_renamed")

\* this.db.close() and the two renames, each followed by fsyncDirectory.
RenameLive == pc = "rename" /\ Flushed(Renamed(dir)) /\ Goto("live_renamed")
LiveRenamed == Advance("live_renamed", "promote")
PromoteCandidate == pc = "promote" /\ Flushed(Promoted(dir)) /\ Goto("candidate_promoted")
CandidatePromoted == Advance("candidate_promoted", "candidate_opened")
CandidateOpened == Advance("candidate_opened", "candidate_migrated")
CandidateMigrated == Advance("candidate_migrated", "candidate_loaded")
CandidateLoaded == Advance("candidate_loaded", "begin")

\* reconcileRestoredState, save and flush: one SQLite transaction.
BeginCommit ==
  pc = "begin" /\ Flushed([dir EXCEPT !.live = Half, !.hot = TRUE]) /\ Goto("commit")
EndCommit ==
  /\ pc = "commit" /\ Flushed([dir EXCEPT !.live = Whole(used.restores, 0), !.hot = FALSE])
  /\ Goto("reconciled")
Reconciled == Advance("reconciled", "committed")
Committed ==
  /\ pc = "committed" /\ Flushed(Logged(dir, "committed"))
  /\ Enter("done", "rmStage") /\ UNCHANGED used

\* restoreOriginalDatabase, for the rollback and for the recovery.
CopyBack == pc = "copyBack" /\ Cached([dir EXCEPT !.stage = dir.rollback]) /\ Goto("flushBack")
FlushBack == pc = "flushBack" /\ Cached([dir EXCEPT !.live = Absent]) /\ Goto("putBack")
PutBack ==
  /\ pc = "putBack" /\ Flushed(Promoted(dir))
  /\ Goto(IF on = "undo" THEN "reopen"
          ELSE IF PhaseOf(dir.journal) \in Decided THEN "rmStage" ELSE "rolled_back")
RolledBack == Advance("rolled_back", "rmStage")

\* The rollback reopens and loads the original; liveRenamed says whether it moved.
Reopen ==
  /\ pc = "reopen" /\ Flushed(Opened(dir))
  /\ Goto(IF dir.rollback # Absent THEN "rolled_back" ELSE "rmStage")

\* cleanupRestoreArtifacts.
RemoveStage == pc = "rmStage" /\ Cached([dir EXCEPT !.stage = Absent]) /\ Goto("rmRollback")
RemoveRollback == pc = "rmRollback" /\ Cached([dir EXCEPT !.rollback = Absent]) /\ Goto("clear")
Verdict == IF on = "done" THEN "passed" ELSE "failed"
ClearIntent ==
  /\ pc = "clear" /\ Flushed(Cleared(dir))
  /\ IF on = "recover" THEN Goto("open") ELSE Serve(Verdict) /\ UNCHANGED used

--------------------------------------------------------------------------------
(* Startup. *)

Start ==
  /\ pc \in {"down", "refused"} /\ Enter("recover", "resolve") /\ UNCHANGED <<dir, lag, used>>

\* A slip: a rollback file is put back whatever the journal says.
PutBackAlways(d) ==
  LET j == d.journal IN
  IF ~j.there THEN "open"
  ELSE IF ~Readable(j) THEN "refused"
  ELSE IF d.rollback # Absent THEN "copyBack"
  ELSE IF d.live # Absent THEN "rmStage"
  ELSE "refused"

\* recoverInterruptedRestore.
Resolution(d) ==
  LET j == d.journal IN
  IF ~j.there THEN "open"
  ELSE IF ~Readable(j) THEN "refused"
  ELSE IF PhaseOf(j) \in Decided /\ d.live # Absent THEN "rmStage"
  ELSE IF d.rollback # Absent THEN "copyBack"
  ELSE IF d.live # Absent /\ PhaseOf(j) \in {"preparing", "staged"} THEN "rmStage"
  ELSE "refused"
Resolve == pc = "resolve" /\ UNCHANGED <<dir, lag>> /\ Goto(Resolution(dir))

\* The constructor opens, migrates and loads; then the server serves.
OpenDatabase ==
  /\ pc = "open" /\ Flushed(Opened(dir))
  /\ Serve(IF answer = "none" THEN "lost" ELSE answer) /\ UNCHANGED used

--------------------------------------------------------------------------------
(* Faults. *)

\* What the current step may leave of directory d when it does not finish.
Leaves(d) ==
  {d} \cup
  CASE pc = "preparing" ->
         {[dir EXCEPT !.journal = j] : j \in LeftByAppend(NoJournal, pc)}
    [] pc \in Phases \ {"preparing"} -> {[d EXCEPT !.journal = j] : j \in LeftByAppend(d.journal, pc)}
    [] pc \in {"copy", "flush", "copyBack", "flushBack"} -> {[d EXCEPT !.stage = Torn]}
    [] pc = "rename" -> {Renamed(dir)}
    [] pc \in {"promote", "putBack"} -> {Promoted(dir)}
    [] pc = "clear" -> {Cleared(dir)}
    [] OTHER -> {}

\* A step throws.  flushNow rolls its transaction back.
Throws ==
  /\ used.errors < MaxErrors /\ Count("errors")
  /\ IF pc \in {"begin", "commit"}
     THEN Flushed([dir EXCEPT !.live = Candidate, !.hot = FALSE])
     ELSE \E d \in Leaves(dir) : Cached(d)

Cleaning == pc \in {"rmStage", "rmRollback", "clear"}

\* The first catch of restoreBackup; without an intent there is nothing to clean.
StagingFails ==
  /\ on = "stage" /\ Throws
  /\ IF pc = "preparing" \/ Cleaning THEN Serve("failed") ELSE Enter("stage", "rmStage")

\* The second catch: roll back what was renamed.
SwapFails ==
  /\ on = "swap" /\ Throws
  /\ Enter("undo", IF dir'.rollback # Absent THEN "copyBack" ELSE "reopen")

\* The rollback itself fails.  Once the database is open again the process
\* goes on serving it, whether or not the journal says rolled_back.
RollbackFails ==
  /\ on = "undo" /\ Throws
  /\ IF Cleaning \/ pc = "rolled_back" THEN Serve("failed") ELSE Enter("none", "broken")

\* Cleanup after the commit fails: restore_commit_cleanup_pending.
CommitCleanupFails == on = "done" /\ Throws /\ Serve("passed")

Running == pc \notin {"down", "refused"}
Crash == used.crashes < MaxCrashes /\ Count("crashes") /\ Enter("none", "down")

\* The process dies, also of an error at startup: what it wrote stays visible.
Kill == Running /\ Crash /\ \E d \in Leaves(dir) : Cached(d)
PowerLoss == Crash /\ \E before \in lag : \E d \in Leaves(before) : Flushed(d)

Stop == pc \in {"serve", "broken"} /\ Enter("none", "down") /\ UNCHANGED <<dir, lag, used>>

--------------------------------------------------------------------------------
Restore ==
  \/ restoreBackup \/ Record \/ Stage \/ FlushStage \/ Staged
  \/ RenameLive \/ LiveRenamed \/ PromoteCandidate \/ CandidatePromoted
  \/ CandidateOpened \/ CandidateMigrated \/ CandidateLoaded
  \/ BeginCommit \/ EndCommit \/ Reconciled \/ Committed
Repair ==
  \/ CopyBack \/ FlushBack \/ PutBack \/ Reopen \/ RolledBack
  \/ RemoveStage \/ RemoveRollback \/ ClearIntent
Startup == Start \/ Resolve \/ OpenDatabase
Failure == StagingFails \/ SwapFails \/ RollbackFails \/ CommitCleanupFails \/ Kill \/ PowerLoss

Next == Write \/ Restore \/ Repair \/ Startup \/ Failure \/ Stop

Spec == Init /\ [][Next]_vars

--------------------------------------------------------------------------------
(* Properties. *)

Installed == Whole(used.restores, 0)

\* The database a startup would serve from directory d.
Outcome(d) == IF Resolution(d) = "copyBack" THEN d.rollback ELSE d.live

\* A startup refuses only over a journal it cannot read, and the database
\* last served is then still there for the operator (recoverInterruptedRestore,
\* restoreOriginalDatabase, which copies the rollback file and never moves it).
RefusalKeepsTheDatabase ==
  pc = "refused" => ~Readable(dir.journal) /\ seen \in {dir.live, dir.rollback}

\* A rare fault struck: SQLite's rollback journal outlives the file it belongs
\* to (restoreBackup 915-923), or a database is served that the next startup
\* will replace (978-983).
Struck == used.struck # {}

\* Whatever a crash leaves at any moment of a restore, of its rollback or of an
\* earlier recovery, the next startup finds the original with every
\* acknowledged write, or the reconciled backup once the commit was being
\* recorded; and when it refuses to choose, the original is still whole
\* (the order of renames, fsyncs and journal entries in restoreBackup).  So
\* until a rare fault struck, after which the code keeps none of this.
EveryCrashHasAWayBack ==
  TypeOK /\ (~Struck => RefusalKeepsTheDatabase /\ \A d \in lag :
    IF d.journal.there /\ ~Readable(d.journal)
    THEN seen \in {d.live, d.rollback}
    ELSE /\ Resolution(d) # "refused"
         /\ \/ Outcome(d) = seen
            \/ answer = "none" /\ on # "stage" /\ Outcome(d) = Installed)

Promise == INSTANCE AtomicRestore WITH db <- seen, void <- Struck

\* The database that is served changes by one acknowledged write or by one
\* whole restore, across kills, power losses and restarts, and the answer of a
\* restore is true (restoreBackup and the constructor's recovery together).  A
\* rare fault voids the promise.
ImplementsAtomicRestore == Promise!Spec

\* Once the journal has an entry no crash makes a startup give up, one during
\* an earlier recovery included (docs/deployment/backup-restore.md:135, "another
\* process or machine failure during recovery is safe to retry").
RecoveryIsRetryable == pc = "refused" => dir.journal.lines = <<>>

\* A startup serves the original or the committed restore
\* (docs/deployment/backup-restore.md:135, "rolled back to the original live database").
StartupServesOriginalOrRestored ==
  [][pc = "open" /\ pc' = "serve" => seen' \in {seen, Installed}]_vars
==============================================================================
