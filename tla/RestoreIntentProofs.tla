-------------------------- MODULE RestoreIntentProofs --------------------------
(***************************************************************************)
(* Proofs about RestoreIntent for any number of restores, acknowledged     *)
(* writes, operations that throw, kills and power losses: the invariant    *)
(* that ties each routine's next step to the files it relies on, that      *)
(* every crash has a way back, and that the restore implements             *)
(* AtomicRestore.  What the code does not survive, RareFaults, may happen   *)
(* too: the types outlast it, the rest of the invariant holds until then.  *)
(***************************************************************************)
EXTENDS RestoreIntent, TLAPS

--------------------------------------------------------------------------------
(* The inductive invariant. *)

\* A database a startup may serve: the last served one, or the backup that the
\* open restore has reconciled.
Good(f) == f = seen \/ (answer = "none" /\ f = Installed)

\* A restore is under way in d, by a journal that can be read.
Recorded(d) == d.journal.there /\ Readable(d.journal)
Undone(d) == Recorded(d) /\ PhaseOf(d.journal) # "rolled_back"
At(d, phase) == Recorded(d) /\ ~d.journal.part /\ PhaseOf(d.journal) = phase

\* What recoverInterruptedRestore makes of d is a good database.
WayBack(d) ==
  /\ ~d.journal.there => d.journal = NoJournal /\ d.rollback = Absent /\ Good(d.live)
  /\ d.journal.there /\ ~Readable(d.journal) => seen \in {d.live, d.rollback}
  /\ Recorded(d) =>
       IF PhaseOf(d.journal) \in Decided /\ d.live # Absent THEN Good(d.live)
       ELSE IF d.rollback # Absent THEN d.rollback = seen
       ELSE PhaseOf(d.journal) \in {"preparing", "staged"} /\ d.live = seen

\* Only the live database f matters: what else lies in d can be removed.
Clean(d, f) ==
  /\ d.live = f
  /\ ~d.journal.there => d.journal = NoJournal /\ d.rollback = Absent
  /\ Recorded(d) =>
       \/ PhaseOf(d.journal) \in Decided
       \/ PhaseOf(d.journal) \in {"preparing", "staged"} /\ d.rollback = Absent

\* What cleanupRestoreArtifacts counts on: the journal goes last.
Cleanable(d) == d.journal.there /\ (pc = "clear" => d.rollback = Absent)

\* The server is at work, whatever an earlier restore left beside its database.
ServeInv == pc = "serve" => answer # "none" /\ \A d \in lag : Clean(d, seen)

\* No routine runs.
NoneInv == on = "none" => pc \in {"serve", "broken", "down"}

\* The backup is staged beside the live database, which nothing touches yet.
StageInv ==
  on = "stage" =>
    /\ pc \in {"preparing", "copy", "flush", "staged", "rmStage", "rmRollback", "clear"}
    /\ answer = "none" /\ \A d \in lag : Clean(d, seen)
    /\ pc = "preparing" => dir.journal = NoJournal
    /\ pc \in {"copy", "flush", "staged"} => At(dir, "preparing") /\ dir.rollback = Absent
    /\ pc \in {"flush", "staged"} => dir.stage = Candidate
    /\ pc = "staged" => lag = {dir}
    /\ Cleaning => Cleanable(dir)

\* The entry that the journal ends in at each step of the swap.
LastEntry ==
  [rename |-> "staged", live_renamed |-> "staged", promote |-> "live_renamed",
   candidate_promoted |-> "live_renamed", candidate_opened |-> "candidate_promoted",
   candidate_migrated |-> "candidate_opened", candidate_loaded |-> "candidate_migrated",
   begin |-> "candidate_loaded", commit |-> "candidate_loaded",
   reconciled |-> "candidate_loaded", committed |-> "reconciled"]
\* Every step of the swap is flushed; from the rename on the original is the
\* rollback file.
SwapInv ==
  on = "swap" =>
    /\ pc \in DOMAIN LastEntry /\ At(dir, LastEntry[pc])
    /\ answer = "none" /\ lag = {dir}
    /\ IF pc = "rename" THEN dir.live = seen /\ dir.rollback = Absent ELSE dir.rollback = seen
    /\ pc \in {"reconciled", "committed"} => dir.live = Installed

\* restoreOriginalDatabase: what it copies back is the original.
BackInv ==
  /\ pc \in {"copyBack", "flushBack", "putBack"} => Recorded(dir) /\ dir.rollback = seen
  /\ pc \in {"flushBack", "putBack"} => dir.stage = seen
  /\ pc = "putBack" => dir.live = Absent
  /\ pc = "rolled_back" => Undone(dir) /\ dir.rollback = seen /\ dir.live = seen /\ lag = {dir}

\* The rollback of a swap that failed.
UndoInv ==
  on = "undo" =>
    /\ pc \in {"copyBack", "flushBack", "putBack", "reopen", "rolled_back",
               "rmStage", "rmRollback", "clear"}
    /\ answer = "none" /\ BackInv
    /\ pc \in {"copyBack", "flushBack", "putBack", "reopen"} => Undone(dir)
    /\ pc = "reopen" => dir.live = seen /\ dir.rollback \in {seen, Absent}
    /\ Cleaning => Cleanable(dir) /\ \A d \in lag : Clean(d, seen)

\* The cleanup after the commit.
DoneInv ==
  on = "done" =>
    /\ Cleaning /\ Cleanable(dir) /\ answer = "none"
    /\ \A d \in lag : Clean(d, Installed) /\ (d.journal.there => At(d, "committed"))

\* The recovery before the database is opened.
RecoverInv ==
  on = "recover" =>
    /\ pc \in {"resolve", "refused", "copyBack", "flushBack", "putBack", "rolled_back",
               "rmStage", "rmRollback", "clear", "open"}
    /\ BackInv
    /\ pc = "refused" => dir.journal.there /\ ~Readable(dir.journal)
    /\ pc \in {"copyBack", "flushBack"} /\ PhaseOf(dir.journal) \in Decided => dir.live = Absent
    /\ pc = "rolled_back" => PhaseOf(dir.journal) \notin Decided
    /\ Cleaning => /\ Cleanable(dir) /\ Clean(dir, dir.live) /\ Good(dir.live)
                   /\ ~Readable(dir.journal) => dir.live = seen
    /\ pc = "open" => dir.journal = NoJournal /\ dir.rollback = Absent /\ Good(dir.live)

\* SQLite's own journal lies about only while the reconciled backup is committed.
HotInv == pc # "commit" => \A d \in lag : ~d.hot

\* What is served is older than a restore that is open.
SeenInv ==
  \E k \in 0..used.restores, n \in 0..used.writes :
    seen = Whole(k, n) /\ (answer = "none" => k < used.restores)

\* The invariant.
RoutineInv ==
  /\ ServeInv /\ NoneInv /\ StageInv /\ SwapInv /\ UndoInv /\ DoneInv /\ RecoverInv
Inv == TypeOK /\ SeenInv /\ HotInv /\ (\A d \in lag : WayBack(d)) /\ RoutineInv
SafeInv == TypeOK /\ (~Struck => Inv)

--------------------------------------------------------------------------------
(* Bounds, files and journals. *)

\* How much of each bound can be used.
Uses ==
  [restores : 0..MaxRestores, writes : 0..MaxWrites, errors : 0..MaxErrors,
   crashes : 0..MaxCrashes, struck : SUBSET RareFaults]

\* What can lie under a file's name is a file.
LEMMA FilesTyped ==
  /\ {Absent, Torn, Candidate, Half, Corrupt} \subseteq Files
  /\ \A k \in Nat, n \in Nat : Whole(k, n) \in Files
BY DEF Files, File, Whole, Absent, Torn, Candidate, Half, Corrupt

\* A database is no missing file.
LEMMA WholeIsThere ==
  \A k, n : Whole(k, n) # Absent
BY DEF Whole, Absent, File

\* The bounds are natural numbers.
LEMMA BoundsTyped == {MaxRestores, MaxWrites, MaxErrors, MaxCrashes} \subseteq Nat
BY RestoreAssumption

\* Using up one bound leaves the others.
LEMMA Counting ==
  ASSUME used \in Uses, NEW bound \in {"restores", "writes", "errors", "crashes"}, Count(bound),
         bound = "restores" => used.restores < MaxRestores,
         bound = "writes" => used.writes < MaxWrites,
         bound = "errors" => used.errors < MaxErrors,
         bound = "crashes" => used.crashes < MaxCrashes
  PROVE  /\ used' \in Uses
         /\ used'.restores = IF bound = "restores" THEN used.restores + 1 ELSE used.restores
         /\ used'.writes = IF bound = "writes" THEN used.writes + 1 ELSE used.writes
<1> DEFINE struck == used.struck \cup Striking(bound)
<1>1. struck \in SUBSET RareFaults
  BY DEF Uses, Striking
<1>2. used' = [used EXCEPT ![bound] = @ + 1, !.struck = struck]
  BY DEF Count
<1> HIDE DEF struck
<1> DEFINE Up(b) == IF bound = b THEN used[b] + 1 ELSE used[b]
<1>3. used' = [restores |-> Up("restores"), writes |-> Up("writes"), errors |-> Up("errors"),
               crashes |-> Up("crashes"), struck |-> struck]
  BY <1>2 DEF Uses
<1>4. /\ Up("restores") \in 0..MaxRestores /\ Up("writes") \in 0..MaxWrites
      /\ Up("errors") \in 0..MaxErrors /\ Up("crashes") \in 0..MaxCrashes
  BY BoundsTyped DEF Uses
<1> HIDE DEF Up
<1>5. /\ used' \in Uses
      /\ used'.restores = Up("restores") /\ used'.writes = Up("writes")
  BY <1>1, <1>3, <1>4 DEF Uses
<1> QED
  BY <1>5 DEF Up

\* The phases one by one (SqliteRestoreIntentPhase).
LEMMA PhasesAre ==
  /\ Phases = {"preparing", "staged", "live_renamed", "candidate_promoted", "candidate_opened",
               "candidate_migrated", "candidate_loaded", "reconciled", "committed", "rolled_back"}
  /\ "garbled" \notin Phases
  /\ forwardRestoreIntentPhases[1] = "preparing"
<1>1. 1..9 = {1, 2, 3, 4, 5, 6, 7, 8, 9}
  OBVIOUS
<1> QED
  BY <1>1 DEF Phases, forwardRestoreIntentPhases

\* What may follow what in a journal (validRestoreIntentTransition).
LEMMA Transitions ==
  /\ validRestoreIntentTransition("preparing", "staged")
  /\ validRestoreIntentTransition("staged", "live_renamed")
  /\ validRestoreIntentTransition("live_renamed", "candidate_promoted")
  /\ validRestoreIntentTransition("candidate_promoted", "candidate_opened")
  /\ validRestoreIntentTransition("candidate_opened", "candidate_migrated")
  /\ validRestoreIntentTransition("candidate_migrated", "candidate_loaded")
  /\ validRestoreIntentTransition("candidate_loaded", "reconciled")
  /\ validRestoreIntentTransition("reconciled", "committed")
  /\ \A p : p # "rolled_back" => validRestoreIntentTransition(p, "rolled_back")
  /\ \A p : ~validRestoreIntentTransition(p, "garbled")
<1>1. 1..8 = {1, 2, 3, 4, 5, 6, 7, 8}
  OBVIOUS
<1> QED
  BY <1>1 DEF validRestoreIntentTransition, forwardRestoreIntentPhases

\* An entry that may follow the last one keeps a journal readable; after a part
\* of an entry, any further one makes it unreadable.
LEMMA Appending ==
  ASSUME NEW j \in Journals, NEW phase \in Phases
  PROVE  /\ Appended(j, phase) \in Journals
         /\ Appended(j, phase).there
         /\ ~Appended(j, phase).part
         /\ Readable(j) /\ ~j.part /\ validRestoreIntentTransition(PhaseOf(j), phase)
              => Readable(Appended(j, phase)) /\ PhaseOf(Appended(j, phase)) = phase
         /\ Readable(j) /\ j.part => ~Readable(Appended(j, phase))
<1> DEFINE entry == IF j.part THEN "garbled" ELSE phase
           lines == Append(j.lines, entry)
<1>1. /\ j.lines \in Seq(Phases \cup {"garbled"}) /\ j.part \in BOOLEAN
      /\ entry \in Phases \cup {"garbled"}
  BY DEF Journals
<1>2. /\ lines \in Seq(Phases \cup {"garbled"})
      /\ Len(lines) = Len(j.lines) + 1
      /\ \A i \in 1..Len(j.lines) : lines[i] = j.lines[i]
      /\ lines[Len(lines)] = entry
      /\ Len(j.lines) \in Nat
  BY <1>1
<1>3. Appended(j, phase) = [there |-> TRUE, part |-> FALSE, lines |-> lines]
  BY DEF Appended
<1>4. Appended(j, phase) \in Journals /\ Appended(j, phase).there /\ ~Appended(j, phase).part
  BY <1>2, <1>3 DEF Journals
<1> HIDE DEF lines, entry
<1>5. Readable(j) => Len(j.lines) > 0
  BY <1>1 DEF Readable
<1>6. ASSUME Readable(j), ~j.part, validRestoreIntentTransition(PhaseOf(j), phase)
      PROVE  Readable(Appended(j, phase)) /\ PhaseOf(Appended(j, phase)) = phase
  <2>1. entry = phase
    BY <1>6 DEF entry
  <2>2. ASSUME NEW i \in 1..Len(lines) - 1
        PROVE  validRestoreIntentTransition(lines[i], lines[i + 1])
    <3>1. CASE i = Len(j.lines)
      BY <1>2, <1>6, <2>1, <3>1 DEF PhaseOf
    <3>2. CASE i # Len(j.lines)
      BY <1>2, <1>6, <3>2 DEF Readable
    <3> QED
      BY <3>1, <3>2
  <2>3. lines # <<>> /\ lines[1] = "preparing"
    BY <1>1, <1>2, <1>5, <1>6 DEF Readable
  <2> QED
    BY <1>2, <1>3, <2>1, <2>2, <2>3 DEF Readable, PhaseOf
<1>7. ASSUME Readable(j), j.part
      PROVE  ~Readable(Appended(j, phase))
  <2>1. Len(j.lines) \in 1..Len(lines) - 1 /\ lines[Len(j.lines) + 1] = "garbled"
    BY <1>2, <1>5, <1>7 DEF entry
  <2> QED
    BY <1>3, <2>1, Transitions DEF Readable
<1> QED
  BY <1>4, <1>6, <1>7

\* The journal a restore creates (createRestoreIntent).
LEMMA Beginning ==
  /\ NoJournal \in Journals /\ ~NoJournal.there /\ ~NoJournal.part /\ ~Readable(NoJournal)
  /\ Readable(Appended(NoJournal, "preparing"))
  /\ PhaseOf(Appended(NoJournal, "preparing")) = "preparing"
<1>1. Appended(NoJournal, "preparing") = [there |-> TRUE, part |-> FALSE, lines |-> <<"preparing">>]
  BY DEF Appended, NoJournal
<1>2. Readable(Appended(NoJournal, "preparing"))
  BY <1>1 DEF Readable
<1> QED
  BY <1>1, <1>2 DEF NoJournal, Journals, Readable, PhaseOf

\* A part of an entry changes nothing of what is read (readRestoreIntent).
LEMMA Parting ==
  ASSUME NEW j \in Journals, NEW k, k = [j EXCEPT !.there = TRUE, !.part = TRUE]
  PROVE  k \in Journals /\ k.there /\ (Readable(k) <=> Readable(j)) /\ PhaseOf(k) = PhaseOf(j)
BY DEF Journals, Readable, PhaseOf
--------------------------------------------------------------------------------
(* Each step keeps the invariant. *)

\* A step belongs to one routine, those of the way back to two.
LEMMA Where ==
  ASSUME Inv
  PROVE  /\ pc \in {"preparing", "copy", "flush", "staged"} => on = "stage"
         /\ pc \in {"rename", "live_renamed", "promote", "candidate_promoted", "candidate_opened",
                    "candidate_migrated", "candidate_loaded", "begin", "commit", "reconciled",
                    "committed"} => on = "swap"
         /\ pc \in {"copyBack", "flushBack", "putBack", "rolled_back"} => on \in {"undo", "recover"}
         /\ pc = "reopen" => on = "undo"
         /\ pc \in {"resolve", "refused", "open"} => on = "recover"
         /\ pc \in {"serve", "broken", "down"} => on = "none"
         /\ Cleaning => on \in {"stage", "undo", "done", "recover"}
<1>1. on \in {"none", "stage", "swap", "undo", "done", "recover"}
  BY DEF Inv, TypeOK
<1> QED
  BY <1>1
     DEF Inv, RoutineInv, NoneInv, StageInv, SwapInv, UndoInv, DoneInv, RecoverInv,
         Cleaning, LastEntry

\* advanceRestoreIntent, when the journal is whole.
LEMMA Advancing ==
  ASSUME TypeOK, NEW d \in lag, NEW last, NEW phase \in Phases, At(d, last),
         validRestoreIntentTransition(last, phase)
  PROVE  /\ Logged(d, phase) \in Directories
         /\ At(Logged(d, phase), phase)
         /\ Logged(d, phase).live = d.live /\ Logged(d, phase).stage = d.stage
         /\ Logged(d, phase).rollback = d.rollback /\ Logged(d, phase).hot = d.hot
<1>1. d \in Directories /\ d.journal \in Journals
  BY DEF TypeOK, Directories
<1> QED
  BY <1>1, Appending DEF At, Recorded, Logged, Directories

\* restoreBackup up to the entry "staged".
LEMMA StageSteps ==
  ASSUME Inv, Record \/ Stage \/ FlushStage \/ Staged
  PROVE  Inv'
<1>1. on = "stage" /\ dir \in lag /\ dir \in Directories
  BY Where DEF Inv, TypeOK, Record, Stage, FlushStage, Staged, Advance
<1>2. CASE Record
  <2>1. /\ dir.journal = NoJournal /\ dir.rollback = Absent /\ dir.live = seen
        /\ answer = "none" /\ ~dir.hot
    BY <1>1, <1>2, Beginning DEF Inv, RoutineInv, StageInv, HotInv, Clean, Record, Advance
  <2>2. /\ dir' \in Directories /\ At(dir', "preparing") /\ lag' = {dir'}
        /\ dir'.live = seen /\ dir'.rollback = Absent /\ ~dir'.hot
    BY <1>1, <1>2, <2>1, Beginning, Appending, PhasesAre
       DEF Record, Advance, Flushed, Logged, At, Recorded, Directories
  <2>3. pc' = "copy" /\ UNCHANGED <<on, answer, seen, used>>
    BY <1>2 DEF Record, Advance, Goto
  <2>4. TypeOK' /\ SeenInv' /\ HotInv'
    BY <2>2, <2>3 DEF Inv, TypeOK, SeenInv, HotInv
  <2>5. \A d \in lag' : WayBack(d)'
    BY <2>2, <2>3 DEF WayBack, At, Recorded, Decided
  <2>6. RoutineInv'
    BY <1>1, <2>1, <2>2, <2>3
       DEF RoutineInv, ServeInv, NoneInv, StageInv, SwapInv, UndoInv, DoneInv, RecoverInv,
           Clean, Cleaning, At, Recorded
  <2> QED
    BY <2>4, <2>5, <2>6 DEF Inv
<1>3. CASE Stage
  <2>1. /\ pc' = "flush" /\ UNCHANGED <<on, answer, seen, used>>
        /\ dir' = [dir EXCEPT !.stage = Candidate] /\ lag' = lag \cup {dir'}
        /\ dir' \in Directories /\ pc = "copy"
    BY <1>1, <1>3, FilesTyped DEF Stage, Goto, Cached, Directories
  <2>2. TypeOK' /\ SeenInv' /\ HotInv'
    BY <1>1, <2>1 DEF Inv, TypeOK, SeenInv, HotInv, Directories
  <2>3. \A d \in lag' : WayBack(d)'
    BY <1>1, <2>1 DEF Inv, WayBack, Recorded, Directories, Good, Installed
  <2>4. RoutineInv'
    BY <1>1, <2>1
       DEF Inv, RoutineInv, ServeInv, NoneInv, StageInv, SwapInv, UndoInv, DoneInv,
           RecoverInv, Clean, Cleaning, At, Recorded, Directories
  <2> QED
    BY <2>2, <2>3, <2>4 DEF Inv
<1>4. CASE FlushStage
  <2>1. /\ pc' = "staged" /\ UNCHANGED <<dir, on, answer, seen, used>> /\ lag' = {dir}
        /\ pc = "flush"
    BY <1>4 DEF FlushStage, Goto, Flushed
  <2>2. TypeOK' /\ SeenInv' /\ HotInv'
    BY <1>1, <2>1, PhasesAre DEF Inv, TypeOK, SeenInv, HotInv
  <2>3. \A d \in lag' : WayBack(d)'
    BY <1>1, <2>1 DEF Inv, WayBack, Recorded, Good, Installed
  <2>4. RoutineInv'
    BY <1>1, <2>1
       DEF Inv, RoutineInv, ServeInv, NoneInv, StageInv, SwapInv, UndoInv, DoneInv,
           RecoverInv, Clean, Cleaning, At, Recorded
  <2> QED
    BY <2>2, <2>3, <2>4 DEF Inv
<1>5. CASE Staged
  <2>1. /\ At(dir, "preparing") /\ dir.rollback = Absent /\ dir.live = seen
        /\ dir.stage = Candidate /\ answer = "none" /\ ~dir.hot
    BY <1>1, <1>5 DEF Inv, RoutineInv, StageInv, HotInv, Clean, Staged
  <2>2. /\ dir' \in Directories /\ At(dir', "staged") /\ lag' = {dir'} /\ dir'.live = seen
        /\ dir'.rollback = Absent /\ ~dir'.hot
    BY <1>1, <1>5, <2>1, Advancing, Transitions, PhasesAre DEF Inv, Staged, Flushed
  <2>3. on' = "swap" /\ pc' = "rename" /\ UNCHANGED <<answer, seen, used>>
    BY <1>5 DEF Staged, Enter
  <2>4. TypeOK' /\ SeenInv' /\ HotInv'
    BY <2>2, <2>3 DEF Inv, TypeOK, SeenInv, HotInv
  <2>5. \A d \in lag' : WayBack(d)'
    BY <2>2, <2>3 DEF WayBack, At, Recorded, Decided
  <2>6. RoutineInv'
    BY <2>1, <2>2, <2>3
       DEF RoutineInv, ServeInv, NoneInv, StageInv, SwapInv, UndoInv, DoneInv, RecoverInv,
           LastEntry
  <2> QED
    BY <2>4, <2>5, <2>6 DEF Inv
<1> QED
  BY <1>2, <1>3, <1>4, <1>5

\* What SwapInv says of one step of the swap.
LEMMA SwapState ==
  ASSUME Inv, pc \in DOMAIN LastEntry
  PROVE  /\ on = "swap" /\ answer = "none" /\ lag = {dir} /\ dir \in Directories
         /\ At(dir, LastEntry[pc])
         /\ pc = "rename" => dir.live = seen /\ dir.rollback = Absent
         /\ pc # "rename" => dir.rollback = seen
         /\ pc \in {"reconciled", "committed"} => dir.live = Installed
         /\ pc # "commit" => ~dir.hot
         /\ seen # Absent
<1>1. on = "swap"
  BY Where DEF LastEntry
<1>2. dir \in lag /\ dir \in Directories
  BY DEF Inv, TypeOK
<1> QED
  BY <1>1, <1>2, WholeIsThere DEF Inv, RoutineInv, SwapInv, HotInv, SeenInv

\* A step of the swap that leaves the journal at the entry its next step expects
\* and the original in the rollback file.
LEMMA SwapGoesOn ==
  ASSUME Inv, pc \in DOMAIN LastEntry, NEW step \in DOMAIN LastEntry \ {"rename"}, Goto(step),
         lag' = {dir'}, dir' \in Directories, At(dir', LastEntry[step]), dir'.rollback = seen,
         step \in {"reconciled", "committed"} => dir'.live = Installed,
         step # "commit" => ~dir'.hot
  PROVE  Inv'
<1>1. on = "swap" /\ answer = "none" /\ UNCHANGED <<on, answer, seen, used>> /\ pc' = step
  BY SwapState DEF Goto
<1>2. TypeOK' /\ SeenInv' /\ HotInv'
  BY <1>1, PhasesAre DEF Inv, TypeOK, SeenInv, HotInv, LastEntry
<1>3. \A d \in lag' : WayBack(d)'
  <2>1. seen # Absent /\ LastEntry[step] \notin Decided
    BY SwapState DEF LastEntry, Decided
  <2> QED
    BY <1>1, <2>1 DEF WayBack, At, Recorded
<1>4. RoutineInv'
  BY <1>1
     DEF RoutineInv, ServeInv, NoneInv, StageInv, SwapInv, UndoInv, DoneInv, RecoverInv,
         LastEntry, Installed
<1> QED
  BY <1>2, <1>3, <1>4 DEF Inv

\* The steps that only add an entry to the journal.
LEMMA SwapAdvances ==
  ASSUME Inv, pc \in DOMAIN LastEntry \ {"rename"},
         NEW step \in DOMAIN LastEntry \ {"rename", "commit"},
         Advance(pc, step), pc \in Phases, LastEntry[step] = pc,
         validRestoreIntentTransition(LastEntry[pc], pc), pc # "commit",
         step \in {"reconciled", "committed"} => dir.live = Installed
  PROVE  Inv'
<1>1. /\ dir' = Logged(dir, pc) /\ lag' = {dir'} /\ Goto(step)
      /\ dir \in lag /\ TypeOK
  BY DEF Advance, Flushed, Inv, TypeOK
<1>2. /\ dir' \in Directories /\ At(dir', pc) /\ dir'.rollback = seen /\ dir'.live = dir.live
      /\ ~dir'.hot
  BY <1>1, SwapState, Advancing
<1> QED
  BY <1>1, <1>2, SwapGoesOn

\* The renames, the commit of the reconciliation and the entries between them.
LEMMA SwapSteps ==
  ASSUME Inv,
         \/ RenameLive \/ LiveRenamed \/ PromoteCandidate \/ CandidatePromoted
         \/ CandidateOpened \/ CandidateMigrated \/ CandidateLoaded
         \/ BeginCommit \/ EndCommit \/ Reconciled
  PROVE  Inv'
<1>1. CASE RenameLive
  <2>1. /\ pc = "rename" /\ dir' = Renamed(dir) /\ lag' = {dir'} /\ Goto("live_renamed")
    BY <1>1 DEF RenameLive, Flushed
  <2>2. /\ dir' \in Directories /\ At(dir', "staged") /\ dir'.rollback = seen /\ ~dir'.hot
    BY <2>1, SwapState, FilesTyped DEF Renamed, Directories, At, Recorded, LastEntry
  <2> QED
    BY <2>1, <2>2, SwapGoesOn DEF LastEntry
<1>2. CASE PromoteCandidate
  <2>1. /\ pc = "promote" /\ dir' = Promoted(dir) /\ lag' = {dir'} /\ Goto("candidate_promoted")
    BY <1>2 DEF PromoteCandidate, Flushed
  <2>2. /\ dir' \in Directories /\ At(dir', "live_renamed") /\ dir'.rollback = seen /\ ~dir'.hot
    BY <2>1, SwapState, FilesTyped DEF Promoted, Directories, At, Recorded, LastEntry
  <2> QED
    BY <2>1, <2>2, SwapGoesOn DEF LastEntry
<1>3. CASE BeginCommit
  <2>1. /\ pc = "begin" /\ dir' = [dir EXCEPT !.live = Half, !.hot = TRUE] /\ lag' = {dir'}
        /\ Goto("commit")
    BY <1>3 DEF BeginCommit, Flushed
  <2>2. /\ dir' \in Directories /\ At(dir', "candidate_loaded") /\ dir'.rollback = seen
    BY <2>1, SwapState, FilesTyped DEF Directories, At, Recorded, LastEntry
  <2> QED
    BY <2>1, <2>2, SwapGoesOn DEF LastEntry
<1>4. CASE EndCommit
  <2>1. /\ pc = "commit" /\ lag' = {dir'} /\ Goto("reconciled")
        /\ dir' = [dir EXCEPT !.live = Installed, !.hot = FALSE]
    BY <1>4 DEF EndCommit, Flushed, Installed
  <2>2. Installed \in Files
    BY FilesTyped, BoundsTyped DEF Inv, TypeOK, Installed
  <2>3. /\ dir' \in Directories /\ At(dir', "candidate_loaded") /\ dir'.rollback = seen
        /\ dir'.live = Installed /\ ~dir'.hot
    BY <2>1, <2>2, SwapState DEF Directories, At, Recorded, LastEntry
  <2> QED
    BY <2>1, <2>3, SwapGoesOn DEF LastEntry
<1>5. CASE LiveRenamed
  BY <1>5, SwapAdvances, Transitions, PhasesAre DEF LiveRenamed, Advance, LastEntry
<1>6. CASE CandidatePromoted
  BY <1>6, SwapAdvances, Transitions, PhasesAre DEF CandidatePromoted, Advance, LastEntry
<1>7. CASE CandidateOpened
  BY <1>7, SwapAdvances, Transitions, PhasesAre DEF CandidateOpened, Advance, LastEntry
<1>8. CASE CandidateMigrated
  BY <1>8, SwapAdvances, Transitions, PhasesAre DEF CandidateMigrated, Advance, LastEntry
<1>9. CASE CandidateLoaded
  <2>1. pc = "candidate_loaded" /\ Advance(pc, "begin")
    BY <1>9 DEF CandidateLoaded, Advance
  <2> QED
    BY <2>1, SwapAdvances, Transitions, PhasesAre DEF LastEntry
<1>10. CASE Reconciled
  <2>1. pc = "reconciled" /\ Advance(pc, "committed") /\ dir.live = Installed
    BY <1>10, SwapState DEF Reconciled, Advance, LastEntry
  <2> QED
    BY <2>1, SwapAdvances, Transitions, PhasesAre DEF LastEntry
<1> QED
  BY <1>1, <1>2, <1>3, <1>4, <1>5, <1>6, <1>7, <1>8, <1>9, <1>10

\* From the entry "committed" on the restored database is the one that stays.
LEMMA CommittedStep ==
  ASSUME Inv, Committed
  PROVE  Inv'
<1>1. /\ pc = "committed" /\ dir' = Logged(dir, "committed") /\ lag' = {dir'}
      /\ on' = "done" /\ pc' = "rmStage" /\ UNCHANGED <<answer, seen, used>>
  BY DEF Committed, Flushed, Enter
<1>2. /\ answer = "none" /\ dir' \in Directories /\ At(dir', "committed")
      /\ dir'.live = Installed /\ ~dir'.hot
  BY <1>1, SwapState, Advancing, Transitions, PhasesAre DEF Inv, LastEntry
<1>3. TypeOK' /\ SeenInv' /\ HotInv'
  BY <1>1, <1>2 DEF Inv, TypeOK, SeenInv, HotInv
<1>4. Installed # Absent /\ Installed' = Installed
  BY <1>1, WholeIsThere DEF Installed
<1>5. \A d \in lag' : WayBack(d)'
  BY <1>1, <1>2, <1>4 DEF WayBack, At, Recorded, Decided, Good
<1>6. RoutineInv'
  BY <1>1, <1>2, <1>4
     DEF RoutineInv, ServeInv, NoneInv, StageInv, SwapInv, UndoInv, DoneInv, RecoverInv,
         Clean, Cleaning, Cleanable, At, Recorded, Decided
<1> QED
  BY <1>3, <1>5, <1>6 DEF Inv

\* restoreOriginalDatabase and the steps around it.
LEMMA BackSteps ==
  ASSUME Inv, CopyBack \/ FlushBack \/ PutBack \/ Reopen \/ RolledBack
  PROVE  Inv'
<1>1. /\ on \in {"undo", "recover"} /\ dir \in lag /\ dir \in Directories /\ WayBack(dir)
      /\ seen \in Files /\ seen # Absent /\ BackInv /\ ~dir.hot
      /\ on = "undo" => answer = "none" /\ UndoInv
      /\ on = "recover" => RecoverInv
  BY Where, WholeIsThere
     DEF Inv, TypeOK, CopyBack, FlushBack, PutBack, Reopen, RolledBack, Advance, RoutineInv,
         UndoInv, RecoverInv, SeenInv, HotInv
<1>2. CASE CopyBack
  <2>1. /\ pc = "copyBack" /\ pc' = "flushBack" /\ UNCHANGED <<on, answer, seen, used>>
        /\ dir' = [dir EXCEPT !.stage = seen] /\ lag' = lag \cup {dir'} /\ dir' \in Directories
    BY <1>1, <1>2 DEF CopyBack, Cached, Goto, BackInv, Directories
  <2>2. TypeOK' /\ SeenInv' /\ HotInv'
    BY <1>1, <2>1 DEF Inv, TypeOK, SeenInv, HotInv, Directories
  <2>3. \A d \in lag' : WayBack(d)'
    BY <1>1, <2>1 DEF Inv, WayBack, Recorded, Directories, Good, Installed
  <2>4. RoutineInv'
    BY <1>1, <2>1
       DEF RoutineInv, ServeInv, NoneInv, StageInv, SwapInv, UndoInv, DoneInv, RecoverInv,
           BackInv, Cleaning, Recorded, Undone, Directories
  <2> QED
    BY <2>2, <2>3, <2>4 DEF Inv
<1>3. CASE FlushBack
  <2>1. /\ pc = "flushBack" /\ pc' = "putBack" /\ UNCHANGED <<on, answer, seen, used>>
        /\ dir' = [dir EXCEPT !.live = Absent] /\ lag' = lag \cup {dir'} /\ dir' \in Directories
    BY <1>1, <1>3, FilesTyped DEF FlushBack, Cached, Goto, Directories
  <2>2. TypeOK' /\ SeenInv' /\ HotInv'
    BY <1>1, <2>1 DEF Inv, TypeOK, SeenInv, HotInv, Directories
  <2>3. \A d \in lag' : WayBack(d)'
    BY <1>1, <2>1 DEF Inv, WayBack, Recorded, Directories, Good, Installed, BackInv
  <2>4. RoutineInv'
    BY <1>1, <2>1
       DEF RoutineInv, ServeInv, NoneInv, StageInv, SwapInv, UndoInv, DoneInv, RecoverInv,
           BackInv, Cleaning, Recorded, Undone, Directories
  <2> QED
    BY <2>2, <2>3, <2>4 DEF Inv
<1>4. CASE PutBack
  <2>1. /\ pc = "putBack" /\ UNCHANGED <<on, answer, seen, used>>
        /\ dir' = Promoted(dir) /\ lag' = {dir'}
        /\ pc' = IF on = "undo" THEN "reopen"
                 ELSE IF PhaseOf(dir.journal) \in Decided THEN "rmStage" ELSE "rolled_back"
    BY <1>4 DEF PutBack, Flushed, Goto
  <2>2. /\ dir' \in Directories /\ dir'.journal = dir.journal /\ dir'.live = seen
        /\ dir'.rollback = seen /\ ~dir'.hot /\ Recorded(dir)
    BY <1>1, <2>1, FilesTyped DEF Promoted, Directories, BackInv
  <2>3. TypeOK' /\ SeenInv' /\ HotInv'
    BY <2>1, <2>2, PhasesAre DEF Inv, TypeOK, SeenInv, HotInv
  <2>4. \A d \in lag' : WayBack(d)'
    BY <1>1, <2>1, <2>2 DEF WayBack, Recorded, Good
  <2>5. RoutineInv'
    BY <1>1, <2>1, <2>2
       DEF RoutineInv, ServeInv, NoneInv, StageInv, SwapInv, UndoInv, DoneInv, RecoverInv,
           BackInv, Cleaning, Cleanable, Clean, Good, Recorded, Undone, Decided
  <2> QED
    BY <2>3, <2>4, <2>5 DEF Inv
<1>5. CASE Reopen
  <2>1. /\ pc = "reopen" /\ on = "undo" /\ UNCHANGED <<on, answer, seen, used>>
        /\ dir' = Opened(dir) /\ lag' = {dir'}
        /\ pc' = IF dir.rollback # Absent THEN "rolled_back" ELSE "rmStage"
    BY <1>5, Where DEF Reopen, Flushed, Goto
  <2>2. dir' = dir
    BY <1>1, <2>1 DEF Opened, Directories
  <2>3. TypeOK' /\ SeenInv' /\ HotInv'
    BY <1>1, <2>1, <2>2, PhasesAre DEF Inv, TypeOK, SeenInv, HotInv
  <2>4. \A d \in lag' : WayBack(d)'
    <3>1. ASSUME NEW d, WayBack(d) PROVE WayBack(d)'
      BY <2>1, <3>1 DEF WayBack, Recorded, Good, Installed
    <3> QED
      BY <1>1, <2>1, <2>2, <3>1
  <2>5. RoutineInv'
    BY <1>1, <2>1, <2>2
       DEF RoutineInv, ServeInv, NoneInv, StageInv, SwapInv, UndoInv, DoneInv, RecoverInv,
           BackInv, Cleaning, Cleanable, Clean, Recorded, Undone, WayBack, Decided
  <2> QED
    BY <2>3, <2>4, <2>5 DEF Inv
<1>6. CASE RolledBack
  <2>1. /\ pc = "rolled_back" /\ pc' = "rmStage" /\ UNCHANGED <<on, answer, seen, used>>
        /\ dir' = Logged(dir, "rolled_back") /\ lag' = {dir'}
    BY <1>6 DEF RolledBack, Advance, Flushed, Goto
  <2>2. /\ dir' \in Directories /\ dir'.live = seen /\ ~dir'.hot /\ dir'.journal.there
        /\ Readable(dir'.journal) => PhaseOf(dir'.journal) = "rolled_back"
    BY <1>1, <2>1, Appending, Transitions, PhasesAre
       DEF Logged, Directories, BackInv, Undone, Recorded
  <2>3. TypeOK' /\ SeenInv' /\ HotInv'
    BY <2>1, <2>2 DEF Inv, TypeOK, SeenInv, HotInv
  <2>4. \A d \in lag' : WayBack(d)'
    BY <1>1, <2>1, <2>2 DEF WayBack, Recorded, Good, Decided
  <2>5. RoutineInv'
    BY <1>1, <2>1, <2>2
       DEF RoutineInv, ServeInv, NoneInv, StageInv, SwapInv, UndoInv, DoneInv, RecoverInv,
           BackInv, Cleaning, Cleanable, Clean, Good, Recorded, Decided
  <2> QED
    BY <2>3, <2>4, <2>5 DEF Inv
<1> QED
  BY <1>2, <1>3, <1>4, <1>5, <1>6

\* cleanupRestoreArtifacts, whoever calls it.
LEMMA CleanupSteps ==
  ASSUME Inv, RemoveStage \/ RemoveRollback \/ ClearIntent
  PROVE  Inv'
<1>1. /\ Cleaning /\ on \in {"stage", "undo", "done", "recover"}
      /\ dir \in lag /\ dir \in Directories /\ WayBack(dir) /\ ~dir.hot /\ Cleanable(dir)
      /\ Clean(dir, dir.live) /\ Good(dir.live) /\ dir.live \in Files /\ dir.live # Absent
      /\ ~Readable(dir.journal) => dir.live = seen
      /\ on \in {"stage", "undo"} =>
           answer = "none" /\ dir.live = seen /\ \A d \in lag : Clean(d, seen)
      /\ on = "done" =>
           /\ answer = "none" /\ dir.live = Installed
           /\ \A d \in lag : Clean(d, Installed) /\ (d.journal.there => At(d, "committed"))
  <2>1. Cleaning /\ pc # "commit" /\ seen # Absent /\ Installed # Absent
    BY WholeIsThere
       DEF Inv, SeenInv, Installed, Cleaning, RemoveStage, RemoveRollback, ClearIntent
  <2> QED
    BY <2>1, Where
       DEF Inv, TypeOK, Directories, RoutineInv, StageInv, UndoInv, DoneInv, RecoverInv,
           HotInv, Good, Clean, Cleanable, At, Recorded
<1>2. CASE RemoveStage
  <2>1. /\ pc = "rmStage" /\ pc' = "rmRollback" /\ UNCHANGED <<on, answer, seen, used>>
        /\ dir' = [dir EXCEPT !.stage = Absent] /\ lag' = lag \cup {dir'} /\ dir' \in Directories
    BY <1>1, <1>2, FilesTyped DEF RemoveStage, Cached, Goto, Directories
  <2>2. TypeOK' /\ SeenInv' /\ HotInv'
    BY <1>1, <2>1 DEF Inv, TypeOK, SeenInv, HotInv, Directories
  <2>3. \A d \in lag' : WayBack(d)'
    BY <1>1, <2>1 DEF Inv, WayBack, Recorded, Directories, Good, Installed
  <2>4. RoutineInv'
    BY <1>1, <2>1
       DEF RoutineInv, ServeInv, NoneInv, StageInv, SwapInv, UndoInv, DoneInv, RecoverInv,
           BackInv, Cleaning, Cleanable, Clean, Good, Installed, At, Recorded, Directories
  <2> QED
    BY <2>2, <2>3, <2>4 DEF Inv
<1>3. CASE RemoveRollback
  <2>1. /\ pc = "rmRollback" /\ pc' = "clear" /\ UNCHANGED <<on, answer, seen, used>>
        /\ dir' = [dir EXCEPT !.rollback = Absent] /\ lag' = lag \cup {dir'}
        /\ dir' \in Directories
    BY <1>1, <1>3, FilesTyped DEF RemoveRollback, Cached, Goto, Directories
  <2>2. TypeOK' /\ SeenInv' /\ HotInv'
    BY <1>1, <2>1 DEF Inv, TypeOK, SeenInv, HotInv, Directories
  <2>3. \A d \in lag' : WayBack(d)'
    <3>1. ASSUME NEW d, d = dir' PROVE WayBack(d)'
      <4>1. /\ d.live = dir.live /\ d.journal = dir.journal /\ d.rollback = Absent
            /\ Recorded(d) =>
                 \/ PhaseOf(d.journal) \in Decided
                 \/ PhaseOf(d.journal) \in {"preparing", "staged"} /\ d.live = seen
        BY <1>1, <2>1, <3>1 DEF WayBack, Clean, Recorded, Directories
      <4> QED
        BY <1>1, <2>1, <4>1 DEF WayBack, Cleanable, Recorded, Good, Installed
    <3>2. ASSUME NEW d, WayBack(d) PROVE WayBack(d)'
      BY <2>1, <3>2 DEF WayBack, Recorded, Good, Installed
    <3> QED
      BY <2>1, <3>1, <3>2 DEF Inv
  <2>4. RoutineInv'
    BY <1>1, <2>1
       DEF RoutineInv, ServeInv, NoneInv, StageInv, SwapInv, UndoInv, DoneInv, RecoverInv,
           BackInv, Cleaning, Cleanable, Clean, Good, Installed, At, Recorded, Directories
  <2> QED
    BY <2>2, <2>3, <2>4 DEF Inv
<1>4. CASE ClearIntent
  <2>1. /\ pc = "clear" /\ lag' = {dir'} /\ dir' \in Directories /\ dir'.journal = NoJournal
        /\ dir'.live = dir.live /\ dir'.rollback = Absent /\ ~dir'.hot /\ ~NoJournal.there
    BY <1>1, <1>4, Beginning DEF ClearIntent, Flushed, Cleared, Directories, Cleanable
  <2>2. CASE on = "recover"
    <3>1. pc' = "open" /\ UNCHANGED <<on, answer, seen, used>>
      BY <1>4, <2>2 DEF ClearIntent, Goto
    <3>2. TypeOK' /\ SeenInv' /\ HotInv'
      BY <2>1, <3>1 DEF Inv, TypeOK, SeenInv, HotInv
    <3>3. \A d \in lag' : WayBack(d)'
      BY <1>1, <2>1, <3>1 DEF WayBack, Recorded, Good, Installed
    <3>4. RoutineInv'
      BY <1>1, <2>1, <2>2, <3>1
         DEF RoutineInv, ServeInv, NoneInv, StageInv, SwapInv, UndoInv, DoneInv, RecoverInv,
             BackInv, Cleaning, Good, Installed
    <3> QED
      BY <3>2, <3>3, <3>4 DEF Inv
  <2>3. CASE on # "recover"
    <3>1. /\ on' = "none" /\ pc' = "serve" /\ answer' \in {"passed", "failed"}
          /\ seen' = dir.live /\ UNCHANGED used
      BY <1>4, <2>1, <2>3 DEF ClearIntent, Serve, Verdict
    <3>2. TypeOK' /\ HotInv'
      BY <1>1, <2>1, <3>1 DEF Inv, TypeOK, HotInv
    <3>3. SeenInv'
      BY <1>1, <3>1, BoundsTyped DEF Inv, TypeOK, SeenInv, Good, Installed
    <3>4. (\A d \in lag' : WayBack(d)') /\ RoutineInv'
      BY <2>1, <3>1
         DEF WayBack, RoutineInv, ServeInv, NoneInv, StageInv, SwapInv, UndoInv, DoneInv,
             RecoverInv, Clean, Good, Recorded
    <3> QED
      BY <3>2, <3>3, <3>4 DEF Inv
  <2> QED
    BY <2>2, <2>3
<1> QED
  BY <1>2, <1>3, <1>4

\* The server at work: it acknowledges a write, or begins a restore.
LEMMA ServeSteps ==
  ASSUME Inv, Write \/ restoreBackup
  PROVE  Inv'
<1>1. /\ pc = "serve" /\ on = "none" /\ answer # "none" /\ dir \in lag /\ lag \subseteq Directories
      /\ \A d \in lag : Clean(d, seen) /\ ~d.hot
      /\ \E k \in 0..used.restores, n \in 0..used.writes : seen = Whole(k, n)
      /\ used \in Uses
      /\ seen # Absent
  BY Where, WholeIsThere
     DEF Inv, TypeOK, Uses, Write, restoreBackup, RoutineInv, ServeInv, HotInv, SeenInv
<1>2. CASE Write
  <2>1. PICK k \in 0..used.restores, n \in 0..used.writes : seen = Whole(k, n)
    BY <1>1
  <2>2. dir.live = seen /\ [dir.live EXCEPT !.writes = @ + 1] = Whole(k, n + 1)
    BY <1>1, <2>1 DEF Clean, Whole
  <2>3. /\ seen' = Whole(k, n + 1) /\ dir' = [dir EXCEPT !.live = seen']
        /\ lag' = {[d EXCEPT !.live = seen'] : d \in lag}
        /\ used' \in Uses /\ used'.writes = used.writes + 1 /\ UNCHANGED used.restores
        /\ UNCHANGED <<on, pc, answer>>
    BY <1>1, <1>2, <2>2, Counting DEF Write
  <2>4. seen' \in Files /\ seen' # Absent
    BY <1>1, <2>1, <2>3, FilesTyped, WholeIsThere, BoundsTyped
  <2>5. TypeOK' /\ SeenInv'
    <3>1. dir' \in Directories /\ lag' \subseteq Directories /\ dir' \in lag'
      BY <1>1, <2>3, <2>4 DEF Directories
    <3>2. k \in 0..used'.restores /\ n + 1 \in 0..used'.writes
      BY <1>1, <2>1, <2>3, BoundsTyped DEF Uses
    <3>3. answer' # "none"
      BY <1>1, <2>3
    <3> QED
      BY <2>3, <2>4, <3>1, <3>2, <3>3 DEF Inv, TypeOK, Uses, SeenInv
  <2>6. \A d \in lag' : Clean(d, seen') /\ ~d.hot
    BY <1>1, <2>3 DEF Clean, Recorded, Directories
  <2>7. HotInv' /\ (\A d \in lag' : WayBack(d)') /\ RoutineInv'
    BY <1>1, <2>3, <2>4, <2>6
       DEF WayBack, RoutineInv, ServeInv, NoneInv, StageInv, SwapInv, UndoInv, DoneInv,
           RecoverInv, HotInv, Clean, Good, Recorded
  <2> QED
    BY <2>5, <2>7 DEF Inv
<1>3. CASE restoreBackup
  <2>1. /\ UNCHANGED <<dir, lag, seen>>
        /\ used' \in Uses /\ used'.restores = used.restores + 1 /\ UNCHANGED used.writes
        /\ \/ answer' = "failed" /\ UNCHANGED <<on, pc>>
           \/ /\ ~dir.journal.there /\ answer' = "none" /\ on' = "stage" /\ pc' = "preparing"
    BY <1>1, <1>3, Counting DEF restoreBackup
  <2>2. TypeOK' /\ SeenInv' /\ HotInv'
    BY <1>1, <2>1, PhasesAre, BoundsTyped DEF Inv, TypeOK, Uses, SeenInv, HotInv
  <2>3. \A d \in lag' : WayBack(d)'
    BY <1>1, <2>1 DEF WayBack, Clean, Good, Recorded
  <2>4. RoutineInv'
    BY <1>1, <2>1
       DEF RoutineInv, ServeInv, NoneInv, StageInv, SwapInv, UndoInv, DoneInv, RecoverInv,
           Cleaning, Clean
  <2> QED
    BY <2>2, <2>3, <2>4 DEF Inv
<1> QED
  BY <1>2, <1>3

\* The recovery at startup chooses (recoverInterruptedRestore), and the database opens.
LEMMA StartupSteps ==
  ASSUME Inv, Start \/ Resolve \/ OpenDatabase \/ Stop
  PROVE  Inv'
<1>1. dir \in lag /\ dir \in Directories /\ WayBack(dir) /\ seen # Absent /\ Installed # Absent
  BY WholeIsThere DEF Inv, TypeOK, SeenInv, Installed
<1>2. CASE Start \/ Stop
  <2>1. /\ UNCHANGED <<dir, lag, answer, seen, used>> /\ pc # "commit"
        /\ \/ on' = "recover" /\ pc' = "resolve"
           \/ on' = "none" /\ pc' = "down"
    BY <1>2 DEF Start, Stop, Enter
  <2>2. TypeOK' /\ SeenInv' /\ HotInv'
    BY <2>1 DEF Inv, TypeOK, SeenInv, HotInv
  <2>3. \A d \in lag' : WayBack(d)'
    BY <2>1 DEF Inv, WayBack, Good, Installed
  <2>4. RoutineInv'
    BY <2>1
       DEF RoutineInv, ServeInv, NoneInv, StageInv, SwapInv, UndoInv, DoneInv, RecoverInv,
           BackInv, Cleaning
  <2> QED
    BY <2>2, <2>3, <2>4 DEF Inv
<1>3. CASE Resolve
  <2>1. /\ pc = "resolve" /\ on = "recover" /\ UNCHANGED <<dir, lag, on, answer, seen, used>>
        /\ pc' = Resolution(dir)
    BY <1>3, Where DEF Resolve, Goto
  <2>2. pc' \in {"open", "refused", "rmStage", "copyBack"}
    BY <2>1 DEF Resolution
  <2>3. TypeOK' /\ SeenInv' /\ HotInv'
    BY <2>1, <2>2 DEF Inv, TypeOK, SeenInv, HotInv
  <2>4. \A d \in lag' : WayBack(d)'
    BY <2>1 DEF Inv, WayBack, Good, Installed
  <2>5. RecoverInv'
    BY <1>1, <2>1
       DEF RecoverInv, BackInv, Resolution, WayBack, Clean, Cleaning, Cleanable, Good,
           Installed, Recorded
  <2>6. RoutineInv'
    BY <2>1, <2>2, <2>5
       DEF RoutineInv, ServeInv, NoneInv, StageInv, SwapInv, UndoInv, DoneInv
  <2> QED
    BY <2>3, <2>4, <2>6 DEF Inv
<1>4. CASE OpenDatabase
  <2>1. /\ dir.journal = NoJournal /\ dir.rollback = Absent /\ Good(dir.live) /\ ~dir.hot
        /\ ~NoJournal.there
    BY <1>1, <1>4, Where, Beginning DEF Inv, RoutineInv, RecoverInv, HotInv, OpenDatabase
  <2>2. /\ dir' = dir /\ lag' = {dir} /\ on' = "none" /\ pc' = "serve" /\ seen' = dir.live
        /\ answer' # "none" /\ answer' \in {answer, "lost"} /\ UNCHANGED used
    BY <1>1, <1>4, <2>1 DEF OpenDatabase, Flushed, Serve, Opened, Directories
  <2>3. TypeOK' /\ HotInv'
    BY <1>1, <2>1, <2>2 DEF Inv, TypeOK, HotInv, Directories
  <2>4. SeenInv'
    BY <2>1, <2>2, BoundsTyped DEF Inv, TypeOK, SeenInv, Good, Installed
  <2>5. (\A d \in lag' : WayBack(d)') /\ RoutineInv'
    BY <2>1, <2>2
       DEF WayBack, RoutineInv, ServeInv, NoneInv, StageInv, SwapInv, UndoInv, DoneInv,
           RecoverInv, Clean, Good, Recorded
  <2> QED
    BY <2>3, <2>4, <2>5 DEF Inv
<1> QED
  BY <1>2, <1>3, <1>4

\* What an entry that is not known to be written leaves of the journal.
LEMMA LeftEntries ==
  ASSUME NEW d \in Directories, NEW phase \in Phases, Undone(d),
         d.journal.part \/ validRestoreIntentTransition(PhaseOf(d.journal), phase),
         NEW j \in LeftByAppend(d.journal, phase)
  PROVE  /\ j \in Journals /\ j.there
         /\ Readable(j) => PhaseOf(j) \in {PhaseOf(d.journal), phase}
         /\ ~d.journal.part => Readable(j)
<1>1. d.journal \in Journals
  BY DEF Directories
<1>2. \/ j = d.journal
      \/ j = [d.journal EXCEPT !.there = TRUE, !.part = TRUE]
      \/ j = Appended(d.journal, phase)
  BY DEF LeftByAppend
<1>3. CASE j = d.journal
  BY <1>1, <1>3 DEF Undone, Recorded
<1>4. CASE j = [d.journal EXCEPT !.there = TRUE, !.part = TRUE]
  BY <1>1, <1>4, Parting DEF Undone, Recorded
<1>5. CASE j = Appended(d.journal, phase)
  BY <1>1, <1>5, Appending DEF Undone, Recorded
<1> QED
  BY <1>2, <1>3, <1>4, <1>5

\* What an interrupted step leaves of one of the directories: of the staging.
LEMMA StageLeaves ==
  ASSUME Inv, on = "stage", NEW d \in lag, NEW e \in Leaves(d)
  PROVE  /\ e \in Directories /\ Clean(e, seen) /\ ~e.hot
         /\ pc \in {"copy", "flush", "staged"} /\ d = dir => e.journal.there
<1>1. /\ dir \in lag /\ dir \in Directories /\ d \in Directories /\ ~d.hot /\ ~dir.hot
      /\ Clean(d, seen) /\ Clean(dir, seen) /\ StageInv
  BY DEF Inv, TypeOK, RoutineInv, StageInv, HotInv
<1>2. CASE pc = "preparing"
  <2>1. dir.journal = NoJournal /\ dir.rollback = Absent
    BY <1>1, <1>2, Beginning DEF StageInv, Clean
  <2>2. e = d \/ \E j \in LeftByAppend(NoJournal, "preparing") : e = [dir EXCEPT !.journal = j]
    BY <1>2 DEF Leaves
  <2>3. ASSUME NEW j \in LeftByAppend(NoJournal, "preparing")
        PROVE  /\ j \in Journals
               /\ ~j.there => j = NoJournal
               /\ Readable(j) => PhaseOf(j) = "preparing"
    <3>1. \/ j = NoJournal
          \/ j = [NoJournal EXCEPT !.there = TRUE, !.part = TRUE]
          \/ j = Appended(NoJournal, "preparing")
      BY DEF LeftByAppend
    <3>2. CASE j = [NoJournal EXCEPT !.there = TRUE, !.part = TRUE]
      BY <3>2, Beginning, Parting
    <3> QED
      BY <3>1, <3>2, Beginning, Appending, PhasesAre
  <2> QED
    BY <1>1, <1>2, <2>1, <2>2, <2>3 DEF Directories, Clean, Recorded
<1>3. CASE pc = "staged"
  <2>1. d = dir /\ At(dir, "preparing") /\ dir.rollback = Absent
    BY <1>1, <1>3 DEF StageInv
  <2>2. e = dir \/ \E j \in LeftByAppend(dir.journal, "staged") : e = [dir EXCEPT !.journal = j]
    BY <1>3, <2>1, PhasesAre DEF Leaves
  <2>3. ASSUME NEW j \in LeftByAppend(dir.journal, "staged")
        PROVE  j \in Journals /\ j.there /\ Readable(j) /\ PhaseOf(j) \in {"preparing", "staged"}
    BY <1>1, <2>1, <2>3, LeftEntries, Transitions, PhasesAre DEF At, Undone, Recorded
  <2> QED
    BY <1>1, <1>3, <2>1, <2>2, <2>3 DEF Directories, Clean, Recorded, At
<1>4. CASE pc \in {"copy", "flush"}
  <2>1. e = d \/ e = [d EXCEPT !.stage = Torn]
    BY <1>4, PhasesAre DEF Leaves
  <2> QED
    BY <1>1, <1>4, <2>1, FilesTyped DEF StageInv, Directories, Clean, Recorded, At
<1>5. CASE Cleaning
  <2>1. e = d \/ (pc = "clear" /\ e = Cleared(dir))
    BY <1>5, PhasesAre DEF Cleaning, Leaves
  <2>2. Cleanable(dir) /\ NoJournal \in Journals /\ ~NoJournal.there
    BY <1>1, <1>5, Beginning DEF StageInv
  <2> QED
    BY <1>1, <1>5, <2>1, <2>2 DEF Cleared, Cleanable, Cleaning, Directories, Clean, Recorded
<1> QED
  BY <1>1, <1>2, <1>3, <1>4, <1>5 DEF StageInv, Cleaning

\* Of the swap.
LEMMA SwapLeaves ==
  ASSUME Inv, on = "swap", pc # "commit", NEW e \in Leaves(dir)
  PROVE  /\ e \in Directories /\ Undone(e) /\ ~e.hot
         /\ IF e.rollback = Absent
            THEN e.live = seen /\ PhaseOf(e.journal) \in {"preparing", "staged"}
            ELSE e.rollback = seen
         /\ PhaseOf(e.journal) \in Decided => e.live = Installed
<1>1. /\ pc \in DOMAIN LastEntry /\ dir \in Directories /\ At(dir, LastEntry[pc]) /\ ~dir.hot
      /\ seen # Absent
      /\ pc = "rename" => dir.live = seen /\ dir.rollback = Absent
      /\ pc # "rename" => dir.rollback = seen
      /\ pc = "committed" => dir.live = Installed
      /\ Undone(dir) /\ LastEntry[pc] \notin Decided
  <2>1. pc \in DOMAIN LastEntry
    BY DEF Inv, RoutineInv, SwapInv
  <2>2. LastEntry[pc] # "rolled_back" /\ LastEntry[pc] \notin Decided
    BY <2>1 DEF LastEntry, Decided
  <2> QED
    BY <2>1, <2>2, SwapState DEF At, Undone
<1>2. CASE pc \in Phases
  <2>1. pc \in {"live_renamed", "candidate_promoted", "candidate_opened", "candidate_migrated",
                "candidate_loaded", "reconciled", "committed"}
    BY <1>1, <1>2, PhasesAre DEF LastEntry
  <2>2. e = dir \/ \E j \in LeftByAppend(dir.journal, pc) : e = [dir EXCEPT !.journal = j]
    BY <1>2, <2>1 DEF Leaves
  <2>3. validRestoreIntentTransition(PhaseOf(dir.journal), pc)
    BY <1>1, <2>1, Transitions DEF At, LastEntry
  <2>4. ASSUME NEW j \in LeftByAppend(dir.journal, pc)
        PROVE  j \in Journals /\ j.there /\ Readable(j) /\ PhaseOf(j) \in {LastEntry[pc], pc}
    BY <1>1, <1>2, <2>3, LeftEntries DEF At
  <2>5. PhaseOf(e.journal) \in {LastEntry[pc], pc} /\ Undone(e)
    BY <1>1, <2>1, <2>2, <2>4 DEF Undone, Recorded, At, Directories
  <2>6. /\ e \in Directories /\ ~e.hot /\ e.rollback = seen /\ e.live = dir.live
    BY <1>1, <2>1, <2>2, <2>4 DEF Directories
  <2> QED
    BY <1>1, <2>1, <2>5, <2>6 DEF Decided
<1>3. CASE pc \notin Phases
  <2>1. pc \in {"rename", "promote", "begin"}
    BY <1>1, <1>3, PhasesAre DEF LastEntry
  <2>2. \/ e = dir
        \/ pc = "rename" /\ e = Renamed(dir)
        \/ pc = "promote" /\ e = Promoted(dir)
    BY <1>3, <2>1, PhasesAre DEF Leaves
  <2>3. e.journal = dir.journal /\ e \in Directories /\ ~e.hot
    BY <1>1, <2>2, FilesTyped DEF Renamed, Promoted, Directories
  <2>4. /\ e.rollback \in {seen, Absent}
        /\ e.rollback = Absent => pc = "rename" /\ e.live = seen
    <3>1. CASE e = dir
      BY <1>1, <3>1
    <3>2. CASE pc = "rename" /\ e = Renamed(dir)
      BY <1>1, <3>2 DEF Renamed, Directories
    <3>3. CASE pc = "promote" /\ e = Promoted(dir)
      BY <1>1, <3>3 DEF Promoted, Directories
    <3> QED
      BY <2>2, <3>1, <3>2, <3>3
  <2> QED
    BY <1>1, <2>3, <2>4 DEF At, Undone, Recorded, LastEntry
<1> QED
  BY <1>2, <1>3

\* Of the rollback, the recovery, and the steps that leave the directory alone.
LEMMA OtherLeaves ==
  ASSUME Inv, on \notin {"stage", "swap"}, NEW d \in lag, NEW e \in Leaves(d)
  PROVE  /\ e \in Directories /\ WayBack(e) /\ ~e.hot
         /\ on = "undo" /\ Cleaning => Clean(e, seen)
         /\ on = "done" => Clean(e, Installed) /\ (e.journal.there => At(e, "committed"))
<1>1. /\ dir \in lag /\ dir \in Directories /\ d \in Directories /\ ~d.hot /\ ~dir.hot
      /\ WayBack(d) /\ WayBack(dir) /\ seen # Absent /\ seen \in Files
      /\ on = "undo" /\ Cleaning => Clean(d, seen) /\ Clean(dir, seen)
      /\ on = "done" => /\ Clean(d, Installed) /\ (d.journal.there => At(d, "committed"))
                        /\ dir.live = Installed
      /\ pc \in {"serve", "broken", "down", "copyBack", "flushBack", "putBack", "reopen",
                 "rolled_back", "rmStage", "rmRollback", "clear", "resolve", "refused", "open"}
      /\ BackInv \/ pc \notin {"copyBack", "flushBack", "putBack", "rolled_back"}
      /\ Cleaning => Cleanable(dir) /\ Good(dir.live)
  <2>1. on \in {"none", "undo", "done", "recover"}
    BY DEF Inv, TypeOK
  <2>2. pc # "commit"
    BY Where
  <2> QED
    BY <2>1, <2>2, WholeIsThere
       DEF Inv, TypeOK, RoutineInv, HotInv, SeenInv, NoneInv, UndoInv, DoneInv, RecoverInv,
           Cleaning, Clean, Good
<1>2. CASE pc = "rolled_back"
  <2>1. Undone(dir) /\ dir.rollback = seen /\ dir.live = seen /\ d = dir
    BY <1>1, <1>2 DEF BackInv
  <2>2. e = dir \/ \E j \in LeftByAppend(dir.journal, pc) : e = [dir EXCEPT !.journal = j]
    BY <1>2, <2>1, PhasesAre DEF Leaves
  <2>3. ASSUME NEW j \in LeftByAppend(dir.journal, pc)
        PROVE  j \in Journals /\ j.there
    BY <1>1, <1>2, <2>1, LeftEntries, Transitions, PhasesAre DEF Undone
  <2>4. \/ e = dir
        \/ /\ e \in Directories /\ ~e.hot /\ e.live = seen /\ e.rollback = seen
           /\ e.journal.there
    BY <1>1, <2>1, <2>2, <2>3 DEF Directories
  <2> QED
    BY <1>1, <1>2, <2>1, <2>4, Where DEF WayBack, Good, Cleaning, Recorded
<1>3. CASE pc \in {"copyBack", "flushBack"}
  <2>1. e = d \/ e = [d EXCEPT !.stage = Torn]
    BY <1>3, PhasesAre DEF Leaves
  <2> QED
    BY <1>1, <1>3, <2>1, FilesTyped, Where DEF Directories, WayBack, Recorded, Cleaning
<1>4. CASE pc = "putBack"
  <2>1. e = d \/ e = Promoted(dir)
    BY <1>4, PhasesAre DEF Leaves
  <2>2. /\ Promoted(dir) \in Directories /\ Promoted(dir).live = seen
        /\ Promoted(dir).rollback = seen /\ Promoted(dir).journal = dir.journal
        /\ Promoted(dir).hot = dir.hot /\ Recorded(dir)
    BY <1>1, <1>4, FilesTyped DEF Promoted, Directories, BackInv
  <2> QED
    BY <1>1, <1>4, <2>1, <2>2, Where DEF WayBack, Recorded, Good, Cleaning
<1>5. CASE pc = "clear"
  <2>1. e = d \/ e = Cleared(dir)
    BY <1>5, PhasesAre DEF Leaves
  <2>2. /\ Cleared(dir) \in Directories /\ Cleared(dir).live = dir.live
        /\ Cleared(dir).rollback = Absent /\ Cleared(dir).journal = NoJournal
        /\ ~Cleared(dir).hot /\ ~NoJournal.there /\ Good(dir.live)
    BY <1>1, <1>5, Beginning DEF Cleared, Directories, Cleanable, Cleaning
  <2> QED
    BY <1>1, <2>1, <2>2 DEF WayBack, Clean, Recorded
<1>6. CASE pc \in {"serve", "broken", "down", "reopen", "rmStage", "rmRollback", "resolve",
                   "refused", "open"}
  <2>1. e = d
    BY <1>6, PhasesAre DEF Leaves
  <2> QED
    BY <1>1, <2>1
<1> QED
  BY <1>1, <1>2, <1>3, <1>4, <1>5, <1>6

\* What a step that throws outside of the commit does.
LEMMA Throwing ==
  ASSUME Inv, pc \notin {"begin", "commit"}, Throws
  PROVE  /\ dir' \in Leaves(dir) /\ lag' = lag \cup {dir'}
         /\ used' \in Uses
         /\ UNCHANGED <<used.restores, used.writes>>
<1>1. used \in Uses /\ used.errors < MaxErrors /\ Count("errors")
  BY DEF Inv, TypeOK, Uses, Throws
<1> QED
  BY <1>1, Counting DEF Throws, Cached

\* A restore, its rollback or its cleanup ends with the server serving.
LEMMA Serving ==
  ASSUME Inv, lag' = lag \cup {dir'}, dir' \in Directories, on # "none", pc # "commit",
         answer = "none",
         \A d \in lag' : Clean(d, dir'.live) /\ ~d.hot,
         dir'.live \in {seen, Installed}, NEW a \in {"passed", "failed"}, Serve(a),
         used' \in Uses,
         UNCHANGED <<used.restores, used.writes>>
  PROVE  Inv'
<1>1. /\ on' = "none" /\ pc' = "serve" /\ answer' # "none" /\ answer' \in {"passed", "failed"}
      /\ seen' = dir'.live
  BY DEF Serve
<1>2. TypeOK' /\ HotInv'
  BY <1>1 DEF Inv, TypeOK, Uses, HotInv, Directories
<1>3. SeenInv'
  BY <1>1, BoundsTyped DEF Inv, TypeOK, Uses, SeenInv, Installed
<1>4. seen' # Absent
  BY <1>3, WholeIsThere DEF SeenInv
<1>5. (\A d \in lag' : WayBack(d)') /\ RoutineInv'
  BY <1>1, <1>4
     DEF WayBack, RoutineInv, ServeInv, NoneInv, StageInv, SwapInv, UndoInv, DoneInv,
         RecoverInv, Clean, Good, Recorded
<1> QED
  BY <1>2, <1>3, <1>5 DEF Inv

\* Where a rare fault may strike.
LEMMA Unstruck ==
  ASSUME TypeOK, ~Struck'
  PROVE  /\ Count("crashes") => pc # "commit"
         /\ Count("errors") /\ on = "undo" => pc # "rolled_back"
BY DEF TypeOK, Struck, Count, Striking, RareFaults

\* The catch blocks of restoreBackup.
LEMMA FailureSteps ==
  ASSUME Inv, ~Struck',
         StagingFails \/ SwapFails \/ RollbackFails \/ CommitCleanupFails
  PROVE  Inv'
<1>1. /\ dir \in lag /\ dir \in Directories /\ lag \subseteq Directories /\ seen \in Files
      /\ seen # Absent
  BY WholeIsThere DEF Inv, TypeOK, SeenInv
<1>2. CASE StagingFails
  <2>1. /\ on = "stage" /\ Throws /\ answer = "none" /\ StageInv /\ pc \notin {"begin", "commit"}
        /\ \A d \in lag : Clean(d, seen) /\ ~d.hot
    BY <1>2 DEF StagingFails, Inv, RoutineInv, StageInv, HotInv
  <2>2. /\ dir' \in Leaves(dir) /\ lag' = lag \cup {dir'}
        /\ used' \in Uses
        /\ UNCHANGED <<used.restores, used.writes>>
    BY <2>1, Throwing
  <2>3. /\ dir' \in Directories /\ Clean(dir', seen) /\ ~dir'.hot
        /\ pc \in {"copy", "flush", "staged"} => dir'.journal.there
    BY <1>1, <2>1, <2>2, StageLeaves
  <2>4. dir'.live = seen
    BY <2>3 DEF Clean
  <2>5. CASE pc = "preparing" \/ Cleaning
    <3>1. Serve("failed")
      BY <1>2, <2>5 DEF StagingFails
    <3> QED
      BY <2>1, <2>2, <2>3, <2>4, <3>1, Serving
  <2>6. CASE ~(pc = "preparing" \/ Cleaning)
    <3>1. on' = "stage" /\ pc' = "rmStage" /\ UNCHANGED <<answer, seen>> /\ dir'.journal.there
      BY <1>2, <2>1, <2>3, <2>6 DEF StagingFails, Enter, StageInv, Cleaning
    <3>2. TypeOK' /\ SeenInv' /\ HotInv'
      BY <2>1, <2>2, <2>3, <3>1 DEF Inv, TypeOK, Uses, SeenInv, HotInv
    <3>3. \A d \in lag' : WayBack(d)'
      BY <1>1, <2>1, <2>2, <2>3, <3>1 DEF WayBack, Clean, Good, Recorded
    <3>4. RoutineInv'
      BY <2>1, <2>2, <2>3, <3>1
         DEF RoutineInv, ServeInv, NoneInv, StageInv, SwapInv, UndoInv, DoneInv, RecoverInv,
             Cleaning, Cleanable, Clean, Recorded
    <3> QED
      BY <3>2, <3>3, <3>4 DEF Inv
  <2> QED
    BY <2>5, <2>6
<1>3. CASE SwapFails
  <2>1. /\ on = "swap" /\ Throws /\ on' = "undo" /\ UNCHANGED <<answer, seen>>
        /\ pc' = IF dir'.rollback # Absent THEN "copyBack" ELSE "reopen"
        /\ pc \in DOMAIN LastEntry /\ answer = "none" /\ lag = {dir} /\ WayBack(dir)
    BY <1>1, <1>3 DEF SwapFails, Enter, Inv, RoutineInv, SwapInv
  <2>2. /\ dir' \in Directories /\ Undone(dir') /\ ~dir'.hot
        /\ IF dir'.rollback = Absent
           THEN dir'.live = seen /\ PhaseOf(dir'.journal) \in {"preparing", "staged"}
           ELSE dir'.rollback = seen
        /\ PhaseOf(dir'.journal) \in Decided => dir'.live = Installed
        /\ lag' = {dir'} \/ (lag' = {dir, dir'} /\ ~dir.hot)
        /\ used' \in Uses
        /\ UNCHANGED <<used.restores, used.writes>>
    <3>1. CASE pc \in {"begin", "commit"}
      <4>1. /\ dir' = [dir EXCEPT !.live = Candidate, !.hot = FALSE] /\ lag' = {dir'}
            /\ used \in Uses /\ used.errors < MaxErrors /\ Count("errors")
        BY <2>1, <3>1 DEF Throws, Flushed, Inv, TypeOK, Uses
      <4>2. /\ used' \in Uses
            /\ UNCHANGED <<used.restores, used.writes>>
        BY <4>1, Counting
      <4>3. At(dir, "candidate_loaded") /\ dir.rollback = seen
        BY <2>1, <3>1, SwapState DEF LastEntry
      <4>4. /\ dir' \in Directories /\ dir'.journal = dir.journal /\ ~dir'.hot
            /\ dir'.rollback = seen
        BY <1>1, <4>1, <4>3, FilesTyped DEF Directories
      <4> QED
        BY <1>1, <4>1, <4>2, <4>3, <4>4 DEF At, Undone, Recorded, Decided
    <3>2. CASE pc \notin {"begin", "commit"}
      BY <2>1, <3>2, Throwing, SwapLeaves, SwapState
    <3> QED
      BY <3>1, <3>2
  <2>3. TypeOK' /\ SeenInv' /\ HotInv'
    BY <1>1, <2>1, <2>2 DEF Inv, TypeOK, Uses, SeenInv, HotInv
  <2>4. \A d \in lag' : WayBack(d)'
    <3>1. ASSUME NEW d, WayBack(d) PROVE WayBack(d)'
      BY <2>1, <2>2, <3>1 DEF WayBack, Recorded, Good, Installed
    <3>2. ASSUME NEW d, d = dir' PROVE WayBack(d)
      BY <1>1, <2>1, <2>2, <3>2 DEF WayBack, Undone, Recorded, Good
    <3> QED
      BY <2>1, <2>2, <3>1, <3>2
  <2>5. RoutineInv'
    BY <1>1, <2>1, <2>2
       DEF RoutineInv, ServeInv, NoneInv, StageInv, SwapInv, UndoInv, DoneInv, RecoverInv,
           BackInv, Cleaning, Undone, Recorded
  <2> QED
    BY <2>3, <2>4, <2>5 DEF Inv
<1>4. CASE RollbackFails
  <2>1. /\ on = "undo" /\ Throws /\ answer = "none" /\ pc \notin {"begin", "commit", "rolled_back"}
        /\ \A d \in lag : WayBack(d) /\ ~d.hot
        /\ Cleaning => \A d \in lag : Clean(d, seen)
    BY <1>4, Unstruck DEF RollbackFails, Throws, Inv, RoutineInv, UndoInv, HotInv
  <2>2. /\ dir' \in Leaves(dir) /\ lag' = lag \cup {dir'}
        /\ used' \in Uses
        /\ UNCHANGED <<used.restores, used.writes>>
    BY <2>1, Throwing
  <2>3. /\ dir' \in Directories /\ ~dir'.hot
        /\ Cleaning => Clean(dir', seen)
        /\ \A d \in lag' : WayBack(d)
    BY <1>1, <2>1, <2>2, OtherLeaves
  <2>4. CASE Cleaning
    <3>1. Serve("failed") /\ dir'.live = seen
      BY <1>4, <2>3, <2>4 DEF RollbackFails, Clean
    <3> QED
      BY <2>1, <2>2, <2>3, <2>4, <3>1, Serving
  <2>5. CASE ~Cleaning
    <3>1. on' = "none" /\ pc' = "broken" /\ UNCHANGED <<answer, seen>>
      BY <1>4, <2>1, <2>5 DEF RollbackFails, Enter
    <3>2. TypeOK' /\ SeenInv' /\ HotInv'
      BY <2>1, <2>2, <2>3, <3>1 DEF Inv, TypeOK, Uses, SeenInv, HotInv
    <3>3. \A d \in lag' : WayBack(d)'
      BY <2>2, <2>3, <3>1 DEF WayBack, Good, Installed
    <3>4. RoutineInv'
      BY <3>1
         DEF RoutineInv, ServeInv, NoneInv, StageInv, SwapInv, UndoInv, DoneInv, RecoverInv
    <3> QED
      BY <3>2, <3>3, <3>4 DEF Inv
  <2> QED
    BY <2>4, <2>5
<1>5. CASE CommitCleanupFails
  <2>1. /\ on = "done" /\ Throws /\ answer = "none" /\ pc \notin {"begin", "commit"}
        /\ Serve("passed")
        /\ \A d \in lag : Clean(d, Installed) /\ ~d.hot /\ (d.journal.there => At(d, "committed"))
    BY <1>5 DEF CommitCleanupFails, Inv, RoutineInv, DoneInv, HotInv, Cleaning
  <2>2. /\ dir' \in Leaves(dir) /\ lag' = lag \cup {dir'}
        /\ used' \in Uses
        /\ UNCHANGED <<used.restores, used.writes>>
    BY <2>1, Throwing
  <2>3. /\ dir' \in Directories /\ ~dir'.hot /\ Clean(dir', Installed)
        /\ dir'.journal.there => At(dir', "committed")
    BY <1>1, <2>1, <2>2, OtherLeaves
  <2>4. dir'.live = Installed
    BY <2>3 DEF Clean
  <2> QED
    BY <2>1, <2>2, <2>3, <2>4, Serving DEF At
<1> QED
  BY <1>2, <1>3, <1>4, <1>5

\* The process dies or the machine loses power: no rare fault, so not in the commit.
LEMMA CrashSteps ==
  ASSUME Inv, ~Struck', Kill \/ PowerLoss
  PROVE  Inv'
<1>1. /\ pc # "commit" /\ on' = "none" /\ pc' = "down" /\ UNCHANGED <<answer, seen>>
      /\ used \in Uses /\ used.crashes < MaxCrashes /\ Count("crashes")
  BY Unstruck DEF Inv, TypeOK, Uses, Kill, PowerLoss, Crash, Enter
<1>2. /\ used' \in Uses
      /\ UNCHANGED <<used.restores, used.writes>>
  BY <1>1, Counting
<1>3. /\ dir \in lag /\ lag \subseteq Directories /\ seen # Absent
      /\ \A d \in lag : WayBack(d) /\ ~d.hot
  BY <1>1, WholeIsThere DEF Inv, TypeOK, SeenInv, HotInv
<1>4. PICK d \in lag : \E x \in Leaves(d) : dir' = x /\ lag' \in {{x}, lag \cup {x}}
  BY <1>3 DEF Kill, PowerLoss, Cached, Flushed
<1>5. PICK e \in Leaves(d) : dir' = e /\ lag' \in {{e}, lag \cup {e}}
  BY <1>4
<1>6. e \in Directories /\ WayBack(e) /\ ~e.hot
  <2>1. CASE on = "stage"
    BY <1>3, <2>1, StageLeaves DEF WayBack, Clean, Good, Recorded
  <2>2. CASE on = "swap"
    <3>1. d = dir
      BY <2>2 DEF Inv, RoutineInv, SwapInv
    <3> QED
      BY <1>1, <1>3, <2>2, <3>1, SwapLeaves
         DEF WayBack, Undone, Recorded, Good, Decided, Inv, RoutineInv, SwapInv
  <2>3. CASE on \notin {"stage", "swap"}
    BY <2>3, OtherLeaves
  <2> QED
    BY <2>1, <2>2, <2>3
<1>7. TypeOK' /\ SeenInv' /\ HotInv'
  BY <1>1, <1>2, <1>3, <1>5, <1>6 DEF Inv, TypeOK, Uses, SeenInv, HotInv
<1>8. \A c \in lag' : WayBack(c)'
  BY <1>1, <1>2, <1>3, <1>5, <1>6 DEF WayBack, Good, Installed
<1>9. RoutineInv'
  BY <1>1
     DEF RoutineInv, ServeInv, NoneInv, StageInv, SwapInv, UndoInv, DoneInv, RecoverInv
<1> QED
  BY <1>7, <1>8, <1>9 DEF Inv

--------------------------------------------------------------------------------
(* Types, whatever struck. *)

\* What an interrupted step leaves is a directory.
LEMMA LeavesTyped ==
  ASSUME TypeOK, NEW d \in lag
  PROVE  Leaves(d) \subseteq Directories
<1>1. /\ dir \in Directories /\ d \in Directories
      /\ dir.live \in Files /\ dir.rollback \in Files
  BY DEF TypeOK, Directories
<1>2. ASSUME NEW j \in Journals, NEW phase \in Phases
      PROVE  LeftByAppend(j, phase) \subseteq Journals
  BY <1>2, Appending, Parting DEF LeftByAppend
<1>3. CASE pc \in Phases
  <2>1. /\ d.journal \in Journals /\ NoJournal \in Journals
        /\ \A j \in Journals : LeftByAppend(j, pc) \subseteq Journals
    BY <1>1, <1>2, <1>3, Beginning DEF Directories
  <2>2. \A c \in Directories, j \in Journals : [c EXCEPT !.journal = j] \in Directories
    BY DEF Directories
  <2>3. CASE pc = "preparing"
    <3>1. \A e \in Leaves(d) :
            e = d \/ \E j \in LeftByAppend(NoJournal, pc) : e = [dir EXCEPT !.journal = j]
      BY <2>3 DEF Leaves
    <3> QED
      BY <1>1, <2>1, <2>2, <3>1
  <2>4. CASE pc # "preparing"
    <3>1. \A e \in Leaves(d) :
            e = d \/ \E j \in LeftByAppend(d.journal, pc) : e = [d EXCEPT !.journal = j]
      BY <1>3, <2>4, PhasesAre DEF Leaves
    <3> QED
      BY <1>1, <2>1, <2>2, <3>1
  <2> QED
    BY <2>3, <2>4
<1>4. CASE pc \notin Phases
  <2>1. /\ [d EXCEPT !.stage = Torn] \in Directories /\ Renamed(dir) \in Directories
        /\ Promoted(dir) \in Directories /\ Cleared(dir) \in Directories
    BY <1>1, FilesTyped, Beginning DEF Directories, Renamed, Promoted, Cleared
  <2>2. Leaves(d) \subseteq {d, [d EXCEPT !.stage = Torn], Renamed(dir), Promoted(dir), Cleared(dir)}
    BY <1>4, PhasesAre DEF Leaves
  <2> QED
    BY <1>1, <2>1, <2>2
<1> QED
  BY <1>3, <1>4

\* The steps of a routine, its catch blocks apart.
LEMMA RoutineTypes ==
  ASSUME TypeOK, Restore \/ Repair \/ Startup, ~restoreBackup
  PROVE  TypeOK'
<1>1. /\ dir \in Directories /\ dir \in lag /\ lag \subseteq Directories
      /\ dir.live \in Files /\ dir.rollback \in Files /\ dir.journal \in Journals
      /\ Whole(used.restores, 0) \in Files
  BY FilesTyped, BoundsTyped DEF TypeOK, Directories
<1>2. /\ \A phase \in Phases : Logged(dir, phase) \in Directories
      /\ \A f \in Files : [dir EXCEPT !.stage = f] \in Directories
      /\ \A f \in Files : [dir EXCEPT !.rollback = f] \in Directories
      /\ \A f \in Files : [dir EXCEPT !.live = f] \in Directories
      /\ \A f \in Files, h \in BOOLEAN : [dir EXCEPT !.live = f, !.hot = h] \in Directories
      /\ Renamed(dir) \in Directories /\ Promoted(dir) \in Directories
      /\ Cleared(dir) \in Directories /\ Opened(dir) \in Directories
  BY <1>1, Appending, FilesTyped, Beginning
     DEF Directories, Logged, Renamed, Promoted, Cleared, Opened
<1>3. dir' \in Directories /\ lag' \in {lag, {dir'}, lag \cup {dir'}} /\ dir' \in lag' /\ UNCHANGED used
  <2>1. CASE Restore
    BY <1>1, <1>2, <2>1, FilesTyped, PhasesAre
       DEF Restore, Record, Stage, FlushStage, Staged, RenameLive, LiveRenamed,
           PromoteCandidate, CandidatePromoted, CandidateOpened, CandidateMigrated,
           CandidateLoaded, BeginCommit, EndCommit, Reconciled, Committed, Advance, Goto,
           Cached, Flushed
  <2>2. CASE Repair
    BY <1>1, <1>2, <2>2, FilesTyped, PhasesAre
       DEF Repair, CopyBack, FlushBack, PutBack, Reopen, RolledBack, RemoveStage,
           RemoveRollback, ClearIntent, Advance, Goto, Cached, Flushed
  <2>3. CASE Startup
    BY <1>1, <1>2, <2>3 DEF Startup, Start, Resolve, OpenDatabase, Goto, Flushed
  <2> QED
    BY <2>1, <2>2, <2>3
<1>4. lag' \subseteq Directories
  BY <1>1, <1>3
<1>5. /\ on' \in {"none", "stage", "swap", "undo", "done", "recover"}
      /\ answer' \in {"idle", "none", "passed", "failed", "lost"}
      /\ seen' \in {seen, dir'.live}
      /\ pc' \in {"serve", "copy", "flush", "staged", "rename", "live_renamed", "promote",
                  "candidate_promoted", "candidate_opened", "candidate_migrated",
                  "candidate_loaded", "begin", "commit", "reconciled", "committed", "rmStage",
                  "flushBack", "putBack", "reopen", "rolled_back", "rmRollback", "clear", "open",
                  "resolve", "refused", "copyBack"}
  <2>1. CASE Restore
    BY <2>1
       DEF TypeOK, Restore, Record, Stage, FlushStage, Staged, RenameLive, LiveRenamed,
           PromoteCandidate, CandidatePromoted, CandidateOpened, CandidateMigrated,
           CandidateLoaded, BeginCommit, EndCommit, Reconciled, Committed, Advance, Goto,
           Enter
  <2>2. CASE Repair
    BY <2>2
       DEF TypeOK, Repair, CopyBack, FlushBack, PutBack, Reopen, RolledBack, RemoveStage,
           RemoveRollback, ClearIntent, Advance, Goto, Serve, Verdict
  <2>3. CASE Startup
    BY <2>3
       DEF TypeOK, Startup, Start, Resolve, Resolution, OpenDatabase, Goto, Enter, Serve
  <2> QED
    BY <2>1, <2>2, <2>3
<1>6. seen' \in Files
  BY <1>3, <1>5 DEF TypeOK, Directories
<1> QED
  BY <1>3, <1>4, <1>5, <1>6, PhasesAre DEF TypeOK

\* The steps that use up a bound.
LEMMA CountedTypes ==
  ASSUME TypeOK, Write \/ restoreBackup \/ Failure
  PROVE  TypeOK'
<1>1. /\ dir \in Directories /\ dir \in lag /\ lag \subseteq Directories
      /\ dir.live \in Files
  BY DEF TypeOK, Directories
<1>2. used' \in Uses
  <2>1. used \in Uses
    BY DEF TypeOK, Uses
  <2> QED
    BY <2>1, Counting
       DEF Write, restoreBackup, Failure, StagingFails, SwapFails, RollbackFails,
           CommitCleanupFails, Kill, PowerLoss, Crash, Throws
<1>3. CASE Write
  <2> DEFINE live == [dir.live EXCEPT !.writes = @ + 1]
  <2>1. live \in Files
    BY <1>1 DEF Files
  <2>2. \A d \in Directories : [d EXCEPT !.live = live] \in Directories
    BY <2>1 DEF Directories
  <2>3. /\ dir' = [dir EXCEPT !.live = live] /\ seen' = live
        /\ lag' = {[d EXCEPT !.live = live] : d \in lag} /\ UNCHANGED <<on, pc, answer>>
    BY <1>3 DEF Write
  <2> HIDE DEF live
  <2>4. dir' \in Directories /\ dir' \in lag' /\ lag' \subseteq Directories
    BY <1>1, <2>2, <2>3
  <2> QED
    BY <1>2, <2>1, <2>3, <2>4 DEF TypeOK, Uses
<1>4. CASE restoreBackup
  BY <1>2, <1>4, PhasesAre DEF TypeOK, Uses, restoreBackup
<1>5. CASE Failure
  <2>1. \A d \in lag : Leaves(d) \subseteq Directories
    BY LeavesTyped
  <2>2. [dir EXCEPT !.live = Candidate, !.hot = FALSE] \in Directories
    BY <1>1, FilesTyped DEF Directories
  <2>3. dir' \in Directories /\ dir' \in lag' /\ lag' \subseteq Directories
    BY <1>1, <1>5, <2>1, <2>2
       DEF Failure, StagingFails, SwapFails, RollbackFails, CommitCleanupFails, Kill,
           PowerLoss, Throws, Cached, Flushed
  <2>4. /\ on' \in {"none", "stage", "undo"}
        /\ answer' \in {"idle", "none", "passed", "failed", "lost"}
        /\ seen' \in {seen, dir'.live}
        /\ pc' \in {"serve", "rmStage", "copyBack", "reopen", "broken", "down"}
    BY <1>5
       DEF TypeOK, Failure, StagingFails, SwapFails, RollbackFails, CommitCleanupFails,
           Kill, PowerLoss, Crash, Enter, Serve
  <2>5. seen' \in Files
    BY <2>3, <2>4 DEF TypeOK, Directories
  <2> QED
    BY <1>2, <2>3, <2>4, <2>5 DEF TypeOK, Uses
<1> QED
  BY <1>3, <1>4, <1>5

\* Every step keeps the types.
LEMMA NextTypes ==
  ASSUME TypeOK, [Next]_vars
  PROVE  TypeOK'
<1>1. CASE Stop
  BY <1>1 DEF Stop, Enter, TypeOK
<1>2. CASE UNCHANGED vars
  BY <1>2 DEF vars, TypeOK
<1> QED
  BY <1>1, <1>2, RoutineTypes, CountedTypes DEF Next

\* A fault that struck stays on record.
LEMMA StruckStays ==
  ASSUME TypeOK, [Next]_vars, Struck
  PROVE  Struck'
<1>1. UNCHANGED used \/ \E bound \in {"restores", "writes", "errors", "crashes"} : Count(bound)
  <2>1. CASE Write \/ restoreBackup \/ Failure
    BY <2>1
       DEF Write, restoreBackup, Failure, StagingFails, SwapFails, RollbackFails,
           CommitCleanupFails, Kill, PowerLoss, Crash, Throws
  <2>2. CASE Restore /\ ~restoreBackup
    BY <2>2
       DEF Restore, Record, Stage, FlushStage, Staged, RenameLive, LiveRenamed,
           PromoteCandidate, CandidatePromoted, CandidateOpened, CandidateMigrated,
           CandidateLoaded, BeginCommit, EndCommit, Reconciled, Committed, Advance, Goto
  <2>3. CASE Repair
    BY <2>3
       DEF Repair, CopyBack, FlushBack, PutBack, Reopen, RolledBack, RemoveStage,
           RemoveRollback, ClearIntent, Advance, Goto
  <2>4. CASE Startup \/ Stop \/ UNCHANGED vars
    BY <2>4 DEF Startup, Start, Resolve, OpenDatabase, Stop, Goto, vars
  <2> QED
    BY <2>1, <2>2, <2>3, <2>4 DEF Next
<1> QED
  BY <1>1 DEF TypeOK, Struck, Count

--------------------------------------------------------------------------------
(* The theorems. *)

\* The invariant holds when the server serves its first database.
LEMMA InitInv == Init => Inv
<1> SUFFICES ASSUME Init PROVE Inv
  OBVIOUS
<1>1. /\ seen = Whole(0, 0) /\ dir.live = seen /\ seen \in Files /\ dir \in Directories
      /\ dir.journal = NoJournal /\ dir.rollback = Absent /\ ~dir.hot /\ ~NoJournal.there
  BY FilesTyped, BoundsTyped, Beginning DEF Init, Directories
<1>2. TypeOK
  BY <1>1, BoundsTyped DEF Init, TypeOK
<1>3. SeenInv /\ HotInv /\ \A d \in lag : WayBack(d)
  BY <1>1 DEF Init, SeenInv, HotInv, WayBack, Good, Recorded
<1>4. RoutineInv
  BY <1>1
     DEF Init, RoutineInv, ServeInv, NoneInv, StageInv, SwapInv, UndoInv, DoneInv,
         RecoverInv, Clean, Recorded
<1> QED
  BY <1>2, <1>3, <1>4 DEF Inv

\* Every step keeps the invariant.
LEMMA NextInv ==
  ASSUME Inv, [Next]_vars, ~Struck'
  PROVE  Inv'
<1>1. CASE Next
  BY <1>1, StageSteps, SwapSteps, CommittedStep, BackSteps, CleanupSteps, ServeSteps,
     StartupSteps, FailureSteps, CrashSteps
     DEF Next, Restore, Repair, Startup, Failure
<1>2. CASE UNCHANGED vars
  BY <1>2
     DEF vars, Inv, TypeOK, SeenInv, HotInv, WayBack, RoutineInv, ServeInv, NoneInv,
         StageInv, SwapInv, UndoInv, DoneInv, RecoverInv, BackInv, Cleaning, Cleanable,
         Clean, Good, Installed
<1> QED
  BY <1>1, <1>2

\* The variables keep their types for any number of restores, writes, errors,
\* kills and power losses, and every routine finds the files it expects until a
\* rare fault strikes.
THEOREM Invariant == Spec => []SafeInv
<1>1. Init => SafeInv
  BY InitInv DEF SafeInv, Inv
<1>2. SafeInv /\ [Next]_vars => SafeInv'
  BY NextTypes, StruckStays, NextInv DEF SafeInv
<1> QED
  BY <1>1, <1>2, PTL DEF Spec

\* Wherever a restore, its rollback or a recovery is interrupted, the next
\* startup finds the original with every acknowledged write or the reconciled
\* backup, or refuses with the original still there (recoverInterruptedRestore).
\* So until a kill or a power loss falls inside the commit of the reconciliation
\* or a rollback cannot record its end: what follows these is not claimed.
THEOREM EveryCrashIsSurvived == Spec => []EveryCrashHasAWayBack
<1>1. ASSUME Inv PROVE EveryCrashHasAWayBack
  <2>1. TypeOK /\ seen # Absent /\ dir \in lag
    BY <1>1, WholeIsThere DEF Inv, TypeOK, SeenInv
  <2>2. RefusalKeepsTheDatabase
    BY <1>1, <2>1, Where
       DEF Inv, RoutineInv, RecoverInv, WayBack, RefusalKeepsTheDatabase
  <2>3. ASSUME NEW d \in lag, d.journal.there, ~Readable(d.journal)
        PROVE  seen \in {d.live, d.rollback}
    BY <1>1, <2>3 DEF Inv, WayBack
  <2>4. ASSUME NEW d \in lag, ~(d.journal.there /\ ~Readable(d.journal))
        PROVE  /\ Resolution(d) # "refused"
               /\ \/ Outcome(d) = seen
                  \/ answer = "none" /\ on # "stage" /\ Outcome(d) = Installed
    <3>1. WayBack(d) /\ (on = "stage" => Clean(d, seen))
      BY <1>1 DEF Inv, RoutineInv, StageInv
    <3>2. Resolution(d) # "refused"
      BY <2>1, <2>4, <3>1, WholeIsThere DEF WayBack, Resolution, Recorded, Good, Installed
    <3>3. Outcome(d) = seen \/ (answer = "none" /\ Outcome(d) = Installed)
      BY <2>1, <2>4, <3>1 DEF WayBack, Resolution, Outcome, Recorded, Good
    <3>4. on = "stage" => Outcome(d) = seen
      BY <2>1, <2>4, <3>1 DEF WayBack, Clean, Resolution, Outcome, Recorded
    <3> QED
      BY <3>2, <3>3, <3>4
  <2> QED
    BY <2>1, <2>2, <2>3, <2>4 DEF EveryCrashHasAWayBack
<1>2. SafeInv => EveryCrashHasAWayBack
  BY <1>1 DEF SafeInv, EveryCrashHasAWayBack
<1> QED
  BY <1>2, Invariant, PTL

\* The server starts as the abstract restore does.
LEMMA PromiseInit == Init => Promise!Init
BY DEF Init, Promise!Init, Whole, Struck

\* A step of the program is one acknowledged write, the begin, the refusal or
\* the end of a restore, or changes nothing that is promised.
LEMMA PromiseStep ==
  ASSUME Inv, Next, ~Struck'
  PROVE  Promise!Write \/ Promise!Begin \/ Promise!Refuse \/ Promise!Settle
           \/ UNCHANGED <<seen, answer>>
<1> USE DEF Promise!Open
<1>1. PICK k \in 0..used.restores, n \in 0..used.writes :
        seen = Whole(k, n) /\ (answer = "none" => k < used.restores)
  BY DEF Inv, SeenInv
<1>2. answer = "none" =>
        Installed.is = "whole" /\ Installed.restore > seen.restore /\ Installed.writes = 0
  BY <1>1, BoundsTyped DEF Inv, TypeOK, Installed, Whole
<1>3. CASE Write
  <2>1. answer # "none" /\ dir.live = seen
    BY <1>3 DEF Write, Inv, TypeOK, RoutineInv, ServeInv, Clean
  <2> QED
    BY <1>3, <2>1 DEF Write, Promise!Next, Promise!Write
<1>4. CASE restoreBackup
  <2>1. answer # "none"
    BY <1>4 DEF restoreBackup, Inv, RoutineInv, ServeInv
  <2> QED
    BY <1>4, <2>1 DEF restoreBackup, Promise!Next, Promise!Begin, Promise!Refuse
<1>5. CASE ClearIntent
  <2>1. on \in {"stage", "undo", "done", "recover"} /\ dir'.live = dir.live
    BY <1>5, Where DEF ClearIntent, Flushed, Cleared, Inv, TypeOK, Directories, Cleaning
  <2>2. CASE on = "recover"
    BY <1>5, <2>2 DEF ClearIntent, Goto
  <2>3. CASE on = "done"
    <3>1. answer = "none" /\ dir.live = Installed
      BY <2>3 DEF Inv, TypeOK, RoutineInv, DoneInv, Clean
    <3> QED
      BY <1>5, <1>2, <2>1, <2>3, <3>1
         DEF ClearIntent, Serve, Verdict, Promise!Next, Promise!Settle, Promise!Install
  <2>4. CASE on \in {"stage", "undo"}
    <3>1. answer = "none" /\ dir.live = seen
      BY <1>5, <2>4
         DEF ClearIntent, Inv, TypeOK, RoutineInv, StageInv, UndoInv, Cleaning, Clean
    <3> QED
      BY <1>5, <2>1, <2>4, <3>1
         DEF ClearIntent, Serve, Verdict, Promise!Next, Promise!Settle
  <2> QED
    BY <2>1, <2>2, <2>3, <2>4
<1>6. CASE OpenDatabase
  <2>1. Good(dir.live) /\ dir'.live = dir.live
    BY <1>6, Where
       DEF OpenDatabase, Flushed, Opened, Inv, TypeOK, Directories, RoutineInv, RecoverInv,
           HotInv
  <2> QED
    BY <1>6, <1>2, <2>1
       DEF OpenDatabase, Serve, Good, Promise!Next, Promise!Settle, Promise!Install
<1>7. CASE StagingFails
  <2>1. answer = "none" /\ dir' \in Leaves(dir) /\ on = "stage" /\ dir \in lag
    BY <1>7, Throwing DEF StagingFails, Inv, TypeOK, RoutineInv, StageInv
  <2>2. dir'.live = seen
    BY <2>1, StageLeaves DEF Clean
  <2> QED
    BY <1>7, <2>1, <2>2 DEF StagingFails, Serve, Enter, Promise!Next, Promise!Settle
<1>8. CASE RollbackFails
  <2>1. /\ answer = "none" /\ dir' \in Leaves(dir) /\ on = "undo" /\ dir \in lag
    BY <1>8, Throwing DEF RollbackFails, Inv, TypeOK, RoutineInv, UndoInv
  <2>2. Cleaning => dir'.live = seen
    BY <2>1, OtherLeaves DEF Clean
  <2>3. pc # "rolled_back"
    BY <1>8, Unstruck DEF RollbackFails, Throws, Inv
  <2> QED
    BY <1>8, <2>1, <2>2, <2>3 DEF RollbackFails, Serve, Enter, Promise!Next, Promise!Settle
<1>9. CASE CommitCleanupFails
  <2>1. /\ answer = "none" /\ dir' \in Leaves(dir) /\ on = "done" /\ dir \in lag
    BY <1>9, Throwing DEF CommitCleanupFails, Inv, TypeOK, RoutineInv, DoneInv, Cleaning
  <2>2. dir'.live = Installed
    BY <2>1, OtherLeaves DEF Clean
  <2> QED
    BY <1>9, <1>2, <2>1, <2>2
       DEF CommitCleanupFails, Serve, Promise!Next, Promise!Settle, Promise!Install
<1>10. CASE \/ Record \/ Stage \/ FlushStage \/ Staged \/ RenameLive \/ LiveRenamed
           \/ PromoteCandidate \/ CandidatePromoted \/ CandidateOpened \/ CandidateMigrated
           \/ CandidateLoaded \/ BeginCommit \/ EndCommit \/ Reconciled \/ Committed
           \/ CopyBack \/ FlushBack \/ PutBack \/ Reopen \/ RolledBack
           \/ RemoveStage \/ RemoveRollback \/ Start \/ Resolve \/ Stop
           \/ SwapFails \/ Kill \/ PowerLoss
  <2>1. UNCHANGED <<answer, seen>>
    BY <1>10
       DEF Record, Stage, FlushStage, Staged, RenameLive, LiveRenamed, PromoteCandidate,
           CandidatePromoted, CandidateOpened, CandidateMigrated, CandidateLoaded,
           BeginCommit, EndCommit, Reconciled, Committed, CopyBack, FlushBack, PutBack,
           Reopen, RolledBack, RemoveStage, RemoveRollback, Start, Resolve, Stop, SwapFails,
           Kill, PowerLoss, Crash, Advance, Goto, Enter
  <2> QED
    BY <2>1
<1> QED
  BY <1>3, <1>4, <1>5, <1>6, <1>7, <1>8, <1>9, <1>10
     DEF Next, Restore, Repair, Startup, Failure

\* The restore implements its abstract promise: the served database changes by
\* one acknowledged write or one whole restore, and the answers are true, until
\* one of the two rare faults voids the promise.
THEOREM RestoreIsAtomic == Spec => ImplementsAtomicRestore
<1>1. ASSUME SafeInv, [Next]_vars
      PROVE  [Promise!Next]_<<seen, answer, Struck>>
  <2>1. Struck \in BOOLEAN /\ Struck' \in BOOLEAN /\ (Struck => Struck')
    BY <1>1, StruckStays DEF SafeInv, Struck
  <2>2. CASE Struck'
    BY <2>2 DEF Promise!Next
  <2>3. CASE ~Struck' /\ Next
    BY <1>1, <2>1, <2>3, PromiseStep DEF SafeInv, Promise!Next
  <2>4. CASE ~Struck' /\ UNCHANGED vars
    BY <2>1, <2>4 DEF vars
  <2> QED
    BY <1>1, <2>2, <2>3, <2>4
<1> QED
  BY <1>1, Invariant, PromiseInit, PTL DEF Spec, ImplementsAtomicRestore, Promise!Spec
================================================================================
