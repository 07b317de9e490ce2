------------------------- MODULE ArchiveImportProofs --------------------------
(***************************************************************************)
(* Proofs about ArchiveImport for any archive, any number of failures and  *)
(* kills and any number of changes by users.                               *)
(***************************************************************************)
EXTENDS ArchiveImport, TLAPS

-------------------------------------------------------------------------------
(***************************************************************************)
(* Types.                                                                  *)
(***************************************************************************)

\* The bytes of every version.
LEMMA BytesOfType == BytesOf \in [Versions -> Bytes]
  BY DEF BytesOf, Versions, Bytes

\* What an import, and a rollback, make of the state is a state.
LEMMA MergedType == TypeOK => Merged \in States
<1> SUFFICES ASSUME TypeOK PROVE Merged \in States
  OBVIOUS
<1> USE ImportAssumption DEF TypeOK
<1>1. [x \in Records |-> IF x \in batch THEN "imported" ELSE mem.rec[x]]
        \in [Records -> Versions]
  BY DEF States, Versions
<1>2. [status |-> "applied", was |-> mem.rec, bytes |-> previous,
             records |-> {x \in batch : mem.rec[x] # "imported"},
             files |-> {a \in Assets \cap batch : previous[a] # "imported"}] \in Operations
  BY DEF States, Operations
<1> QED
  BY <1>1, <1>2 DEF Merged, States

LEMMA RolledBackType == TypeOK => RolledBackState \in States
<1> SUFFICES ASSUME TypeOK PROVE RolledBackState \in States
  OBVIOUS
<1> USE ImportAssumption DEF TypeOK
<1>1. [x \in Records |-> IF x \in plan.records THEN mem.op.was[x] ELSE mem.rec[x]]
        \in [Records -> Versions]
  BY DEF States, Operations
<1>2. /\ mem.op \in Operations /\ mem.op.records \ plan.records \subseteq Records
      /\ mem.op.files \ plan.files \subseteq Assets
  BY DEF States, Operations
<1> QED
  BY <1>1, <1>2 DEF RolledBackState, States, Operations

\* A plan is a plan.
LEMMA PlanType == TypeOK => Plan \in [records : SUBSET Records, files : SUBSET Assets]
  BY DEF Plan, TypeOK, States, Operations

\* The parts of TypeOK that several actions assign together.
StateTypeOK == mem \in States /\ disk \in States /\ dirty \in BOOLEAN
RequestTypeOK ==
  /\ request \in {"none", "import", "rollback"}
  /\ pc \in {"idle", "prepare", "write", "compensate", "clean", "reply"}
  /\ batch \subseteq Records /\ todo \subseteq Assets /\ written \subseteq Assets
  /\ previous \in [Assets -> Bytes]
  /\ plan \in [records : SUBSET Records, files : SUBSET Assets]
  /\ client \in {"there", "signalled", "gone"} /\ attempt \in 0..2

\* A failure stays within the bound.
LEMMA FailsType == TypeOK /\ Fails => faults' \in 0..MaxFaults
<1>1. MaxFaults \in Nat
  BY ImportAssumption
<1> QED
  BY <1>1 DEF TypeOK, Fails

\* What restoreDurableState, a flush and store.replace() leave has its type.
LEMMA ReloadType == TypeOK /\ Reload => StateTypeOK'
  BY DEF TypeOK, Reload, StateTypeOK

LEMMA FlushType ==
  ASSUME TypeOK, NEW state \in States, Flush(state)
  PROVE  StateTypeOK' /\ faults' \in 0..MaxFaults
  BY FailsType, ReloadType DEF TypeOK, Flush, StateTypeOK

LEMMA ReplaceType ==
  ASSUME TypeOK, NEW state \in States, NEW next \in {"reply", "clean"}, Replace(state, next)
  PROVE  StateTypeOK' /\ faults' \in 0..MaxFaults /\ todo' \subseteq Assets
         /\ pc' \in {"idle", "prepare", "write", "compensate", "clean", "reply"}
  BY FlushType DEF TypeOK, Replace, StateTypeOK

\* So has the request that has given the gate back.
LEMMA DoneType == Done => RequestTypeOK'
<1>1. NoObjects \in [Assets -> Bytes]
  BY DEF NoObjects, Bytes
<1>2. NoPlan \in [records : SUBSET Records, files : SUBSET Assets]
  BY DEF NoPlan
<1> SUFFICES ASSUME Done PROVE RequestTypeOK'
  OBVIOUS
<1> USE DEF Done
<1>3. previous' \in [Assets -> Bytes]
  BY <1>1
<1>4. plan' \in [records : SUBSET Records, files : SUBSET Assets]
  BY <1>2
<1>5. /\ request' \in {"none", "import", "rollback"}
      /\ pc' \in {"idle", "prepare", "write", "compensate", "clean", "reply"}
  OBVIOUS
<1>6. batch' \subseteq Records /\ todo' \subseteq Assets /\ written' \subseteq Assets
  OBVIOUS
<1>7. client' \in {"there", "signalled", "gone"}
  OBVIOUS
<1>8. attempt' \in 0..2
  OBVIOUS
<1> QED
  BY <1>3, <1>4, <1>5, <1>6, <1>7, <1>8 DEF RequestTypeOK, Bytes

\* Every step keeps the types.
LEMMA TypeStep == TypeOK /\ [Next]_vars => TypeOK'
<1> SUFFICES ASSUME TypeOK, [Next]_vars PROVE TypeOK'
  OBVIOUS
<1> USE DEF StateTypeOK, RequestTypeOK
<1>1. Merged \in States /\ RolledBackState \in States
  BY MergedType, RolledBackType
<1>2. NoObjects \in [Assets -> Bytes]
  BY DEF NoObjects, Bytes
<1>3. ASSUME NEW skip \in BOOLEAN, StartImport(skip) PROVE TypeOK'
  BY <1>3 DEF StartImport, stateVars, TypeOK
<1>4. CASE StartRollback
  BY <1>4, PlanType DEF StartRollback, stateVars, TypeOK
<1>5. CASE BeginRestore
  BY <1>5 DEF BeginRestore, stateVars, TypeOK
<1>6. CASE PrepareFails
  BY <1>6, <1>2, FailsType, ReloadType, DoneType DEF PrepareFails, TypeOK
<1>7. CASE MergeArchive
  BY <1>7, <1>1, ReplaceType DEF MergeArchive, TypeOK
<1>8. CASE ApplyRollback
  BY <1>8, <1>1, ReplaceType DEF ApplyRollback, TypeOK
<1>9. ASSUME NEW a \in Assets, RollBackFileFails(a) PROVE TypeOK'
  BY <1>9, FailsType, ReloadType DEF RollBackFileFails, TypeOK
<1>10. ASSUME NEW a \in Assets, CompensateFails(a) PROVE TypeOK'
  BY <1>10, FailsType DEF CompensateFails, TypeOK, stateVars, Bytes
<1>11. CASE Kill
  BY <1>11, FailsType, ReloadType, DoneType DEF Kill, Found, TypeOK
<1>12. CASE ReplyFails \/ ReplyToNobody
  <2>1. Found(written) \subseteq Assets /\ Found(plan.files) \subseteq Assets
        /\ mem.op.files \subseteq Assets
    BY DEF Found, TypeOK, States, Operations
  <2>2. CASE ReplyFails
    BY <2>1, <2>2, FailsType, ReloadType, DoneType
       DEF ReplyFails, TakeBack, Unwritten, TypeOK
  <2>3. CASE ReplyToNobody
    BY <2>1, <2>3 DEF ReplyToNobody, TakeBack, TypeOK
  <2> QED
    BY <1>12, <2>2, <2>3
<1>13. CASE Compensated
  BY <1>13, <1>2, ReloadType, DoneType DEF Compensated, TypeOK, stateVars
<1>14. CASE Reply
  BY <1>14, DoneType DEF Reply, TypeOK
<1>15. ASSUME NEW a \in Assets, KeepPrevious(a) \/ PutFile(a) \/ RollBackFile(a) \/ Compensate(a)
       PROVE  TypeOK'
  BY <1>15 DEF KeepPrevious, PutFile, RollBackFile, Compensate, TypeOK, stateVars, Bytes
<1>22. ASSUME NEW a \in Assets, PutFileFails(a) PROVE TypeOK'
  BY <1>22, FailsType DEF PutFileFails, TypeOK, stateVars, Bytes
<1>17. CASE RestoreAborted \/ Disconnect \/ AuditedRead \/ Timer \/ DeleteInverses
  BY <1>17, FailsType
     DEF RestoreAborted, Disconnect, AuditedRead, Timer, DeleteInverses, TypeOK,
         stateVars, requestVars, Bytes
<1>18. ASSUME NEW rec \in [Records -> Versions], NEW refs \in SUBSET Records,
              Change(rec, refs), object' \in [Assets -> Bytes]
       PROVE  TypeOK'
  <2>1. edits' \in 0..MaxEdits
    BY <1>18, ImportAssumption DEF Change, TypeOK
  <2>2. [mem EXCEPT !.rec = rec, !.refs = refs] \in States
    BY DEF TypeOK, States
  <2> QED
    BY <1>18, <2>1, <2>2 DEF Change, requestVars, TypeOK
<1>19. ASSUME NEW x \in Records
       PROVE  /\ \A v \in Versions : With(x, v) \in [Records -> Versions]
   /\ \A b \in Bytes : WithBytes(x, b) \in [Assets -> Bytes]
   /\ mem.rec \in [Records -> Versions] /\ mem.refs \in SUBSET Records
   /\ mem.refs \cup {x} \in SUBSET Records  /\ mem.refs \ {x} \in SUBSET Records
  BY DEF TypeOK, States, With, WithBytes
<1>20. CASE UserStep
  <2>1. PICK x \in Records : \/ Edit(x) \/ LaterImport(x) \/ LaterImportRolledBack(x)
                             \/ Delete(x) \/ Name(x) \/ Unname(x)
    BY <1>20 DEF UserStep
  <2>2. /\ {"none", "edited", "later", "imported"} \subseteq Versions
        /\ {"later", "imported"} \subseteq Bytes
    BY DEF Versions, Bytes
  <2>3. object' \in [Assets -> Bytes]
    BY <1>19, <2>1, <2>2
       DEF Edit, LaterImport, LaterImportRolledBack, Delete, Name, Unname, TypeOK
  <2> QED
    BY <1>18, <1>19, <2>1, <2>2, <2>3
       DEF Edit, LaterImport, LaterImportRolledBack, Delete, Name, Unname
<1>21. CASE UNCHANGED vars
  BY <1>21 DEF vars, stateVars, requestVars, TypeOK
<1> QED
  BY <1>3, <1>4, <1>5, <1>6, <1>7, <1>8, <1>9, <1>10, <1>11, <1>12, <1>13, <1>14, <1>15,
     <1>22, <1>17, <1>20, <1>21
     DEF Next, ImportStep, RollbackStep, EndStep

-------------------------------------------------------------------------------
(***************************************************************************)
(* The records.  RecordInv strengthens NothingNamedIsMissing and           *)
(* LaterWorkStays: it says which versions and bytes there can be while     *)
(* each request runs, in memory and on disk.                               *)
(***************************************************************************)

\* No operation is followed.
Settled == {"none", "rolled_back"}

\* The stages of each request, and when memory is ahead of the disk.
Gate ==
  /\ request = "none" <=> pc = "idle"
  /\ request = "import" => pc \in {"prepare", "write", "compensate", "reply"}
  /\ request = "rollback" => pc \in {"write", "compensate", "clean", "reply"}
  /\ request = "none" => todo = {} /\ written = {} /\ previous = NoObjects
  /\ request # "rollback" => plan = NoPlan
  /\ pc \in {"clean", "reply"} => todo = {}
  /\ pc \notin {"clean", "reply"} => mem = disk

\* The operation lists every record that is newer than the import found it, and an
\* asset's file with it unless the import found its bytes there already.
Followed(s) ==
  /\ s.op.status \in Settled => s.op.records = {}
  /\ s.op.files \subseteq s.op.records
  /\ \A x \in Records : s.op.was[x] \notin Newer
  /\ \A x \in Records : s.rec[x] \in Newer => x \in s.op.records
  /\ \A a \in Assets : a \in s.op.records => a \in s.op.files \/ s.op.bytes[a] = "imported"

\* NothingNamedIsMissing, for one state.
Closed(s) ==
  \A y \in Records : s.rec[y] = "none" =>
    y \notin s.refs /\ \A x \in Records : <<x, y>> \in Refers => s.rec[x] \notin Newer

\* A later import's bytes belong to a later import's record.
LaterIsLater(s) == \A a \in Assets : object[a] = "later" => s.rec[a] = "later"

\* An import finds nothing that a later import has put there.
Importing ==
  request = "import" =>
    /\ todo \cup written \subseteq Assets \cap batch
    /\ pc \in {"prepare", "write"} => 
         mem.op.status \in Settled /\ \A x \in Records \ batch : mem.rec[x] # "none"
    /\ \A a \in Assets : object[a] # "later" /\ previous[a] # "later"

\* A rollback follows a plan that is safe to carry out, step by step.
RollingBack ==
  request = "rollback" =>
    /\ \A x \in Records : mem.rec[x] \in {"edited", "later"} => disk.rec[x] = mem.rec[x]
    /\ todo \cup written \subseteq plan.files
    /\ \A a \in todo \cup written : previous[a] = "imported" /\ object[a] # "later"
    /\ pc = "write" =>
         /\ plan.records \subseteq mem.op.records /\ plan.files \subseteq mem.op.files
         /\ \A a \in mem.op.files : a \in plan.records <=> a \in plan.files
         /\ \A x \in plan.records : mem.rec[x] \in {"imported", mem.op.was[x]}
         /\ Closed(RolledBackState)

\* The invariant of the records.
RecordInv ==
  /\ Gate /\ Followed(mem) /\ Followed(disk) /\ Closed(mem) /\ Closed(disk)
  /\ LaterIsLater(mem) /\ LaterIsLater(disk) /\ Importing /\ RollingBack
  /\ \A a \in Assets : inverse[a] # "later"

\* What every new state has to be.
Good(s) == Followed(s) /\ Closed(s)

\* What the types say of the variables, and of the two states a request makes.
LEMMA VariableTypes ==
  TypeOK => /\ Assets \subseteq Records /\ todo \subseteq Assets /\ written \subseteq Assets
            /\ {object, inverse, previous} \subseteq [Assets -> Bytes]
            /\ request \in {"none", "import", "rollback"} /\ faults \in Nat
            /\ mem.rec \in [Records -> Versions] /\ mem.op.was \in [Records -> Versions]
            /\ mem.op.files \subseteq Assets /\ plan.files \subseteq Assets
  BY ImportAssumption DEF TypeOK, States, Operations

LEMMA MergedFields ==
  TypeOK =>
    /\ Merged.rec = [x \in Records |-> IF x \in batch THEN "imported" ELSE mem.rec[x]]
    /\ Merged.op.status = "applied"
    /\ Merged.op.was = mem.rec /\ Merged.op.bytes = previous
    /\ Merged.op.records = {x \in batch : mem.rec[x] # "imported"}
    /\ Merged.op.files = {a \in Assets \cap batch : previous[a] # "imported"}
  BY DEF Merged, TypeOK, States

LEMMA RolledBackFields ==
  TypeOK =>
    /\ RolledBackState.rec =
         [x \in Records |-> IF x \in plan.records THEN mem.op.was[x] ELSE mem.rec[x]]
    /\ RolledBackState.op.was = mem.op.was /\ RolledBackState.op.bytes = mem.op.bytes
    /\ RolledBackState.op.records = mem.op.records \ plan.records
    /\ RolledBackState.op.files = mem.op.files \ plan.files
    /\ RolledBackState.op.status =
         IF mem.op.records = plan.records /\ mem.op.files = plan.files
         THEN "rolled_back" ELSE "partially_rolled_back"
  BY DEF RolledBackState, TypeOK, States, Operations

\* What becomes of the two states.
LEMMA StateMoves ==
  ASSUME [Next]_vars
  PROVE  \/ mem' \in {mem, disk} /\ disk' \in {mem, disk}
         \/ MergeArchive /\ mem' \in {Merged, disk} /\ disk' \in {Merged, disk}
         \/ ApplyRollback /\ mem' \in {RolledBackState, disk} /\ disk' \in {RolledBackState, disk}
         \/ UserStep /\ disk' = mem'
<1>1. CASE MergeArchive
  BY <1>1 DEF MergeArchive, Replace, Flush, Reload
<1>2. CASE ApplyRollback
  BY <1>2 DEF ApplyRollback, Replace, Flush, Reload
<1>3. CASE UserStep
  <2>1. PICK x \in Records : \/ Edit(x) \/ LaterImport(x) \/ LaterImportRolledBack(x)
                             \/ Delete(x) \/ Name(x) \/ Unname(x)
    BY <1>3 DEF UserStep
  <2>2. disk' = mem'
    BY <2>1 DEF Edit, LaterImport, LaterImportRolledBack, Delete, Name, Unname, Change
  <2> QED
    BY <1>3, <2>2
<1>4. ASSUME NEW skip \in BOOLEAN, StartImport(skip) PROVE mem' = mem /\ disk' = disk
  BY <1>4 DEF StartImport, stateVars
<1>5. CASE \/ StartRollback \/ BeginRestore \/ RestoreAborted \/ DeleteInverses \/ Disconnect
           \/ UNCHANGED vars
  BY <1>5
     DEF StartRollback, BeginRestore, RestoreAborted, DeleteInverses, Disconnect, vars,
         stateVars
<1>6. CASE \/ PrepareFails \/ Reply \/ ReplyToNobody \/ ReplyFails \/ Compensated
           \/ AuditedRead \/ Timer \/ Kill
  BY <1>6
     DEF PrepareFails, Reply, ReplyToNobody, ReplyFails, Compensated, AuditedRead, Timer,
         Kill, Reload, stateVars
<1>7. ASSUME NEW a \in Assets,
             \/ KeepPrevious(a) \/ PutFile(a) \/ PutFileFails(a)
             \/ RollBackFile(a) \/ RollBackFileFails(a) \/ Compensate(a) \/ CompensateFails(a)
      PROVE  mem' \in {mem, disk} /\ disk' \in {mem, disk}
  BY <1>7
     DEF KeepPrevious, PutFile, PutFileFails, RollBackFile, RollBackFileFails,
         Compensate, CompensateFails, Reload, stateVars
<1> QED
  BY <1>1, <1>2, <1>3, <1>4, <1>5, <1>6, <1>7 DEF Next, ImportStep, RollbackStep, EndStep

\* What an import makes of the state is closed: nothing is missing from it, since
\* mode skip_conflicts takes what does not exist and mode upsert takes everything.
LEMMA MergedGood == TypeOK /\ RecordInv /\ MergeArchive => Good(Merged)
<1> SUFFICES ASSUME TypeOK, RecordInv, MergeArchive PROVE Good(Merged)
  OBVIOUS
<1>1. /\ batch \subseteq Records /\ Assets \subseteq Records
      /\ \A x \in Records : mem.rec[x] \notin Newer
      /\ \A x \in Records \ batch : mem.rec[x] # "none"
  BY ImportAssumption DEF RecordInv, MergeArchive, Importing, Followed, Settled, TypeOK
<1>2. Followed(Merged)
  BY MergedFields, <1>1 DEF Followed, Newer, Settled
<1>3. Closed(Merged)
  BY MergedFields, <1>1 DEF Closed
<1> QED
  BY <1>2, <1>3 DEF Good

\* What a rollback makes of the state is closed, by the plan it follows.
LEMMA RolledBackGood == TypeOK /\ RecordInv /\ ApplyRollback => Good(RolledBackState)
<1> SUFFICES ASSUME TypeOK, RecordInv, ApplyRollback PROVE Good(RolledBackState)
  OBVIOUS
<1> DEFINE r == RolledBackState
<1>1. /\ Assets \subseteq Records /\ mem.op.files \subseteq Assets
      /\ Followed(mem) /\ Closed(r)
      /\ plan.records \subseteq mem.op.records /\ plan.files \subseteq mem.op.files
      /\ \A a \in mem.op.files : a \in plan.records <=> a \in plan.files
  BY ImportAssumption
     DEF RecordInv, ApplyRollback, RollingBack, TypeOK, States, Operations
<1>2. Followed(r)
  BY RolledBackFields, <1>1 DEF Followed, Settled
<1> QED
  BY <1>1, <1>2 DEF Good

\* What users do between keeps it closed, and later bytes with later records.
LEMMA UserGood == TypeOK /\ RecordInv /\ UserStep => Good(mem') /\ (LaterIsLater(mem))'
<1> SUFFICES ASSUME TypeOK, RecordInv, UserStep PROVE Good(mem') /\ (LaterIsLater(mem))'
  OBVIOUS
<1>1. /\ Followed(mem) /\ Closed(mem) /\ LaterIsLater(mem)
      /\ mem.rec \in [Records -> Versions] /\ mem.refs \subseteq Records
      /\ object \in [Assets -> Bytes] /\ Assets \subseteq Records
      /\ Refers \subseteq Records \X Records
  BY ImportAssumption DEF RecordInv, TypeOK, States
<1>2. ASSUME NEW rec \in [Records -> Versions], NEW refs \in SUBSET Records, Change(rec, refs)
      PROVE  /\ mem'.rec = rec /\ mem'.refs = refs /\ mem'.op = mem.op
  BY <1>2 DEF Change, TypeOK, States
<1>3. ASSUME NEW x \in Records, NEW v \in {"imported", "edited", "later"},
             mem.rec[x] \in Newer, Change(With(x, v), mem.refs),
             \A a \in Assets :
               object'[a] = "later" => (IF a = x THEN v ELSE object[a]) = "later"
      PROVE  Good(mem') /\ (LaterIsLater(mem))'
  <2>1. /\ With(x, v) \in [Records -> Versions]
        /\ \A y \in Records : With(x, v)[y] = IF y = x THEN v ELSE mem.rec[y]
    BY <1>1 DEF With, Versions
  <2>2. mem'.rec = With(x, v) /\ mem'.refs = mem.refs /\ mem'.op = mem.op
    BY <1>1, <1>2, <1>3, <2>1
  <2>3. Good(mem')
    BY <1>1, <1>3, <2>1, <2>2 DEF Good, Followed, Closed, Newer
  <2>4. LaterIsLater(mem)'
    BY <1>1, <1>3, <2>1, <2>2 DEF LaterIsLater
  <2> QED
    BY <2>3, <2>4
<1>4. PICK x \in Records : \/ Edit(x) \/ LaterImport(x) \/ LaterImportRolledBack(x)
                           \/ Delete(x) \/ Name(x) \/ Unname(x)
  BY DEF UserStep
<1>5. CASE Edit(x)
  <2>1. mem.rec[x] = "imported" /\ Change(With(x, "edited"), mem.refs) /\ object' = object
    BY <1>5 DEF Edit
  <2>2. \A a \in Assets :
          object'[a] = "later" => (IF a = x THEN "edited" ELSE object[a]) = "later"
    BY <1>1, <2>1 DEF LaterIsLater
  <2> QED
    BY <1>3, <2>1, <2>2 DEF Newer
<1>6. CASE LaterImport(x)
  <2>1. /\ mem.rec[x] = "imported" /\ Change(With(x, "later"), mem.refs)
        /\ object' = WithBytes(x, "later")
    BY <1>6 DEF LaterImport
  <2>2. \A a \in Assets :
          object'[a] = "later" => (IF a = x THEN "later" ELSE object[a]) = "later"
    BY <1>1, <2>1 DEF WithBytes
  <2> QED
    BY <1>3, <2>1, <2>2 DEF Newer
<1>7. CASE LaterImportRolledBack(x)
  <2>1. /\ mem.rec[x] = "later" /\ Change(With(x, "imported"), mem.refs)
        /\ object' = WithBytes(x, "imported")
    BY <1>7 DEF LaterImportRolledBack
  <2>2. \A a \in Assets :
          object'[a] = "later" => (IF a = x THEN "imported" ELSE object[a]) = "later"
    BY <1>1, <2>1 DEF WithBytes
  <2> QED
    BY <1>3, <2>1, <2>2 DEF Newer
<1>8. CASE Delete(x)
  <2>1. /\ With(x, "none") \in [Records -> Versions]
        /\ \A y \in Records : With(x, "none")[y] = IF y = x THEN "none" ELSE mem.rec[y]
    BY <1>1 DEF With, Versions
  <2>2. mem'.rec = With(x, "none") /\ mem'.refs = mem.refs /\ mem'.op = mem.op
    BY <1>1, <1>2, <1>8, <2>1 DEF Delete
  <2>3. ~Named(mem.rec, x) /\ object' = object /\ x \notin Assets
    BY <1>8 DEF Delete
  <2>4. LaterIsLater(mem)'
    BY <1>1, <2>1, <2>2, <2>3 DEF LaterIsLater
  <2>5. Followed(mem')
    BY <1>1, <2>1, <2>2, <2>3 DEF Followed, Newer
  <2>6. Closed(mem')
    BY <1>1, <2>1, <2>2, <2>3 DEF Closed, Newer, Named
  <2> QED
    BY <2>4, <2>5, <2>6 DEF Good
<1>9. CASE Name(x)
  <2>1. /\ mem'.rec = mem.rec /\ mem'.refs = mem.refs \cup {x} /\ mem'.op = mem.op
        /\ object' = object /\ mem.rec[x] # "none"
    BY <1>1, <1>2, <1>9 DEF Name
  <2> QED
    BY <1>1, <2>1 DEF Good, Followed, Closed, LaterIsLater
<1>10. CASE Unname(x)
  <2>1. mem'.rec = mem.rec /\ mem'.refs = mem.refs \ {x} /\ mem'.op = mem.op /\ object' = object
    BY <1>1, <1>2, <1>10 DEF Unname
  <2> QED
    BY <1>1, <2>1 DEF Good, Followed, Closed, LaterIsLater
<1> QED
  BY <1>4, <1>5, <1>6, <1>7, <1>8, <1>9, <1>10

\* So every step keeps both states closed.
LEMMA GoodStep ==
  TypeOK /\ RecordInv /\ [Next]_vars =>
    (Followed(mem) /\ Followed(disk) /\ Closed(mem) /\ Closed(disk))'
<1> SUFFICES ASSUME TypeOK, RecordInv, [Next]_vars PROVE Good(mem') /\ Good(disk')
  BY DEF Good, Followed, Closed
<1>1. Good(mem) /\ Good(disk)
  BY DEF RecordInv, Good
<1>2. CASE MergeArchive /\ mem' \in {Merged, disk} /\ disk' \in {Merged, disk}
  BY <1>1, <1>2, MergedGood
<1>3. CASE ApplyRollback /\ mem' \in {RolledBackState, disk} /\ disk' \in {RolledBackState, disk}
  BY <1>1, <1>3, RolledBackGood
<1> QED
  BY <1>1, <1>2, <1>3, StateMoves, UserGood
\* Every step keeps the order of the requests' stages.
LEMMA GateStep == TypeOK /\ RecordInv /\ [Next]_vars => Gate'
<1> SUFFICES ASSUME TypeOK, RecordInv, [Next]_vars PROVE Gate'
  OBVIOUS
<1>1. ASSUME NEW skip \in BOOLEAN, StartImport(skip) PROVE Gate'
  BY <1>1 DEF StartImport, stateVars, Gate, Idle, RecordInv
<1>2. CASE StartRollback
  BY <1>2 DEF StartRollback, stateVars, Gate, Idle, RecordInv
<1>3. CASE BeginRestore \/ RestoreAborted \/ DeleteInverses
  BY <1>3 DEF BeginRestore, RestoreAborted, DeleteInverses, stateVars, Gate, RecordInv
<1>4. CASE Disconnect \/ AuditedRead \/ Timer \/ UNCHANGED vars
  BY <1>4
     DEF Disconnect, AuditedRead, Timer, vars, stateVars, requestVars, Gate, RecordInv
<1>5. ASSUME NEW a \in Assets, KeepPrevious(a) \/ PutFile(a) \/ PutFileFails(a) PROVE Gate'
  BY <1>5 DEF KeepPrevious, PutFile, PutFileFails, stateVars, Gate, RecordInv
<1>6. ASSUME NEW a \in Assets, RollBackFile(a) \/ RollBackFileFails(a) PROVE Gate'
  BY <1>6 DEF RollBackFile, RollBackFileFails, stateVars, Reload, Gate, RecordInv
<1>7. ASSUME NEW a \in Assets, Compensate(a) \/ CompensateFails(a) PROVE Gate'
  BY <1>7 DEF Compensate, CompensateFails, stateVars, Gate, RecordInv
<1>8. CASE MergeArchive
  BY <1>8 DEF MergeArchive, Replace, Flush, Reload, Gate, RecordInv
<1>9. CASE ApplyRollback
  BY <1>9 DEF ApplyRollback, Replace, Flush, Reload, Gate, RecordInv
<1>10. CASE PrepareFails \/ Reply \/ Kill
  BY <1>10 DEF PrepareFails, Reply, Kill, Reload, Done, Gate, RecordInv, NoPlan
<1>11. CASE ReplyFails \/ ReplyToNobody
  BY <1>11
     DEF ReplyFails, ReplyToNobody, TakeBack, Unwritten, Reload, Done, Gate, RecordInv,
         NoPlan
<1>12. CASE Compensated
  BY <1>12 DEF Compensated, Reload, Done, stateVars, Gate, RecordInv, NoPlan
<1>13. CASE UserStep
  <2>1. PICK x \in Records : \/ Edit(x) \/ LaterImport(x) \/ LaterImportRolledBack(x)
                             \/ Delete(x) \/ Name(x) \/ Unname(x)
    BY <1>13 DEF UserStep
  <2>2. Idle /\ mem' = disk' /\ UNCHANGED requestVars /\ UNCHANGED inverse
    BY <2>1 DEF Edit, LaterImport, LaterImportRolledBack, Delete, Name, Unname, Change
  <2> QED
    BY <2>2 DEF requestVars, Idle, Gate, Idle, RecordInv, NoPlan
<1> QED
  BY <1>1, <1>2, <1>3, <1>4, <1>5, <1>6, <1>7, <1>8, <1>9, <1>10, <1>11, <1>12, <1>13
     DEF Next, ImportStep, RollbackStep, EndStep

\* No import runs while a later one's bytes are in place, none keeps such bytes.
LEMMA ImportingStep == TypeOK /\ RecordInv /\ [Next]_vars => Importing'
<1> SUFFICES ASSUME TypeOK, RecordInv, [Next]_vars PROVE Importing'
  OBVIOUS
<1>1. mem.op.status \in Settled => \A a \in Assets : object[a] # "later"
  BY VariableTypes DEF RecordInv, LaterIsLater, Followed, Newer
<1>2. ASSUME NEW skip \in BOOLEAN, StartImport(skip) PROVE Importing'
  BY <1>2, <1>1
     DEF StartImport, stateVars, Importing, Gate, Idle, RecordInv, Settled, NoObjects
<1>3. CASE StartRollback
  BY <1>3 DEF StartRollback, stateVars, Importing, Gate, Idle, RecordInv
<1>4. CASE BeginRestore \/ RestoreAborted \/ DeleteInverses
  BY <1>4
     DEF BeginRestore, RestoreAborted, DeleteInverses, stateVars, Importing, Gate,
         RecordInv
<1>5. CASE Disconnect \/ AuditedRead \/ Timer \/ UNCHANGED vars
  BY <1>5
     DEF Disconnect, AuditedRead, Timer, vars, stateVars, requestVars, Importing, Gate,
         RecordInv
<1>6. ASSUME NEW a \in Assets, KeepPrevious(a) PROVE Importing'
  BY <1>6 DEF KeepPrevious, stateVars, Importing, Gate, RecordInv
<1>7. ASSUME NEW a \in Assets, PutFile(a) PROVE Importing'
  BY <1>7 DEF PutFile, stateVars, Importing, Gate, RecordInv
<1>8. ASSUME NEW a \in Assets, PutFileFails(a) PROVE Importing'
  BY <1>8, VariableTypes DEF PutFileFails, stateVars, Importing, Gate, Idle, RecordInv
<1>9. ASSUME NEW a \in Assets, RollBackFile(a) PROVE Importing'
  BY <1>9 DEF RollBackFile, stateVars, Reload, Importing, Gate, RecordInv
<1>10. ASSUME NEW a \in Assets, RollBackFileFails(a) PROVE Importing'
  BY <1>10 DEF RollBackFileFails, stateVars, Reload, Importing, Gate, RecordInv
<1>11. ASSUME NEW a \in Assets, Compensate(a) PROVE Importing'
  BY <1>11 DEF Compensate, stateVars, Importing, Gate, RecordInv
<1>12. ASSUME NEW a \in Assets, CompensateFails(a) PROVE Importing'
  BY <1>12 DEF CompensateFails, stateVars, Importing, Gate, RecordInv
<1>13. CASE MergeArchive
  BY <1>13 DEF MergeArchive, Replace, Flush, Reload, Importing, Gate, RecordInv, Settled
<1>14. CASE ApplyRollback
  BY <1>14 DEF ApplyRollback, Replace, Flush, Reload, Importing, Gate, RecordInv
<1>19. CASE PrepareFails \/ Reply \/ Kill
  BY <1>19
     DEF PrepareFails, Reply, Kill, Reload, Done, Importing, Gate, RecordInv, NoObjects
<1>16. CASE ReplyFails \/ ReplyToNobody
  BY <1>16
     DEF ReplyFails, ReplyToNobody, TakeBack, Unwritten, Reload, Done, Importing, Gate,
         RecordInv, NoObjects
<1>17. CASE Compensated
  BY <1>17 DEF Compensated, Reload, Done, stateVars, Importing, Gate, RecordInv, NoObjects
<1>18. CASE UserStep
  <2>1. PICK x \in Records : \/ Edit(x) \/ LaterImport(x) \/ LaterImportRolledBack(x)
                             \/ Delete(x) \/ Name(x) \/ Unname(x)
    BY <1>18 DEF UserStep
  <2>2. Idle /\ mem' = disk' /\ UNCHANGED requestVars /\ UNCHANGED inverse
    BY <2>1 DEF Edit, LaterImport, LaterImportRolledBack, Delete, Name, Unname, Change
  <2> QED
    BY <2>2 DEF requestVars, Idle, Importing, Gate, Idle, RecordInv, Settled, NoObjects
<1> QED
  BY <1>2, <1>3, <1>4, <1>5, <1>6, <1>7, <1>8, <1>9, <1>10, <1>11, <1>12, <1>13, <1>14,
     <1>19, <1>16, <1>17, <1>18
     DEF Next, ImportStep, RollbackStep, EndStep

\* No inverse object ever has a later import's bytes.
LEMMA InverseStep == TypeOK /\ RecordInv /\ [Next]_vars => \A a \in Assets : inverse'[a] # "later"
<1> SUFFICES ASSUME TypeOK, RecordInv, [Next]_vars PROVE \A a \in Assets : inverse'[a] # "later"
  OBVIOUS
<1>1. ASSUME NEW skip \in BOOLEAN, StartImport(skip)
      PROVE  \A a \in Assets : inverse'[a] # "later"
  BY <1>1 DEF StartImport, stateVars, Gate, Idle, RecordInv, Importing
<1>2. CASE StartRollback
  BY <1>2 DEF StartRollback, stateVars, Gate, Idle, RecordInv
<1>3. CASE BeginRestore \/ RestoreAborted \/ DeleteInverses
  BY <1>3
     DEF BeginRestore, RestoreAborted, DeleteInverses, stateVars, Gate, RecordInv,
         Importing
<1>4. CASE Disconnect \/ AuditedRead \/ Timer \/ UNCHANGED vars
  BY <1>4
     DEF Disconnect, AuditedRead, Timer, vars, stateVars, requestVars, Gate, RecordInv
<1>5. ASSUME NEW a \in Assets, KeepPrevious(a) PROVE \A b \in Assets : inverse'[b] # "later"
  BY <1>5 DEF KeepPrevious, stateVars, Gate, RecordInv, Importing
<1>6. ASSUME NEW a \in Assets, PutFile(a) PROVE \A b \in Assets : inverse'[b] # "later"
  BY <1>6 DEF PutFile, stateVars, Gate, RecordInv, Importing
<1>7. ASSUME NEW a \in Assets, PutFileFails(a) PROVE \A b \in Assets : inverse'[b] # "later"
  BY <1>7 DEF PutFileFails, stateVars, Gate, RecordInv, Importing
<1>8. ASSUME NEW a \in Assets, RollBackFile(a) PROVE \A b \in Assets : inverse'[b] # "later"
  BY <1>8 DEF RollBackFile, stateVars, Reload, Gate, RecordInv
<1>9. ASSUME NEW a \in Assets, RollBackFileFails(a)
      PROVE  \A b \in Assets : inverse'[b] # "later"
  BY <1>9 DEF RollBackFileFails, stateVars, Reload, Gate, RecordInv
<1>10. ASSUME NEW a \in Assets, Compensate(a) PROVE \A b \in Assets : inverse'[b] # "later"
  BY <1>10 DEF Compensate, stateVars, Gate, RecordInv, Importing
<1>11. ASSUME NEW a \in Assets, CompensateFails(a)
       PROVE  \A b \in Assets : inverse'[b] # "later"
  BY <1>11 DEF CompensateFails, stateVars, Gate, RecordInv, Importing
<1>12. CASE MergeArchive
  BY <1>12 DEF MergeArchive, Replace, Flush, Reload, Gate, RecordInv, Importing
<1>13. CASE ApplyRollback
  BY <1>13 DEF ApplyRollback, Replace, Flush, Reload, Gate, RecordInv
<1>18. CASE PrepareFails \/ Reply \/ Kill
  BY <1>18 DEF PrepareFails, Reply, Kill, Reload, Done, Gate, RecordInv, NoObjects
<1>15. CASE ReplyFails \/ ReplyToNobody
  BY <1>15
     DEF ReplyFails, ReplyToNobody, TakeBack, Unwritten, Reload, Done, Gate, RecordInv,
         NoObjects
<1>16. CASE Compensated
  BY <1>16 DEF Compensated, Reload, Done, stateVars, Gate, RecordInv, NoObjects
<1>17. CASE UserStep
  <2>1. PICK x \in Records : \/ Edit(x) \/ LaterImport(x) \/ LaterImportRolledBack(x)
                             \/ Delete(x) \/ Name(x) \/ Unname(x)
    BY <1>17 DEF UserStep
  <2>2. Idle /\ mem' = disk' /\ UNCHANGED requestVars /\ UNCHANGED inverse
    BY <2>1 DEF Edit, LaterImport, LaterImportRolledBack, Delete, Name, Unname, Change
  <2> QED
    BY <2>2 DEF requestVars, Idle, Gate, Idle, RecordInv, Importing, NoObjects, TypeOK
<1> QED
  BY <1>1, <1>2, <1>3, <1>4, <1>5, <1>6, <1>7, <1>8, <1>9, <1>10, <1>11, <1>12, <1>13,
     <1>18, <1>15, <1>16, <1>17
     DEF Next, ImportStep, RollbackStep, EndStep

\* The plan of a rollback deletes nothing that is named by what stays.
LEMMA PlanIsSafe ==
  ASSUME TypeOK, Followed(mem), Closed(mem), mem' = mem, plan' = Plan
  PROVE  /\ plan'.records \subseteq mem.op.records /\ plan'.files \subseteq mem.op.files
         /\ \A a \in mem.op.files : a \in plan'.records <=> a \in plan'.files
         /\ \A x \in plan'.records : mem.rec[x] \in {"imported", mem.op.was[x]}
         /\ \A a \in plan'.files : FileSatisfied(a) \/ object[a] = "imported"
         /\ Closed(RolledBackState')
<1> DEFINE steps == mem.op.records \ (RecordConflicts \cup BytesConflicts)
           deletes == {x \in steps : Applicable(x) /\ mem.op.was[x] = "none"}
           deleted == Deletable(steps)
           r == RolledBackState'
<1>1. /\ mem.op.files \subseteq mem.op.records /\ mem.op.records \subseteq Records
      /\ mem.op.was \in [Records -> Versions] /\ mem.rec \in [Records -> Versions]
      /\ \A x \in Records : mem.op.was[x] \notin Newer
      /\ steps \subseteq Records
  BY DEF TypeOK, Followed, States, Operations
<1>2. /\ plan'.records = steps \ (deletes \ deleted)
      /\ plan'.files =
           mem.op.files \ (RecordConflicts \cup BytesConflicts \cup (deletes \ deleted))
  BY DEF Plan
<1>3. /\ r.rec = [x \in Records |-> IF x \in plan'.records THEN mem.op.was[x] ELSE mem.rec[x]]
      /\ r.refs = mem.refs
  BY DEF RolledBackState, TypeOK, States, Operations
<1>4. \A x \in steps : Satisfied(x) \/ Applicable(x)
  BY DEF RecordConflicts
<1>5. \A a \in plan'.files : FileSatisfied(a) \/ object[a] = "imported"
  BY <1>1, <1>2 DEF BytesConflicts
<1>6. \A y \in deleted : \E d \in SUBSET deletes :
        y \in d /\ d \subseteq deleted /\ \A z \in d : ~Named(WithDeleted(steps, d), z)
  BY DEF Deletable
<1>7. deleted \subseteq deletes
  BY DEF Deletable
<1> HIDE DEF steps, deleted, r
<1>8. ASSUME NEW y \in Records, r.rec[y] = "none"
      PROVE  y \notin mem.refs /\ \A x \in Records : <<x, y>> \in Refers => r.rec[x] \notin Newer
  <2>1. \A x \in Records : r.rec[x] \in Newer => x \notin plan'.records /\ r.rec[x] = mem.rec[x]
    BY <1>1, <1>3
  <2>2. CASE mem.rec[y] = "none"
    BY <2>1, <2>2 DEF Closed
  <2>3. CASE mem.rec[y] # "none"
    <3>1. y \in plan'.records /\ mem.op.was[y] = "none"
      BY <1>3, <1>8, <2>3
    <3>2. y \in steps /\ y \in deletes /\ y \in deleted
      BY <1>2, <1>4, <2>3, <3>1 DEF Satisfied
    <3>3. PICK d \in SUBSET deletes :
            y \in d /\ d \subseteq deleted /\ \A z \in d : ~Named(WithDeleted(steps, d), z)
      BY <1>6, <3>2
    <3>4. ASSUME NEW x \in Records, r.rec[x] \in Newer PROVE WithDeleted(steps, d)[x] = mem.rec[x]
      <4>1. x \notin plan'.records
        BY <2>1, <3>4
      <4>2. x \notin d /\ (x \in steps => mem.op.was[x] = "none")
        BY <1>2, <1>7, <3>3, <4>1
      <4> QED
        BY <4>2 DEF WithDeleted
    <3> QED
      BY <2>1, <3>3, <3>4 DEF Named
  <2> QED
    BY <2>2, <2>3
<1>9. Closed(r)
  BY <1>3, <1>8 DEF Closed
<1> QED
  BY <1>1, <1>2, <1>4, <1>5, <1>9 DEF Satisfied, Applicable, r, steps

\* A later import's bytes stay with its record.
LEMMA LaterStep ==
  TypeOK /\ RecordInv /\ [Next]_vars => (LaterIsLater(mem) /\ LaterIsLater(disk))'
<1> SUFFICES ASSUME TypeOK, RecordInv, [Next]_vars
             PROVE  (LaterIsLater(mem) /\ LaterIsLater(disk))'
  OBVIOUS
<1>1. /\ LaterIsLater(mem) /\ LaterIsLater(disk) /\ Gate /\ Importing /\ RollingBack
      /\ \A a \in Assets : inverse[a] # "later"
  BY DEF RecordInv
<1>2. mem.op.was \in [Records -> Versions] /\ \A x \in Records : mem.op.was[x] \notin Newer
  BY DEF RecordInv, Followed, TypeOK, States, Operations
<1>3. ASSUME NEW skip \in BOOLEAN, StartImport(skip)
      PROVE  (LaterIsLater(mem) /\ LaterIsLater(disk))'
  BY <1>3, <1>1 DEF StartImport, stateVars, LaterIsLater, Gate, Importing
<1>4. CASE StartRollback
  BY <1>4, <1>1 DEF StartRollback, stateVars, LaterIsLater, Gate, RollingBack
<1>5. CASE BeginRestore \/ RestoreAborted \/ DeleteInverses
  BY <1>5, <1>1
     DEF BeginRestore, RestoreAborted, DeleteInverses, stateVars, LaterIsLater, Gate,
         Importing
<1>6. CASE Disconnect \/ AuditedRead \/ Timer \/ UNCHANGED vars
  BY <1>6, <1>1
     DEF Disconnect, AuditedRead, Timer, vars, stateVars, requestVars, LaterIsLater,
         Gate
<1>7. ASSUME NEW a \in Assets, KeepPrevious(a)
      PROVE  (LaterIsLater(mem) /\ LaterIsLater(disk))'
  BY <1>7, <1>1 DEF KeepPrevious, stateVars, LaterIsLater, Gate
<1>8. ASSUME NEW a \in Assets, PutFile(a) PROVE (LaterIsLater(mem) /\ LaterIsLater(disk))'
  BY <1>8, <1>1 DEF PutFile, stateVars, LaterIsLater, Gate, Importing
<1>9. ASSUME NEW a \in Assets, PutFileFails(a)
      PROVE  (LaterIsLater(mem) /\ LaterIsLater(disk))'
  BY <1>9, VariableTypes, <1>1 DEF PutFileFails, stateVars, LaterIsLater, Gate, Importing
<1>10. ASSUME NEW a \in Assets, RollBackFile(a)
      PROVE  (LaterIsLater(mem) /\ LaterIsLater(disk))'
  BY <1>10, <1>1 DEF RollBackFile, stateVars, Reload, LaterIsLater, Gate, RollingBack
<1>11. ASSUME NEW a \in Assets, RollBackFileFails(a)
      PROVE  (LaterIsLater(mem) /\ LaterIsLater(disk))'
  BY <1>11, VariableTypes, <1>1
     DEF RollBackFileFails, stateVars, Reload, LaterIsLater, Gate, RollingBack
<1>12. ASSUME NEW a \in Assets, Compensate(a)
       PROVE  (LaterIsLater(mem) /\ LaterIsLater(disk))'
  <2>1. previous[a] # "later"
    BY <1>12, VariableTypes, <1>1 DEF Compensate, Gate, Importing, RollingBack
  <2>2. /\ mem' = mem /\ disk' = disk
        /\ \E b \in Bytes :
             object' = [object EXCEPT ![a] = b] /\ (b = "later" => object[a] = "later")
    BY <1>12, VariableTypes, <2>1 DEF Compensate, stateVars, Bytes
  <2> QED
    BY VariableTypes, <1>1, <2>2 DEF LaterIsLater
<1>13. ASSUME NEW a \in Assets, CompensateFails(a)
       PROVE  (LaterIsLater(mem) /\ LaterIsLater(disk))'
  <2>1. previous[a] # "later"
    BY <1>13, VariableTypes, <1>1 DEF CompensateFails, Gate, Importing, RollingBack
  <2>2. /\ mem' = mem /\ disk' = disk
        /\ \E b \in Bytes :
             object' = [object EXCEPT ![a] = b] /\ (b = "later" => object[a] = "later")
    BY <1>13, VariableTypes, <2>1 DEF CompensateFails, stateVars, Bytes
  <2> QED
    BY VariableTypes, <1>1, <2>2 DEF LaterIsLater
<1>14. CASE MergeArchive
  BY <1>14, <1>1 DEF MergeArchive, Replace, Flush, Reload, LaterIsLater, Gate, Importing
<1>15. CASE ApplyRollback
  BY <1>15, VariableTypes, <1>1, <1>2, RolledBackFields
     DEF ApplyRollback, Replace, Flush, Reload, LaterIsLater, Gate, RollingBack
<1>20. CASE PrepareFails \/ Reply \/ Kill
  BY <1>20, <1>1 DEF PrepareFails, Reply, Kill, Reload, Done, LaterIsLater, Gate
<1>17. CASE ReplyFails \/ ReplyToNobody
  BY <1>17, <1>1
     DEF ReplyFails, ReplyToNobody, TakeBack, Unwritten, Reload, Done, LaterIsLater, Gate
<1>18. CASE Compensated
  BY <1>18, <1>1 DEF Compensated, Reload, Done, stateVars, LaterIsLater, Gate, RollingBack
<1>19. CASE UserStep
  <2>1. disk' = mem'
    BY <1>19
       DEF UserStep, Edit, LaterImport, LaterImportRolledBack, Delete, Name, Unname,
           Change
  <2> QED
    BY <1>19, <2>1, UserGood DEF LaterIsLater
<1> QED
  BY <1>3, <1>4, <1>5, <1>6, <1>7, <1>8, <1>9, <1>10, <1>11, <1>12, <1>13, <1>14, <1>15,
     <1>20, <1>17, <1>18, <1>19
     DEF Next, ImportStep, RollbackStep, EndStep

\* A rollback touches only what is still as the import left it.
LEMMA RollingStep == TypeOK /\ RecordInv /\ [Next]_vars => RollingBack'
<1> SUFFICES ASSUME TypeOK, RecordInv, [Next]_vars PROVE RollingBack'
  OBVIOUS
<1>1. /\ LaterIsLater(mem) /\ LaterIsLater(disk) /\ Gate /\ Importing /\ RollingBack
      /\ \A a \in Assets : inverse[a] # "later"
  BY DEF RecordInv
<1>2. mem.op.was \in [Records -> Versions] /\ \A x \in Records : mem.op.was[x] \notin Newer
  BY DEF RecordInv, Followed, TypeOK, States, Operations
<1>3. mem' = mem /\ plan' = plan /\ Closed(RolledBackState) => (Closed(RolledBackState))'
  BY DEF Closed, RolledBackState
<1>4. ASSUME NEW skip \in BOOLEAN, StartImport(skip) PROVE RollingBack'
  BY <1>4, <1>1 DEF StartImport, stateVars, RollingBack, Gate, Idle
<1>5. CASE StartRollback
  <2>1. /\ mem' = mem /\ disk' = disk /\ plan' = Plan /\ previous' = object /\ object' = object
        /\ todo' = {a \in plan'.files : ~FileSatisfied(a)} /\ written' = written
        /\ request = "none" /\ pc' = "write"
    BY <1>5 DEF StartRollback, stateVars, Idle
  <2>2. Followed(mem) /\ Closed(mem) /\ mem = disk /\ written = {}
    BY <2>1 DEF RecordInv, Gate
  <2>3. /\ plan'.records \subseteq mem.op.records /\ plan'.files \subseteq mem.op.files
        /\ \A a \in mem.op.files : a \in plan'.records <=> a \in plan'.files
        /\ \A x \in plan'.records : mem.rec[x] \in {"imported", mem.op.was[x]}
        /\ \A a \in plan'.files : FileSatisfied(a) \/ object[a] = "imported"
        /\ (Closed(RolledBackState))'
    BY <2>1, <2>2, PlanIsSafe DEF Closed
  <2> QED
    BY <2>1, <2>2, <2>3 DEF RollingBack
<1>6. CASE BeginRestore \/ RestoreAborted \/ DeleteInverses
  BY <1>6, <1>1
     DEF BeginRestore, RestoreAborted, DeleteInverses, stateVars, RollingBack, Gate
<1>7. CASE Disconnect \/ AuditedRead \/ Timer \/ UNCHANGED vars
  BY <1>7, <1>1, <1>3
     DEF Disconnect, AuditedRead, Timer, vars, stateVars, requestVars, RollingBack, Gate
<1>8. ASSUME NEW a \in Assets, KeepPrevious(a) PROVE RollingBack'
  BY <1>8, <1>1 DEF KeepPrevious, stateVars, RollingBack, Gate
<1>9. ASSUME NEW a \in Assets, PutFile(a) PROVE RollingBack'
  BY <1>9, <1>1 DEF PutFile, stateVars, RollingBack, Gate
<1>10. ASSUME NEW a \in Assets, PutFileFails(a) PROVE RollingBack'
  BY <1>10, <1>1 DEF PutFileFails, stateVars, RollingBack, Gate
<1>11. ASSUME NEW a \in Assets, RollBackFile(a) PROVE RollingBack'
  BY <1>11, <1>1, <1>3 DEF RollBackFile, stateVars, RollingBack, Gate
<1>12. ASSUME NEW a \in Assets, RollBackFileFails(a) PROVE RollingBack'
  BY <1>12, VariableTypes, <1>1
     DEF RollBackFileFails, stateVars, Reload, RollingBack, Gate, Idle
<1>13. ASSUME NEW a \in Assets, Compensate(a) PROVE RollingBack'
  BY <1>13, <1>1 DEF Compensate, stateVars, RollingBack, Gate
<1>14. ASSUME NEW a \in Assets, CompensateFails(a) PROVE RollingBack'
  BY <1>14, <1>1 DEF CompensateFails, stateVars, RollingBack, Gate
<1>15. CASE MergeArchive
  BY <1>15, <1>1 DEF MergeArchive, Replace, Flush, Reload, RollingBack, Gate
<1>16. CASE ApplyRollback
  <2>1. CASE mem' = RolledBackState /\ disk' = disk /\ pc' = "clean" /\ todo' = todo
    BY <1>16, <2>1, <1>1, <1>2, RolledBackFields
       DEF ApplyRollback, RollingBack, Gate, Newer
  <2>2. CASE mem' = disk' /\ pc' \in {"clean", "compensate"} /\ todo' \in {todo, written}
    BY <1>16, <2>2, <1>1 DEF ApplyRollback, RollingBack
  <2> QED
    BY <1>16, <2>1, <2>2 DEF ApplyRollback, Replace, Flush, Reload
<1>21. CASE PrepareFails \/ Reply \/ Kill
  BY <1>21, <1>1 DEF PrepareFails, Reply, Kill, Reload, Done, RollingBack, Gate
<1>18. CASE ReplyFails \/ ReplyToNobody
  BY <1>18, <1>1
     DEF ReplyFails, ReplyToNobody, TakeBack, Unwritten, Reload, Done, RollingBack, Gate
<1>19. CASE Compensated
  BY <1>19, <1>1 DEF Compensated, Reload, Done, stateVars, RollingBack, Gate
<1>20. CASE UserStep
  <2>1. PICK x \in Records : \/ Edit(x) \/ LaterImport(x) \/ LaterImportRolledBack(x)
                             \/ Delete(x) \/ Name(x) \/ Unname(x)
    BY <1>20 DEF UserStep
  <2>2. Idle /\ mem' = disk' /\ UNCHANGED requestVars /\ UNCHANGED inverse
    BY <2>1 DEF Edit, LaterImport, LaterImportRolledBack, Delete, Name, Unname, Change
  <2> QED
    BY <2>2 DEF requestVars, Idle, RollingBack
<1> QED
  BY <1>4, <1>5, <1>6, <1>7, <1>8, <1>9, <1>10, <1>11, <1>12, <1>13, <1>14, <1>15, <1>16,
     <1>21, <1>18, <1>19, <1>20
     DEF Next, ImportStep, RollbackStep, EndStep

\* Every step keeps RecordInv.
LEMMA RecordInvStep == TypeOK /\ RecordInv /\ [Next]_vars => RecordInv'
  BY GateStep, GoodStep, LaterStep, ImportingStep, RollingStep, InverseStep DEF RecordInv

\* The initial states have their types, and satisfy RecordInv.
LEMMA TypeInit == Init => TypeOK
<1> SUFFICES ASSUME Init PROVE TypeOK
  OBVIOUS
<1> USE DEF Init
<1>1. /\ NoObjects \in [Assets -> Bytes]
      /\ NoPlan \in [records : SUBSET Records, files : SUBSET Assets]
  BY DEF NoObjects, NoPlan, Bytes
<1>2. mem \in States
  BY <1>1 DEF States, Operations, Versions
<1>3. object \in [Assets -> Bytes]
  BY <1>2, BytesOfType, ImportAssumption DEF States
<1>4. dirty \in BOOLEAN
  BY Zenon
<1>5. attempt \in 0..2 /\ faults \in 0..MaxFaults /\ edits \in 0..MaxEdits
  BY ImportAssumption
<1> QED
  BY <1>1, <1>2, <1>3, <1>4, <1>5 DEF TypeOK

LEMMA RecordInvInit == Init => RecordInv
<1> SUFFICES ASSUME Init PROVE RecordInv
  OBVIOUS
<1> USE DEF Init
<1>1. /\ mem = disk /\ mem.op.status = "none" /\ mem.op.records = {}
      /\ mem.op.files = {} /\ mem.refs = {}
      /\ \A x \in Records : mem.op.was[x] = "none" /\ mem.rec[x] \in {"none", "old", "relabelled"}
  OBVIOUS
<1>2. Gate
  BY DEF Gate
<1>3. Followed(mem) /\ Followed(disk)
  BY <1>1, ImportAssumption DEF Followed, Newer, Settled
<1>4. Closed(mem) /\ Closed(disk)
  BY <1>1 DEF Closed, Newer
<1>5. \A a \in Assets : object[a] # "later" /\ inverse[a] # "later"
  BY <1>1, ImportAssumption DEF NoObjects, BytesOf, Versions
<1> QED
  BY <1>2, <1>3, <1>4, <1>5 DEF RecordInv, LaterIsLater, Importing, RollingBack

\* Every variable always has its type.
THEOREM TypeCorrect == Spec => []TypeOK
  BY TypeInit, TypeStep, PTL DEF Spec

\* RecordInv holds in every reachable state, whatever fails.
THEOREM RecordInvariant == Spec => [](TypeOK /\ RecordInv)
  BY TypeInit, TypeStep, RecordInvInit, RecordInvStep, PTL DEF Spec

\* No record is missing that another one names, in memory or on disk, whatever
\* fails and whenever the process is killed (addReferenceConflicts).
THEOREM NothingNamedGoes == Spec => []NothingNamedIsMissing
<1>1. RecordInv => NothingNamedIsMissing
  BY DEF RecordInv, Closed, NothingNamedIsMissing
<1> QED
  BY <1>1, RecordInvariant, PTL

\* A step of a rollback leaves later work alone.
LEMMA LaterWorkStep ==
  ASSUME TypeOK, RecordInv, [Next]_vars, request = "rollback"
  PROVE  /\ \A x \in Records : mem.rec[x] \in {"edited", "later"} => mem'.rec[x] = mem.rec[x]
         /\ \A a \in Assets : object[a] = "later" => object'[a] = "later"
<1>1. /\ Gate /\ RollingBack /\ \A x \in Records : mem.op.was[x] \notin Newer
      /\ object \in [Assets -> Bytes]
  BY DEF RecordInv, Followed, TypeOK
<1>2. ~MergeArchive /\ ~UserStep
  BY DEF MergeArchive, UserStep, Edit, LaterImport, LaterImportRolledBack, Delete, Name,
     Unname, Change, Idle
<1>3. ASSUME NEW x \in Records, mem.rec[x] \in {"edited", "later"}
      PROVE  mem'.rec[x] = mem.rec[x]
  <2>1. CASE mem' \in {mem, disk}
    BY <1>1, <1>3, <2>1 DEF RollingBack
  <2>2. CASE ApplyRollback /\ mem' = RolledBackState
    <3>1. x \notin plan.records
      BY <1>1, <1>3, <2>2 DEF ApplyRollback, RollingBack, Newer
    <3> QED
      BY <1>3, <2>2, <3>1 DEF RolledBackState, TypeOK, States
  <2> QED
    BY <1>2, <2>1, <2>2, StateMoves
<1>4. \/ object' = object
      \/ \E a \in todo, b \in Bytes : object' = [object EXCEPT ![a] = b]
  <2>1. CASE \E skip \in BOOLEAN : StartImport(skip)
    BY <2>1 DEF StartImport, Idle
  <2>2. CASE ImportStep
    BY <2>2
       DEF ImportStep, BeginRestore, RestoreAborted, MergeArchive, PrepareFails,
           KeepPrevious, PutFile, PutFileFails
  <2>3. CASE RollbackStep
    BY <2>3
       DEF RollbackStep, ApplyRollback, DeleteInverses, RollBackFile, RollBackFileFails,
           TypeOK
  <2>4. CASE EndStep
    BY <2>4
       DEF EndStep, Reply, ReplyToNobody, ReplyFails, Compensated, Compensate,
           CompensateFails, TypeOK
  <2>5. CASE StartRollback \/ Disconnect \/ AuditedRead \/ Timer \/ Kill \/ UNCHANGED vars
    BY <2>5 DEF StartRollback, Disconnect, AuditedRead, Timer, Kill, vars
  <2> QED
    BY <1>2, <2>1, <2>2, <2>3, <2>4, <2>5 DEF Next
<1> QED
  BY <1>1, <1>3, <1>4 DEF RollingBack

\* A rollback leaves alone what users or a later import changed, whatever fails
\* (campaignArchiveImportRollbackPlan).
THEOREM LaterWorkIsKept == Spec => LaterWorkStays
<1>1. TypeOK /\ RecordInv /\ [Next]_vars =>
        [request = "rollback" =>
           /\ \A x \in Records : mem.rec[x] \in {"edited", "later"} => mem'.rec[x] = mem.rec[x]
           /\ \A a \in Assets : object[a] = "later" => object'[a] = "later"]_<<mem, object>>
  BY LaterWorkStep
<1> QED
  BY <1>1, RecordInvariant, PTL DEF Spec, LaterWorkStays

-------------------------------------------------------------------------------
(***************************************************************************)
(* The objects.  ObjectInv strengthens ObjectsMatchRecords: the objects a  *)
(* request found, those it has written and the inverse objects, at each of *)
(* its stages.                                                             *)
(***************************************************************************)

\* Assets that nothing has torn.
Sound == Assets \ torn

\* The assets in S have the bytes that state s describes.
Match(bytes, s, S) == \A a \in S : bytes[a] = BytesOf[s.rec[a]]

\* The bytes an operation leads back to are those of the versions it does.
Told(s) == \A a \in Sound : a \in s.op.records => s.op.bytes[a] = BytesOf[s.op.was[a]]

\* The inverse objects of the files still to be rolled back are there, or gone for
\* an asset in S.
KeptBut(s, S) ==
  \A a \in s.op.files : inverse[a] = s.op.bytes[a] \/ (a \in S /\ inverse[a] = "none")
Kept(s) == KeptBut(s, lost)
KeptOnDisk ==
  IF request = "rollback" /\ pc = "reply" THEN KeptBut(disk, lost \cup plan.files) ELSE Kept(disk)

\* What an import knows of the objects at each stage.
ImportObjects ==
  request = "import" =>
    /\ pc = "prepare" => /\ Match(object, mem, Sound) /\ written = {}
                         /\ \A a \in Assets \cap batch :
                              a \in todo \/ object[a] = "imported" \/ inverse[a] = object[a]
    /\ pc \in {"write", "reply"} =>
         /\ \A a \in Assets \cap batch : previous[a] = "imported" \/ inverse[a] = previous[a]
         /\ written \cup todo = Assets \cap batch
         /\ \A a \in written : object[a] = "imported"
    /\ pc # "prepare" => \A a \in Assets \ written : object[a] = previous[a]
    /\ (pc = "write" \/ (pc = "reply" /\ disk # mem)) =>
         disk.op.status \in Settled /\ Match(previous, disk, Sound)
    /\ pc = "reply" => /\ Match(object, mem, Sound) /\ mem.op.files \subseteq written
                       /\ Match(previous, mem, Sound \ mem.op.files)
    /\ pc = "compensate" => /\ Match(previous, disk, Sound)
                            /\ \A a \in disk.op.files : a \in lost \/ disk.op.bytes[a] = "none"

\* What a rollback knows of them.
RollbackObjects ==
  request = "rollback" =>
    /\ pc \in {"write", "compensate"} => 
         /\ Match(previous, mem, Sound)
         /\ \A a \in Assets \ written : object[a] = previous[a] \/ a \in torn
    /\ pc = "write" => 
         /\ \A a \in plan.files \ todo : object[a] = inverse[a] /\ ~Lost(a)
         /\ \A a \in Assets \ written : object[a] = previous[a]
    /\ pc \in {"clean", "reply"} =>
         /\ Match(object, mem, Assets \ (torn \ Mended))
         /\ disk # mem => /\ Match(object, disk, Sound \ written)
                          /\ disk.op.files \subseteq mem.op.files \cup plan.files
                          /\ mem.op.bytes = disk.op.bytes

\* The invariant of the objects.
ObjectInv ==
  /\ request = "none" => Match(object, mem, Sound)
  /\ Told(mem) /\ Told(disk) /\ Kept(mem) /\ KeptOnDisk
  /\ pc = "compensate" => todo \subseteq written
  /\ ImportObjects /\ RollbackObjects

\* The bytes of single versions.
LEMMA BytesOfValues ==
  /\ BytesOf["none"] = "none" /\ BytesOf["old"] = "old" /\ BytesOf["later"] = "later"
  /\ BytesOf["imported"] = "imported" /\ BytesOf["edited"] = "imported"
  BY DEF BytesOf, Versions

\* The operation tells the truth about the bytes of every sound object.
LEMMA ToldStep ==
  ASSUME TypeOK, RecordInv, ObjectInv, [Next]_vars
  PROVE  (Told(mem) /\ Told(disk))'
<1>1. /\ Gate /\ Importing /\ RollingBack /\ Followed(mem) /\ Followed(disk)
      /\ Told(mem) /\ Told(disk) /\ Kept(mem) /\ KeptOnDisk
      /\ (pc = "compensate" => todo \subseteq written) /\ ImportObjects /\ RollbackObjects
      /\ (request = "none" => Match(object, mem, Sound))
  BY DEF RecordInv, ObjectInv
<1>2. Settled = {"none", "rolled_back"}
  BY DEF Settled
<1>3. ASSUME NEW skip \in BOOLEAN, StartImport(skip) PROVE (Told(mem) /\ Told(disk))'
  BY <1>3, <1>1
     DEF StartImport, stateVars, Told, Sound, Gate, Importing, ImportObjects, Match
<1>4. CASE StartRollback
  BY <1>4, <1>1
     DEF StartRollback, stateVars, Told, Sound, Gate, ImportObjects, RollingBack, Match
<1>5. CASE BeginRestore \/ RestoreAborted \/ DeleteInverses
  BY <1>5, <1>1
     DEF BeginRestore, RestoreAborted, DeleteInverses, stateVars, Told, Sound, Gate,
         Importing, ImportObjects, Match, Mended
<1>6. CASE Disconnect \/ AuditedRead \/ Timer \/ UNCHANGED vars
  BY <1>6, <1>1
     DEF Disconnect, AuditedRead, Timer, vars, stateVars, requestVars, Told, Sound,
         Gate, ImportObjects, Match
<1>7. ASSUME NEW a \in Assets, KeepPrevious(a) PROVE (Told(mem) /\ Told(disk))'
  BY <1>7, <1>1 DEF KeepPrevious, stateVars, Told, Sound, Gate, ImportObjects, Match
<1>8. ASSUME NEW a \in Assets, PutFile(a) PROVE (Told(mem) /\ Told(disk))'
  BY <1>8, <1>1 DEF PutFile, stateVars, Told, Sound, Gate, Importing, ImportObjects, Match
<1>9. ASSUME NEW a \in Assets, PutFileFails(a) PROVE (Told(mem) /\ Told(disk))'
  BY <1>9, <1>1
     DEF PutFileFails, stateVars, Told, Sound, Gate, Importing, ImportObjects, Match
<1>10. ASSUME NEW a \in Assets, RollBackFile(a) PROVE (Told(mem) /\ Told(disk))'
  BY <1>10, <1>1
     DEF RollBackFile, stateVars, Reload, Told, Sound, Gate, ImportObjects, RollingBack,
         Match
<1>11. ASSUME NEW a \in Assets, RollBackFileFails(a) PROVE (Told(mem) /\ Told(disk))'
  BY <1>11, <1>1
     DEF RollBackFileFails, stateVars, Reload, Told, Sound, Gate, ImportObjects,
         RollingBack
<1>12. ASSUME NEW a \in Assets, Compensate(a) PROVE (Told(mem) /\ Told(disk))'
  BY <1>12, <1>1
     DEF Compensate, stateVars, Told, Sound, Gate, Importing, ImportObjects,
         RollingBack, Match
<1>13. ASSUME NEW a \in Assets, CompensateFails(a) PROVE (Told(mem) /\ Told(disk))'
  BY <1>13, <1>1
     DEF CompensateFails, stateVars, Told, Sound, Gate, Importing, ImportObjects,
         RollingBack, Match
<1>14. CASE MergeArchive
  BY <1>14, <1>1, MergedFields, <1>2
     DEF MergeArchive, Replace, Flush, Reload, Told, Sound, Gate, Importing,
         ImportObjects, RollingBack, Match
<1>15. CASE ApplyRollback
  BY <1>15, <1>1, RolledBackFields
     DEF ApplyRollback, Replace, Flush, Reload, Told, Sound, Gate, ImportObjects,
         RollingBack, Mended
<1>22. CASE PrepareFails
  BY <1>22, <1>1
     DEF PrepareFails, Reload, Done, Durable, Told, Sound, Gate, ImportObjects, Match,
         NoPlan
<1>17. CASE Reply
  BY <1>17, <1>1
     DEF Reply, Reload, Done, Durable, Told, Sound, Gate, ImportObjects, Match, Mended,
         NoPlan
<1>18. CASE Kill
  BY <1>18, <1>1
     DEF Kill, Reload, Done, Durable, Told, Sound, Gate, ImportObjects, Match, Mended,
         NoPlan
<1>19. CASE ReplyFails \/ ReplyToNobody
  BY <1>19, <1>1
     DEF ReplyFails, ReplyToNobody, TakeBack, Unwritten, Reload, Done, Told, Sound, Gate,
         ImportObjects, Match, Mended, NoPlan
<1>20. CASE Compensated
  BY <1>20, <1>1
     DEF Compensated, Reload, Done, stateVars, Told, Sound, Gate, ImportObjects,
         RollingBack, Match, NoPlan
<1>21. CASE UserStep
  <2>1. PICK x \in Records : \/ Edit(x) \/ LaterImport(x) \/ LaterImportRolledBack(x)
                             \/ Delete(x) \/ Name(x) \/ Unname(x)
    BY <1>21 DEF UserStep
  <2>2. /\ Idle /\ mem' = disk' /\ mem'.op = mem.op /\ UNCHANGED <<inverse, torn, lost>>
        /\ UNCHANGED requestVars
    BY <2>1
       DEF Edit, LaterImport, LaterImportRolledBack, Delete, Name, Unname, Change,
           TypeOK, States
  <2> QED
    BY <2>2, VariableTypes, <1>1 DEF requestVars, Idle, Told, Sound
<1> QED
  BY <1>3, <1>4, <1>5, <1>6, <1>7, <1>8, <1>9, <1>10, <1>11, <1>12, <1>13, <1>14, <1>15,
     <1>22, <1>17, <1>18, <1>19, <1>20, <1>21
     DEF Next, ImportStep, RollbackStep, EndStep

\* As long as a file is to be rolled back its inverse object is kept, unless its
\* bytes are lost.
LEMMA KeptStep ==
  ASSUME TypeOK, RecordInv, ObjectInv, [Next]_vars
  PROVE  (Kept(mem) /\ KeptOnDisk)'
<1>1. /\ Gate /\ Importing /\ RollingBack /\ Followed(mem) /\ Followed(disk)
      /\ Told(mem) /\ Told(disk) /\ Kept(mem) /\ KeptOnDisk
      /\ (pc = "compensate" => todo \subseteq written) /\ ImportObjects /\ RollbackObjects
      /\ (request = "none" => Match(object, mem, Sound))
  BY DEF RecordInv, ObjectInv
<1>2. Settled = {"none", "rolled_back"}
  BY DEF Settled
<1>3. ASSUME NEW skip \in BOOLEAN, StartImport(skip)
      PROVE  (Kept(mem) /\ KeptOnDisk)'
  BY <1>3, <1>1
     DEF StartImport, stateVars, Kept, KeptBut, KeptOnDisk, Gate, Idle, Importing,
         ImportObjects
<1>4. CASE StartRollback
  BY <1>4, <1>1
     DEF StartRollback, stateVars, Kept, KeptBut, KeptOnDisk, Gate, Idle, ImportObjects,
         RollingBack
<1>5. CASE BeginRestore \/ RestoreAborted \/ DeleteInverses
  <2>1. CASE DeleteInverses
    <3>1. /\ mem' = mem /\ disk' = disk /\ plan' = plan /\ lost' = lost /\ request' = "rollback"
          /\ pc' = "reply" /\ Kept(disk) /\ mem.op.files \subseteq Assets
          /\ \A a \in Assets : inverse'[a] = IF a \in mem.op.files THEN inverse[a] ELSE "none"
      BY <2>1, VariableTypes, <1>1 DEF DeleteInverses, stateVars, KeptOnDisk
    <3>2. disk.op.files \subseteq mem.op.files \cup plan.files /\ disk.op.files \subseteq Assets
      BY <2>1, <1>1 DEF DeleteInverses, RollbackObjects, TypeOK, States, Operations
    <3>3. Kept(mem)'
      BY <3>1, <1>1 DEF Kept, KeptBut
    <3>4. KeptOnDisk'
      BY <3>1, <3>2 DEF Kept, KeptBut, KeptOnDisk
    <3> QED
      BY <3>3, <3>4
  <2>2. CASE BeginRestore \/ RestoreAborted
    BY <2>2, <1>1 DEF BeginRestore, RestoreAborted, stateVars, Kept, KeptBut, KeptOnDisk
  <2> QED
    BY <1>5, <2>1, <2>2
<1>6. CASE Disconnect \/ AuditedRead \/ Timer \/ UNCHANGED vars
  BY <1>6, <1>1
     DEF Disconnect, AuditedRead, Timer, vars, stateVars, requestVars, Kept, KeptBut,
         KeptOnDisk, Gate, ImportObjects
<1>7. ASSUME NEW a \in Assets, KeepPrevious(a)
      PROVE  (Kept(mem) /\ KeptOnDisk)'
  BY <1>7, <1>1
     DEF KeepPrevious, stateVars, Kept, KeptBut, KeptOnDisk, Gate, Importing, ImportObjects,
         RollingBack, Followed
<1>8. ASSUME NEW a \in Assets, PutFile(a)
      PROVE  (Kept(mem) /\ KeptOnDisk)'
  BY <1>8, <1>1
     DEF PutFile, stateVars, Kept, KeptBut, KeptOnDisk, Gate, Importing, ImportObjects
<1>9. ASSUME NEW a \in Assets, PutFileFails(a)
      PROVE  (Kept(mem) /\ KeptOnDisk)'
  BY <1>9, <1>1
     DEF PutFileFails, stateVars, Kept, KeptBut, KeptOnDisk, Gate, Importing, ImportObjects
<1>10. ASSUME NEW a \in Assets, RollBackFile(a)
      PROVE  (Kept(mem) /\ KeptOnDisk)'
  BY <1>10, <1>1
     DEF RollBackFile, stateVars, Reload, Kept, KeptBut, KeptOnDisk, Gate, ImportObjects,
         RollingBack
<1>11. ASSUME NEW a \in Assets, RollBackFileFails(a)
      PROVE  (Kept(mem) /\ KeptOnDisk)'
  BY <1>11, <1>1
     DEF RollBackFileFails, stateVars, Reload, Kept, KeptBut, KeptOnDisk, Gate,
         ImportObjects, RollingBack
<1>12. ASSUME NEW a \in Assets, Compensate(a)
       PROVE  (Kept(mem) /\ KeptOnDisk)'
  BY <1>12, <1>1
     DEF Compensate, stateVars, Kept, KeptBut, KeptOnDisk, Gate, Importing, ImportObjects,
         RollingBack
<1>13. ASSUME NEW a \in Assets, CompensateFails(a)
       PROVE  (Kept(mem) /\ KeptOnDisk)'
  BY <1>13, <1>1
     DEF CompensateFails, stateVars, Kept, KeptBut, KeptOnDisk, Gate, Importing,
         ImportObjects, RollingBack
<1>14. CASE MergeArchive
  BY <1>14, <1>1, MergedFields, <1>2
     DEF MergeArchive, Replace, Flush, Reload, Kept, KeptBut, KeptOnDisk, Gate, Importing,
         ImportObjects, RollingBack, Followed
<1>15. CASE ApplyRollback
  BY <1>15, <1>1, RolledBackFields
     DEF ApplyRollback, Replace, Flush, Reload, Kept, KeptBut, KeptOnDisk, Gate,
         ImportObjects, RollingBack, Followed
<1>22. CASE PrepareFails
  BY <1>22, <1>1
     DEF PrepareFails, Reload, Done, Durable, Kept, KeptBut, KeptOnDisk, Gate, Importing,
         ImportObjects, RollingBack, Followed
<1>17. CASE Reply
  BY <1>17, <1>1
     DEF Reply, Reload, Done, Durable, Kept, KeptBut, KeptOnDisk, Gate, ImportObjects
<1>18. CASE Kill
  BY <1>18, <1>1
     DEF Kill, Found, RollbackObjects, Reload, Done, Durable, Kept, KeptBut, KeptOnDisk,
         Gate, ImportObjects
<1>19. CASE ReplyFails \/ ReplyToNobody
  BY <1>19, <1>1
     DEF ReplyFails, ReplyToNobody, Found, RollbackObjects, TakeBack, Unwritten, Reload,
         Done, Kept, KeptBut, KeptOnDisk, Gate, ImportObjects
<1>20. CASE Compensated
  <2>1. /\ mem = disk /\ mem' = disk /\ disk' = disk /\ lost' = lost /\ Kept(disk)
        /\ pc' # "reply" /\ disk.op.files \subseteq Assets
    BY <1>20, VariableTypes, <1>1 DEF Compensated, Reload, Done, stateVars, Gate, KeptOnDisk
  <2>2. CASE request = "import"
    <3>1. /\ inverse' = NoObjects
          /\ \A a \in disk.op.files : a \in lost \/ disk.op.bytes[a] = "none"
      BY <1>20, <2>2, <1>1 DEF Compensated, ImportObjects
    <3> QED
      BY <2>1, <3>1 DEF Kept, KeptBut, KeptOnDisk, NoObjects
  <2>3. CASE request # "import"
    <3>1. inverse' = inverse
      BY <1>20, <2>3 DEF Compensated
    <3> QED
      BY <2>1, <3>1 DEF Kept, KeptBut, KeptOnDisk
  <2> QED
    BY <2>2, <2>3
<1>21. CASE UserStep
  <2>1. PICK x \in Records : \/ Edit(x) \/ LaterImport(x) \/ LaterImportRolledBack(x)
                             \/ Delete(x) \/ Name(x) \/ Unname(x)
    BY <1>21 DEF UserStep
  <2>2. /\ Idle /\ mem' = disk' /\ mem'.op = mem.op /\ UNCHANGED <<inverse, torn, lost>>
        /\ UNCHANGED requestVars
    BY <2>1
       DEF Edit, LaterImport, LaterImportRolledBack, Delete, Name, Unname, Change,
           TypeOK, States
  <2> QED
    BY <2>2, VariableTypes, <1>1 DEF requestVars, Idle, Kept, KeptBut, KeptOnDisk, Gate
<1> QED
  BY <1>3, <1>4, <1>5, <1>6, <1>7, <1>8, <1>9, <1>10, <1>11, <1>12, <1>13, <1>14, <1>15,
     <1>22, <1>17, <1>18, <1>19, <1>20, <1>21
     DEF Next, ImportStep, RollbackStep, EndStep

\* A compensation visits only what was written.
LEMMA UndoStep ==
  ASSUME TypeOK, RecordInv, ObjectInv, [Next]_vars
  PROVE  (pc = "compensate" => todo \subseteq written)'
<1>1. /\ Gate /\ Importing /\ RollingBack /\ Followed(mem) /\ Followed(disk)
      /\ Told(mem) /\ Told(disk) /\ Kept(mem) /\ KeptOnDisk
      /\ (pc = "compensate" => todo \subseteq written) /\ ImportObjects /\ RollbackObjects
      /\ (request = "none" => Match(object, mem, Sound))
  BY DEF RecordInv, ObjectInv
<1>2. ASSUME NEW skip \in BOOLEAN, StartImport(skip)
      PROVE  (pc = "compensate" => todo \subseteq written)'
  BY <1>2, <1>1 DEF StartImport, stateVars, Gate
<1>3. CASE StartRollback
  BY <1>3, <1>1 DEF StartRollback, stateVars, Gate
<1>4. CASE BeginRestore \/ RestoreAborted \/ DeleteInverses
  BY <1>4, <1>1 DEF BeginRestore, RestoreAborted, DeleteInverses, stateVars, Gate
<1>5. CASE Disconnect \/ AuditedRead \/ Timer \/ UNCHANGED vars
  BY <1>5, <1>1 DEF Disconnect, AuditedRead, Timer, vars, stateVars, requestVars, Gate
<1>6. ASSUME NEW a \in Assets, KeepPrevious(a)
      PROVE  (pc = "compensate" => todo \subseteq written)'
  BY <1>6, <1>1 DEF KeepPrevious, stateVars, Gate
<1>7. ASSUME NEW a \in Assets, PutFile(a)
      PROVE  (pc = "compensate" => todo \subseteq written)'
  BY <1>7, <1>1 DEF PutFile, stateVars, Gate
<1>8. ASSUME NEW a \in Assets, PutFileFails(a)
      PROVE  (pc = "compensate" => todo \subseteq written)'
  BY <1>8, <1>1 DEF PutFileFails, stateVars, Gate
<1>9. ASSUME NEW a \in Assets, RollBackFile(a)
      PROVE  (pc = "compensate" => todo \subseteq written)'
  BY <1>9, <1>1 DEF RollBackFile, stateVars, Reload, Gate
<1>10. ASSUME NEW a \in Assets, RollBackFileFails(a)
      PROVE  (pc = "compensate" => todo \subseteq written)'
  BY <1>10, <1>1 DEF RollBackFileFails, stateVars, Reload, Gate
<1>11. ASSUME NEW a \in Assets, Compensate(a)
       PROVE  (pc = "compensate" => todo \subseteq written)'
  BY <1>11, <1>1 DEF Compensate, stateVars, Gate
<1>12. ASSUME NEW a \in Assets, CompensateFails(a)
       PROVE  (pc = "compensate" => todo \subseteq written)'
  BY <1>12, <1>1 DEF CompensateFails, stateVars, Gate
<1>13. CASE MergeArchive
  BY <1>13, <1>1 DEF MergeArchive, Replace, Flush, Reload, Gate
<1>14. CASE ApplyRollback
  BY <1>14, <1>1, RolledBackFields DEF ApplyRollback, Replace, Flush, Reload, Gate
<1>21. CASE PrepareFails
  BY <1>21, <1>1 DEF PrepareFails, Reload, Done, Durable, Gate
<1>16. CASE Reply
  BY <1>16, <1>1 DEF Reply, Reload, Done, Durable, Gate
<1>17. CASE Kill
  BY <1>17, <1>1 DEF Kill, Reload, Done, Durable, Gate
<1>18. CASE ReplyFails \/ ReplyToNobody
  BY <1>18, <1>1 DEF ReplyFails, ReplyToNobody, TakeBack, Unwritten, Reload, Done, Gate
<1>19. CASE Compensated
  BY <1>19, <1>1 DEF Compensated, Reload, Done, stateVars, Gate
<1>20. CASE UserStep
  <2>1. PICK x \in Records : \/ Edit(x) \/ LaterImport(x) \/ LaterImportRolledBack(x)
                             \/ Delete(x) \/ Name(x) \/ Unname(x)
    BY <1>20 DEF UserStep
  <2>2. /\ Idle /\ mem' = disk' /\ mem'.op = mem.op /\ UNCHANGED <<inverse, torn, lost>>
        /\ UNCHANGED requestVars
    BY <2>1
       DEF Edit, LaterImport, LaterImportRolledBack, Delete, Name, Unname, Change,
           TypeOK, States
  <2> QED
    BY <2>2, VariableTypes, <1>1 DEF requestVars, Idle, Gate
<1> QED
  BY <1>2, <1>3, <1>4, <1>5, <1>6, <1>7, <1>8, <1>9, <1>10, <1>11, <1>12, <1>13, <1>14,
     <1>21, <1>16, <1>17, <1>18, <1>19, <1>20
     DEF Next, ImportStep, RollbackStep, EndStep

\* What an import knows of the objects, at each of its stages, stays true.
LEMMA ImportObjectsStep ==
  ASSUME TypeOK, RecordInv, ObjectInv, [Next]_vars
  PROVE  ImportObjects'
<1>1. /\ Gate /\ Importing /\ RollingBack /\ Followed(mem) /\ Followed(disk)
      /\ Told(mem) /\ Told(disk) /\ Kept(mem) /\ KeptOnDisk
      /\ (pc = "compensate" => todo \subseteq written) /\ ImportObjects /\ RollbackObjects
      /\ (request = "none" => Match(object, mem, Sound))
  BY DEF RecordInv, ObjectInv
<1>2. disk.op.status \in Settled => disk.op.files = {}
  BY <1>1 DEF Followed
<1>3. ASSUME NEW skip \in BOOLEAN, StartImport(skip) PROVE ImportObjects'
  BY <1>3, <1>1
     DEF StartImport, stateVars, ImportObjects, Gate, Idle, Importing, Match, Sound
<1>4. CASE StartRollback
  BY <1>4, <1>1 DEF StartRollback, stateVars, ImportObjects, Gate, Idle, Match
<1>5. CASE BeginRestore \/ RestoreAborted \/ DeleteInverses
  BY <1>5, <1>1, <1>2
     DEF BeginRestore, RestoreAborted, DeleteInverses, stateVars, ImportObjects, Gate,
         Importing, Match, Sound, Mended
<1>6. CASE Disconnect \/ AuditedRead \/ Timer \/ UNCHANGED vars
  BY <1>6, <1>1
     DEF Disconnect, AuditedRead, Timer, vars, stateVars, requestVars, ImportObjects,
         Gate, Match, Sound
<1>7. ASSUME NEW a \in Assets, KeepPrevious(a) PROVE ImportObjects'
  BY <1>7, VariableTypes, <1>1
     DEF KeepPrevious, stateVars, ImportObjects, Gate, Idle, Match, Sound
<1>8. ASSUME NEW a \in Assets, PutFile(a) PROVE ImportObjects'
  BY <1>8, VariableTypes, <1>1
     DEF PutFile, stateVars, ImportObjects, Gate, Idle, Importing, Match, Sound
<1>9. ASSUME NEW a \in Assets, PutFileFails(a) PROVE ImportObjects'
  BY <1>9, VariableTypes, <1>1, <1>2
     DEF PutFileFails, stateVars, ImportObjects, Gate, Idle, Importing, Match, Sound
<1>10. ASSUME NEW a \in Assets, RollBackFile(a) PROVE ImportObjects'
  BY <1>10, <1>1 DEF RollBackFile, stateVars, Reload, ImportObjects, Gate
<1>11. ASSUME NEW a \in Assets, RollBackFileFails(a) PROVE ImportObjects'
  BY <1>11, <1>1 DEF RollBackFileFails, stateVars, Reload, ImportObjects, Gate, Sound
<1>12. ASSUME NEW a \in Assets, Compensate(a) PROVE ImportObjects'
  BY <1>12, VariableTypes, <1>1
     DEF Compensate, stateVars, ImportObjects, Gate, Idle, Importing, Match, Sound
<1>13. ASSUME NEW a \in Assets, CompensateFails(a) PROVE ImportObjects'
  BY <1>13, <1>1
     DEF CompensateFails, stateVars, ImportObjects, Gate, Importing, Match, Sound
<1>14. CASE MergeArchive
  <2>1. /\ request = "import" /\ pc = "write" /\ todo = {} /\ batch' = batch /\ written' = written
        /\ previous' = previous /\ object' = object /\ inverse' = inverse
        /\ torn' = torn /\ mem = disk
        /\ written = Assets \cap batch /\ request' = request
    BY <1>14, VariableTypes, <1>1 DEF MergeArchive, ImportObjects, Gate
  <2>2. Match(object, Merged, Sound)
    BY <2>1, <1>1, MergedFields, VariableTypes, BytesOfValues
       DEF Match, Sound, ImportObjects
  <2>3. CASE mem' = Merged /\ pc' = "reply" /\ todo' = todo /\ disk' \in {disk, mem'}
    <3>1. Merged.op.files \subseteq written /\ Match(previous, Merged, Sound \ Merged.op.files)
      BY <2>1, <2>2, <1>1, MergedFields, VariableTypes, BytesOfValues
         DEF Match, Sound, ImportObjects
    <3> QED
      BY <2>1, <2>2, <2>3, <3>1, <1>1 DEF ImportObjects, Match, Sound
  <2>4. CASE mem' = disk /\ disk' = disk /\ pc' = "compensate" /\ todo' = written
    BY <2>1, <2>4, <1>1, <1>2 DEF ImportObjects, Match, Sound
  <2> QED
    BY <1>14, <2>3, <2>4, VariableTypes DEF MergeArchive, Replace, Flush, Reload, Fails
<1>15. CASE ApplyRollback
  BY <1>15, <1>1, RolledBackFields
     DEF ApplyRollback, Replace, Flush, Reload, ImportObjects, Gate, Sound, Mended
<1>22. CASE PrepareFails
  BY <1>22, <1>1 DEF PrepareFails, Reload, Done, Durable, ImportObjects, Gate, NoPlan
<1>17. CASE Reply
  BY <1>17, <1>1
     DEF Reply, Reload, Done, Durable, ImportObjects, Gate, Match, Sound, NoPlan, Mended
<1>18. CASE Kill
  BY <1>18, <1>1
     DEF Kill, Reload, Done, Durable, ImportObjects, Gate, Match, Sound, NoPlan, Mended
<1>19. CASE ReplyFails \/ ReplyToNobody
  <2>1. CASE request # "import"
    BY <1>19, <2>1 DEF ReplyFails, ReplyToNobody, Done, ImportObjects, TakeBack, TypeOK
  <2>2. CASE request = "import"
    <3>1. /\ pc = "reply" /\ request' = request /\ pc' = "compensate" /\ written' = written
          /\ previous' = previous /\ object' = object
          /\ \A a \in Assets \ written : object[a] = previous[a]
      BY <1>19, <2>2, <1>1 DEF ReplyFails, ReplyToNobody, TakeBack, ImportObjects
    <3>2. CASE ReplyFails /\ disk # mem
      <4>1. disk' = disk /\ torn' = torn /\ disk.op.files = {} /\ Match(previous, disk, Sound)
        BY <3>1, <3>2, <2>2, <1>1, <1>2 DEF ReplyFails, TakeBack, Reload, ImportObjects
      <4> QED
        BY <3>1, <4>1 DEF ImportObjects, Match, Sound
    <3>3. CASE (ReplyFails /\ disk = mem) \/ ReplyToNobody
      <4>1. /\ disk' = mem /\ torn' = torn \cup mem.op.files /\ lost' = lost \cup Found(written)
            /\ mem.op.files \subseteq written /\ Match(previous, mem, Sound \ mem.op.files)
        BY <3>1, <3>3, <2>2, <1>1
           DEF ReplyFails, ReplyToNobody, TakeBack, Reload, ImportObjects
      <4>2. Match(previous, mem, Sound') 
        BY <4>1 DEF Match, Sound
      <4>3. \A a \in mem.op.files : a \in lost' \/ mem.op.bytes[a] = "none"
        BY <4>1 DEF Found
      <4> QED
        BY <3>1, <4>1, <4>2, <4>3 DEF ImportObjects, Match
    <3> QED
      BY <1>19, <3>2, <3>3
  <2> QED
    BY <2>1, <2>2
<1>20. CASE Compensated
  BY <1>20, <1>1
     DEF Compensated, Reload, Done, stateVars, ImportObjects, Gate, Match, Sound, NoPlan
<1>21. CASE UserStep
  <2>1. PICK x \in Records : \/ Edit(x) \/ LaterImport(x) \/ LaterImportRolledBack(x)
                             \/ Delete(x) \/ Name(x) \/ Unname(x)
    BY <1>21 DEF UserStep
  <2>2. /\ Idle /\ mem' = disk' /\ mem'.op = mem.op /\ UNCHANGED <<inverse, torn, lost>>
        /\ UNCHANGED requestVars
    BY <2>1
       DEF Edit, LaterImport, LaterImportRolledBack, Delete, Name, Unname, Change,
           TypeOK, States
  <2> QED
    BY <2>2, VariableTypes, <1>1 DEF requestVars, Idle, ImportObjects
<1> QED
  BY <1>3, <1>4, <1>5, <1>6, <1>7, <1>8, <1>9, <1>10, <1>11, <1>12, <1>13, <1>14, <1>15,
     <1>22, <1>17, <1>18, <1>19, <1>20, <1>21
     DEF Next, ImportStep, RollbackStep, EndStep

\* What a rollback knows of them stays true.
LEMMA RollbackObjectsStep ==
  ASSUME TypeOK, RecordInv, ObjectInv, [Next]_vars
  PROVE  RollbackObjects'
<1>1. /\ Gate /\ Importing /\ RollingBack /\ Followed(mem) /\ Followed(disk)
      /\ Told(mem) /\ Told(disk) /\ Kept(mem) /\ KeptOnDisk
      /\ (pc = "compensate" => todo \subseteq written) /\ ImportObjects /\ RollbackObjects
      /\ (request = "none" => Match(object, mem, Sound))
  BY DEF RecordInv, ObjectInv
<1>2. ASSUME NEW skip \in BOOLEAN, StartImport(skip) PROVE RollbackObjects'
  BY <1>2, <1>1 DEF StartImport, stateVars, RollbackObjects, Gate, Idle, Match
<1>3. CASE StartRollback
  <2>1. /\ request = "none" /\ mem' = mem /\ disk' = disk /\ previous' = object
        /\ object' = object /\ inverse' = inverse /\ torn' = torn /\ written' = {} /\ pc' = "write"
        /\ todo' = {a \in plan'.files : ~FileSatisfied(a)} /\ plan'.files \subseteq Assets
    BY <1>3, <1>1, PlanType DEF StartRollback, stateVars, Idle, Gate
  <2> QED
    BY <2>1, <1>1 DEF RollbackObjects, Match, Sound, FileSatisfied, Lost
<1>4. CASE BeginRestore \/ RestoreAborted \/ DeleteInverses
  BY <1>4, <1>1
     DEF BeginRestore, RestoreAborted, DeleteInverses, stateVars, RollbackObjects, Gate,
         Match, Sound, Mended
<1>5. CASE Disconnect \/ AuditedRead \/ Timer \/ UNCHANGED vars
  BY <1>5, <1>1, RolledBackFields
     DEF Disconnect, AuditedRead, Timer, vars, stateVars, requestVars, RollbackObjects,
         Gate, Match, Sound, Mended, Lost
<1>6. ASSUME NEW a \in Assets, KeepPrevious(a) PROVE RollbackObjects'
  BY <1>6, <1>1 DEF KeepPrevious, stateVars, RollbackObjects, Gate, Followed
<1>7. ASSUME NEW a \in Assets, PutFile(a) PROVE RollbackObjects'
  BY <1>7, <1>1 DEF PutFile, stateVars, RollbackObjects, Gate
<1>8. ASSUME NEW a \in Assets, PutFileFails(a) PROVE RollbackObjects'
  BY <1>8, <1>1 DEF PutFileFails, stateVars, RollbackObjects, Gate
<1>9. ASSUME NEW a \in Assets, RollBackFile(a) PROVE RollbackObjects'
  BY <1>9, VariableTypes, <1>1
     DEF RollBackFile, stateVars, Reload, RollbackObjects, Gate, Idle, RollingBack,
         Match, Sound, Lost
<1>10. ASSUME NEW a \in Assets, RollBackFileFails(a) PROVE RollbackObjects'
  BY <1>10, VariableTypes, <1>1
     DEF RollBackFileFails, stateVars, Reload, RollbackObjects, Gate, Idle, RollingBack,
         Match, Sound
<1>11. ASSUME NEW a \in Assets, Compensate(a) PROVE RollbackObjects'
  BY <1>11, VariableTypes, <1>1
     DEF Compensate, stateVars, RollbackObjects, Gate, Idle, RollingBack, Match, Sound
<1>12. ASSUME NEW a \in Assets, CompensateFails(a) PROVE RollbackObjects'
  BY <1>12, <1>1
     DEF CompensateFails, stateVars, RollbackObjects, Gate, RollingBack, Match, Sound
<1>13. CASE MergeArchive
  BY <1>13, <1>1
     DEF MergeArchive, Replace, Flush, Reload, RollbackObjects, Gate, Sound, Followed
<1>14. CASE ApplyRollback
  <2>1. /\ request = "rollback" /\ pc = "write" /\ todo = {} /\ written' = written
        /\ previous' = previous
        /\ object' = object /\ torn' = torn /\ plan' = plan /\ mem = disk /\ request' = request
        /\ inverse' = inverse
    BY <1>14, <1>1 DEF ApplyRollback, Gate
  <2>2. /\ Match(previous, mem, Sound)
        /\ \A a \in plan.files : object[a] = inverse[a] /\ ~Lost(a)
        /\ \A a \in Assets \ written : object[a] = previous[a]
        /\ written \subseteq plan.files
        /\ plan.records \subseteq mem.op.records /\ plan.files \subseteq mem.op.files
        /\ \A a \in mem.op.files : a \in plan.records <=> a \in plan.files
        /\ \A x \in plan.records : mem.rec[x] \in {"imported", mem.op.was[x]}
    BY <2>1, <1>1 DEF RollbackObjects, RollingBack
  <2>3. Match(object, RolledBackState, Assets \ (torn \ Mended))
    <3> SUFFICES ASSUME NEW a \in Assets, a \in Mended \/ a \notin torn
                 PROVE  object[a] = BytesOf[RolledBackState.rec[a]]
      BY DEF Match
    <3>1. CASE a \in plan.files
      <4>1. object[a] = mem.op.bytes[a] /\ a \in plan.records /\ a \in mem.op.records
        BY <3>1, <2>2, <1>1 DEF Kept, KeptBut, Lost, Followed
      <4>2. mem.op.bytes[a] = BytesOf[mem.op.was[a]]
        BY <3>1, <4>1, <1>1 DEF Mended, Told, Sound
      <4> QED
        BY <4>1, <4>2, RolledBackFields, VariableTypes
    <3>2. CASE a \notin plan.files
      <4>1. a \notin torn /\ object[a] = previous[a] /\ previous[a] = BytesOf[mem.rec[a]]
        BY <3>2, <2>2 DEF Mended, Match, Sound
      <4>2. CASE a \in plan.records
        <5>1. a \notin mem.op.files /\ a \in mem.op.records
          BY <3>2, <4>2, <2>2
        <5>2. mem.op.bytes[a] = "imported" /\ mem.op.bytes[a] = BytesOf[mem.op.was[a]]
          BY <4>1, <5>1, <1>1 DEF Followed, Told, Sound
        <5>3. object[a] = BytesOf[mem.op.was[a]]
          BY <4>1, <4>2, <5>2, <2>2, BytesOfValues
        <5> QED
          BY <4>2, <5>3, RolledBackFields, VariableTypes
      <4>3. CASE a \notin plan.records
        BY <4>1, <4>3, RolledBackFields, VariableTypes
      <4> QED
        BY <4>2, <4>3
    <3> QED
      BY <3>1, <3>2
  <2>4. Match(object, disk, Sound \ written)
    BY <2>1, <2>2 DEF Match, Sound
  <2>5. CASE mem' = RolledBackState /\ disk' \in {disk, mem'} /\ pc' = "clean" /\ todo' = todo
    <3>1. Mended' = Mended
      BY <2>1, <2>5, RolledBackFields DEF Mended
    <3>2. /\ mem.op.files \subseteq RolledBackState.op.files \cup plan.files
          /\ RolledBackState.op.bytes = mem.op.bytes
      BY RolledBackFields
    <3> QED
      BY <2>1, <2>3, <2>4, <2>5, <3>1, <3>2 DEF RollbackObjects, Match, Sound
  <2>6. CASE mem' = disk /\ disk' = disk /\ pc' = "compensate"
    BY <2>1, <2>2, <2>6 DEF RollbackObjects, Match, Sound
  <2> QED
    BY <1>14, <2>5, <2>6, VariableTypes DEF ApplyRollback, Replace, Flush, Reload, Fails
<1>21. CASE PrepareFails
  BY <1>21, <1>1 DEF PrepareFails, Reload, Done, Durable, RollbackObjects, Gate
<1>16. CASE Reply
  BY <1>16, <1>1
     DEF Reply, Reload, Done, Durable, RollbackObjects, Gate, Match, Sound, Mended
<1>17. CASE Kill
  BY <1>17, <1>1
     DEF Kill, Reload, Done, Durable, RollbackObjects, Gate, Match, Sound, Mended
<1>18. CASE ReplyFails \/ ReplyToNobody
  BY <1>18, <1>1 DEF ReplyFails, ReplyToNobody, TakeBack, Done, RollbackObjects, Gate
<1>19. CASE Compensated
  BY <1>19, <1>1
     DEF Compensated, Reload, Done, stateVars, RollbackObjects, Gate, RollingBack,
         Match, Sound, Followed
<1>20. CASE UserStep
  <2>1. PICK x \in Records : \/ Edit(x) \/ LaterImport(x) \/ LaterImportRolledBack(x)
                             \/ Delete(x) \/ Name(x) \/ Unname(x)
    BY <1>20 DEF UserStep
  <2>2. /\ Idle /\ mem' = disk' /\ mem'.op = mem.op /\ UNCHANGED <<inverse, torn, lost>>
        /\ UNCHANGED requestVars
    BY <2>1
       DEF Edit, LaterImport, LaterImportRolledBack, Delete, Name, Unname, Change,
           TypeOK, States
  <2> QED
    BY <2>2, VariableTypes, <1>1 DEF requestVars, Idle, RollbackObjects
<1> QED
  BY <1>2, <1>3, <1>4, <1>5, <1>6, <1>7, <1>8, <1>9, <1>10, <1>11, <1>12, <1>13, <1>14,
     <1>21, <1>16, <1>17, <1>18, <1>19, <1>20
     DEF Next, ImportStep, RollbackStep, EndStep

\* When no request runs, records and objects are in step.
LEMMA IdleStep ==
  ASSUME TypeOK, RecordInv, ObjectInv, [Next]_vars
  PROVE  (request = "none" => Match(object, mem, Sound))'
<1>1. /\ Gate /\ Importing /\ RollingBack /\ Followed(mem) /\ Followed(disk)
      /\ Told(mem) /\ Told(disk) /\ Kept(mem) /\ KeptOnDisk
      /\ (pc = "compensate" => todo \subseteq written) /\ ImportObjects /\ RollbackObjects
      /\ (request = "none" => Match(object, mem, Sound))
  BY DEF RecordInv, ObjectInv
<1>2. ASSUME NEW skip \in BOOLEAN, StartImport(skip)
      PROVE  (request = "none" => Match(object, mem, Sound))'
  BY <1>2, <1>1
     DEF StartImport, stateVars, ImportObjects, RollbackObjects, Gate, Idle, Match
<1>3. CASE StartRollback
  BY <1>3, <1>1
     DEF StartRollback, stateVars, ImportObjects, RollbackObjects, Gate, Idle, Match
<1>4. CASE BeginRestore \/ RestoreAborted \/ DeleteInverses
  BY <1>4, <1>1
     DEF BeginRestore, RestoreAborted, DeleteInverses, stateVars, ImportObjects,
         RollbackObjects, Gate, Match, Mended
<1>5. CASE Disconnect \/ AuditedRead \/ Timer \/ UNCHANGED vars
  BY <1>5, <1>1
     DEF Disconnect, AuditedRead, Timer, vars, stateVars, requestVars, ImportObjects,
         RollbackObjects, Gate, Match, Sound
<1>6. ASSUME NEW a \in Assets, KeepPrevious(a)
      PROVE  (request = "none" => Match(object, mem, Sound))'
  BY <1>6, <1>1 DEF KeepPrevious, stateVars, ImportObjects, RollbackObjects, Gate
<1>7. ASSUME NEW a \in Assets, PutFile(a)
      PROVE  (request = "none" => Match(object, mem, Sound))'
  BY <1>7, <1>1 DEF PutFile, stateVars, ImportObjects, RollbackObjects, Gate
<1>8. ASSUME NEW a \in Assets, PutFileFails(a)
      PROVE  (request = "none" => Match(object, mem, Sound))'
  BY <1>8, <1>1 DEF PutFileFails, stateVars, ImportObjects, RollbackObjects, Gate
<1>9. ASSUME NEW a \in Assets, RollBackFile(a)
      PROVE  (request = "none" => Match(object, mem, Sound))'
  BY <1>9, <1>1 DEF RollBackFile, stateVars, Reload, ImportObjects, RollbackObjects, Gate
<1>10. ASSUME NEW a \in Assets, RollBackFileFails(a)
      PROVE  (request = "none" => Match(object, mem, Sound))'
  BY <1>10, <1>1
     DEF RollBackFileFails, stateVars, Reload, ImportObjects, RollbackObjects, Gate,
         Sound
<1>11. ASSUME NEW a \in Assets, Compensate(a)
       PROVE  (request = "none" => Match(object, mem, Sound))'
  BY <1>11, <1>1 DEF Compensate, stateVars, ImportObjects, RollbackObjects, Gate
<1>12. ASSUME NEW a \in Assets, CompensateFails(a)
       PROVE  (request = "none" => Match(object, mem, Sound))'
  BY <1>12, <1>1 DEF CompensateFails, stateVars, ImportObjects, RollbackObjects, Gate
<1>13. CASE MergeArchive
  BY <1>13, <1>1
     DEF MergeArchive, Replace, Flush, Reload, ImportObjects, RollbackObjects, Gate,
         Sound
<1>14. CASE ApplyRollback
  BY <1>14, <1>1, RolledBackFields
     DEF ApplyRollback, Replace, Flush, Reload, ImportObjects, RollbackObjects, Gate,
         Sound, Mended
<1>21. CASE PrepareFails
  BY <1>21, <1>1
     DEF PrepareFails, Reload, Done, Durable, ImportObjects, RollbackObjects, Gate,
         Match, Sound, NoPlan
<1>16. CASE Reply
  BY <1>16, VariableTypes, <1>1
     DEF Reply, Reload, Done, Durable, ImportObjects, RollbackObjects, Gate, Idle,
         Match, Sound, NoPlan, Mended
<1>17. CASE Kill
  BY <1>17, VariableTypes, <1>1
     DEF Kill, Reload, Done, Durable, ImportObjects, RollbackObjects, Gate, Idle, Match,
         Sound, NoPlan, Mended
<1>18. CASE ReplyFails \/ ReplyToNobody
  BY <1>18, <1>1
     DEF ReplyFails, ReplyToNobody, TakeBack, Unwritten, Reload, Done, ImportObjects,
         RollbackObjects, Gate, Match, Sound, NoPlan, Mended
<1>19. CASE Compensated
  BY <1>19, VariableTypes, <1>1
     DEF Compensated, Reload, Done, stateVars, ImportObjects, RollbackObjects, Gate,
         Idle, Match, Sound, NoPlan
<1>20. CASE UserStep
  <2>1. PICK x \in Records : \/ Edit(x) \/ LaterImport(x) \/ LaterImportRolledBack(x)
                             \/ Delete(x) \/ Name(x) \/ Unname(x)
    BY <1>20 DEF UserStep
  <2>2. Idle /\ torn' = torn /\ Match(object, mem, Sound) /\ mem.rec \in [Records -> Versions]
    BY <2>1, <1>1
       DEF Edit, LaterImport, LaterImportRolledBack, Delete, Name, Unname, Change,
           TypeOK, States, Idle
  <2>3. CASE Edit(x)
    BY <2>2, <2>3, VariableTypes, BytesOfValues
       DEF Edit, Change, TypeOK, States, Match, Sound, With
  <2>4. CASE LaterImport(x)
    BY <2>2, <2>4, VariableTypes, BytesOfValues
       DEF LaterImport, Change, TypeOK, States, Match, Sound, With, WithBytes
  <2>5. CASE LaterImportRolledBack(x)
    BY <2>2, <2>5, VariableTypes, BytesOfValues
       DEF LaterImportRolledBack, Change, TypeOK, States, Match, Sound, With, WithBytes
  <2>6. CASE Delete(x)
    BY <2>2, <2>6, VariableTypes, BytesOfValues
       DEF Delete, Change, TypeOK, States, Match, Sound, With
  <2>7. CASE Name(x) \/ Unname(x)
    BY <2>2, <2>7, VariableTypes DEF Name, Unname, Change, TypeOK, States, Match, Sound
  <2> QED
    BY <2>1, <2>3, <2>4, <2>5, <2>6, <2>7
<1> QED
  BY <1>2, <1>3, <1>4, <1>5, <1>6, <1>7, <1>8, <1>9, <1>10, <1>11, <1>12, <1>13, <1>14,
     <1>21, <1>16, <1>17, <1>18, <1>19, <1>20
     DEF Next, ImportStep, RollbackStep, EndStep

\* Every step keeps ObjectInv.
LEMMA ObjectInvStep ==
  ASSUME TypeOK, RecordInv, ObjectInv, [Next]_vars
  PROVE  ObjectInv'
<1>1. /\ (request = "none" => Match(object, mem, Sound))'
      /\ (pc = "compensate" => todo \subseteq written)'
  BY IdleStep, UndoStep
<1>2. (Told(mem) /\ Told(disk))'
  BY ToldStep
<1>3. (Kept(mem) /\ KeptOnDisk)'
  BY KeptStep
<1>4. ImportObjects' /\ RollbackObjects'
  BY ImportObjectsStep, RollbackObjectsStep
<1> QED
  BY <1>1, <1>2, <1>3, <1>4 DEF ObjectInv

\* The initial states satisfy ObjectInv.
LEMMA ObjectInvInit == Init => ObjectInv
  BY ImportAssumption
     DEF Init, ObjectInv, Match, Sound, Told, Kept, KeptBut, KeptOnDisk, ImportObjects,
         RollbackObjects

\* ObjectInv holds in every reachable state.
THEOREM ObjectInvariant == Spec => []ObjectInv
<1>1. TypeOK /\ RecordInv /\ ObjectInv /\ [Next]_vars => ObjectInv'
  BY ObjectInvStep
<1> QED
  BY <1>1, RecordInvariant, ObjectInvInit, PTL DEF Spec

\* Between requests every sound object is the one its record describes, whatever
\* fails, whoever disconnects and whenever the process is killed: torn names what
\* these leave (CompensatingArchiveAssetRestore, the catch of
\* rollbackCampaignArchiveImportOperation).
THEOREM ObjectsAreInStep == Spec => []ObjectsMatchRecords
<1>1. TypeOK /\ ObjectInv => ObjectsMatchRecords
  BY DEF ObjectInv, Match, Sound, Idle, ObjectsMatchRecords
<1> QED
  BY <1>1, TypeCorrect, ObjectInvariant, PTL

\* As long as a file is to be rolled back the bytes it leads back to exist, but for
\* the lost ones: those of an import whose objects were taken back while its state
\* stayed, and those of a rollback that failed or was killed between the deletion
\* of its inverse objects and the write of its state
\* (deleteCampaignArchiveImportInverseObjects).
BytesAreThere == Idle => \A a \in disk.op.files \ lost : inverse[a] = disk.op.bytes[a]

THEOREM RollbackCanBeRepeated == Spec => []BytesAreThere
<1>1. ObjectInv => BytesAreThere
  BY DEF ObjectInv, KeptOnDisk, Kept, KeptBut, Idle, BytesAreThere
<1> QED
  BY <1>1, ObjectInvariant, PTL

===============================================================================
