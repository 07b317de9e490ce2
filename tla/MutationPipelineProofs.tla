------------------------ MODULE MutationPipelineProofs ------------------------
(***************************************************************************)
(* Proofs about MutationPipeline for any number of requests, keys,         *)
(* restarts and failing writes: its types and acknowledged answers, its    *)
(* retries and published events, and that it implements AtomicMutations.   *)
(***************************************************************************)
EXTENDS MutationPipeline, TLAPS

-------------------------------------------------------------------------------
(***************************************************************************)
(* Type correctness.                                                       *)
(***************************************************************************)

\* The labels that steps assign are labels.
LEMMA Labels ==
  /\ {"new", "gateWait", "lookup", "joined", "handling", "half", "phase1Wait", "between", "phase2Wait",
      "sendWait", "record", "sequence", "finalize", "failed", "errorSend", "errorWait", "done"} \subseteq Control
  /\ {"ok", "refused", "conflict", "replay", "error", "gone", "lost", "none"} \subseteq Statuses
BY DEF Control, Awaiting, Handling, Finalizing, Statuses

\* Rolling a request back reloads the state or does nothing.
LEMMA RollbackEffect ==
  ASSUME TypeOK, NEW r \in Requests, RollbackDurableMutation(r)
  PROVE  /\ StateTypeOK' /\ rolledBack' \in [Requests -> BOOLEAN] /\ UNCHANGED disk
         /\ mem' \in {mem, disk}
         /\ \/ UNCHANGED <<mem, dirty, rolledBack>>
            \/ mem' = disk /\ r \in Gated /\ ~rolledBack[r]
         /\ r \in Gated => rolledBack'[r]
         /\ \A s \in Requests : rolledBack[s] => rolledBack'[s]
<1> USE DEF TypeOK, StateTypeOK, RequestTypeOK, Gated
<1>1. CASE r \in Phased \/ rolledBack[r]
  BY <1>1 DEF RollbackDurableMutation
<1>2. CASE ~(r \in Phased \/ rolledBack[r])
  BY <1>2 DEF RollbackDurableMutation, RestoreDurableState
<1> QED
  BY <1>1, <1>2

\* The state in memory and on disk keeps its type.
LEMMA StateTypeStep == TypeOK /\ [Next]_vars => StateTypeOK'
<1> SUFFICES ASSUME TypeOK, [Next]_vars PROVE StateTypeOK'
  OBVIOUS
<1> USE PipelineAssumption DEF TypeOK, StateTypeOK, EngineState, stateVars
<1>1. ASSUME NEW r \in Requests, Send(r) PROVE StateTypeOK'
  BY <1>1 DEF Send
<1>2. ASSUME NEW r \in Requests, EnterGate(r) PROVE StateTypeOK'
  BY <1>2 DEF EnterGate
<1>3. ASSUME NEW r \in Requests, Lookup(r) PROVE StateTypeOK'
  BY <1>3 DEF Lookup
<1>4. ASSUME NEW r \in Requests, Resume(r) PROVE StateTypeOK'
  BY <1>4 DEF Resume
<1>5. ASSUME NEW r \in Requests, HandlerWrite(r) PROVE StateTypeOK'
  BY <1>5 DEF HandlerWrite
<1>6. ASSUME NEW r \in Requests, HandlerFinish(r) PROVE StateTypeOK'
  <2> DEFINE Done == [mem EXCEPT !.effects = @ \cup Whole(r)]
  <2>1. Done \in EngineState
    BY DEF Whole
  <2>2. Save(r, Done)
    BY <1>6 DEF HandlerFinish
  <2> HIDE DEF Done
  <2> QED
    BY <2>1, <2>2 DEF Save, Persist
<1>7. ASSUME NEW r \in Requests, HandlerCancel(r) PROVE StateTypeOK'
  BY <1>7 DEF HandlerCancel
<1>8. ASSUME NEW r \in Requests, HandlerRefuse(r) PROVE StateTypeOK'
  BY <1>8 DEF HandlerRefuse
<1>9. ASSUME NEW r \in Requests, HandlerThrow(r) PROVE StateTypeOK'
  BY <1>9 DEF HandlerThrow
<1>10. ASSUME NEW r \in Requests, RequestPhase(r) PROVE StateTypeOK'
  BY <1>10 DEF RequestPhase
<1>11. ASSUME NEW r \in Requests, RunPhase(r) PROVE StateTypeOK'
  <2> DEFINE Part == IF pc[r] = "phase1Wait" THEN 1 ELSE 2
  <2>1. [mem EXCEPT !.effects = @ \cup {<<r, Part>>}] \in EngineState
    OBVIOUS
  <2>2. CASE PersistPhase(r, Part)
    BY <2>1, <2>2 DEF PersistPhase, Persist
  <2>3. CASE RestoreDurableState
    BY <2>3 DEF RestoreDurableState
  <2> QED
    BY <1>11, <2>2, <2>3 DEF RunPhase
<1>12. ASSUME NEW r \in Requests, EnterSend(r) PROVE StateTypeOK'
  BY <1>12 DEF EnterSend
<1>13. ASSUME NEW r \in Requests, RecordReply(r) PROVE StateTypeOK'
  <2>1. WithRecord(r) \in EngineState
    BY DEF WithRecord, SameKey
  <2>2. CASE Persist(WithRecord(r))
    BY <2>1, <2>2 DEF Persist
  <2>3. CASE dirty' = TRUE /\ UNCHANGED <<mem, disk>>
    BY <2>3
  <2>4. CASE RollbackDurableMutation(r)
    BY <2>4, RollbackEffect
  <2>5. CASE UNCHANGED stateVars
    BY <2>5
  <2> QED
    BY <1>13, <2>2, <2>3, <2>4, <2>5 DEF RecordReply
<1>14. ASSUME NEW r \in Requests, SequenceEvent(r) PROVE StateTypeOK'
  <2> DEFINE Sequenced == [mem EXCEPT !.eventSequence = mem.eventSequence + 1]
  <2>1. Sequenced \in EngineState
    OBVIOUS
  <2>2. CASE Persist(Sequenced)
    BY <2>1, <2>2 DEF Persist
  <2>3. CASE PersistFails(Sequenced)
    BY <2>1, <2>3 DEF PersistFails
  <2>4. CASE mem' = Sequenced /\ dirty' = TRUE /\ UNCHANGED disk
    BY <2>1, <2>4
  <2>5. CASE UNCHANGED stateVars
    BY <2>5
  <2> QED
    BY <1>14, <2>2, <2>3, <2>4, <2>5 DEF SequenceEvent
<1>15. ASSUME NEW r \in Requests, Finalize(r) PROVE StateTypeOK'
  BY <1>15
     DEF Finalize, Persist, FlushBeforeReply, RollbackDurableMutation, RestoreDurableState
<1>16. ASSUME NEW r \in Requests, OnError(r) PROVE StateTypeOK'
  BY <1>16 DEF OnError, RollbackDurableMutation, RestoreDurableState
<1>17. ASSUME NEW r \in Requests, ErrorSend(r) PROVE StateTypeOK'
  BY <1>17 DEF ErrorSend, Persist, PersistFails
<1>18. ASSUME NEW r \in Requests, OnResponse(r) PROVE StateTypeOK'
  BY <1>18 DEF OnResponse
<1>19. ASSUME NEW r \in Requests, Abort(r) PROVE StateTypeOK'
  BY <1>19 DEF Abort
<1>20. CASE DeferredFlush
  BY <1>20 DEF DeferredFlush, Persist, PersistFails
<1>21. CASE ReadResponse
  BY <1>21 DEF ReadResponse, Persist, PersistFails
<1>22. CASE Crash
  BY <1>22 DEF Crash
<1>23. CASE UNCHANGED vars
  BY <1>23 DEF vars
<1> QED
  BY <1>1, <1>2, <1>3, <1>4, <1>5, <1>6, <1>7, <1>8, <1>9, <1>10, <1>11, <1>12, <1>13, <1>14, <1>15, <1>16, <1>17, <1>18, <1>19, <1>20, <1>21, <1>22, <1>23
     DEF Next, Step

\* Responding leaves a queue of requests.
LEMMA RespondGate ==
  ASSUME TypeOK, NEW r \in Requests, Respond(r)
  PROVE  queue' \in Seq(Requests)
BY DEF TypeOK, GateTypeOK, Respond, Enqueue, Goto

\* The gate, its queue and the flights keep their types.
LEMMA GateTypeStep == TypeOK /\ [Next]_vars => GateTypeOK'
<1> SUFFICES ASSUME TypeOK, [Next]_vars PROVE GateTypeOK'
  OBVIOUS
<1> USE PipelineAssumption DEF TypeOK, GateTypeOK, Keys, Keyed, gateVars, Goto, Answer
<1>1. ASSUME NEW r \in Requests, Send(r) PROVE GateTypeOK'
  BY <1>1 DEF Send, Enqueue
<1>2. ASSUME NEW r \in Requests, EnterGate(r) PROVE GateTypeOK'
  BY <1>2 DEF EnterGate, Acquire
<1>3. ASSUME NEW r \in Requests, Lookup(r) PROVE GateTypeOK'
  BY <1>3 DEF Lookup, Respond, Enqueue
<1>4. ASSUME NEW r \in Requests, Resume(r) PROVE GateTypeOK'
  BY <1>4 DEF Resume
<1>5. ASSUME NEW r \in Requests, HandlerWrite(r) PROVE GateTypeOK'
  BY <1>5 DEF HandlerWrite
<1>6. ASSUME NEW r \in Requests, HandlerFinish(r) PROVE GateTypeOK'
  BY <1>6 DEF HandlerFinish, Respond, Enqueue
<1>7. ASSUME NEW r \in Requests, HandlerCancel(r) PROVE GateTypeOK'
  BY <1>7 DEF HandlerCancel, Respond, Enqueue
<1>8. ASSUME NEW r \in Requests, HandlerRefuse(r) PROVE GateTypeOK'
  BY <1>8, RespondGate DEF HandlerRefuse
<1>9. ASSUME NEW r \in Requests, HandlerThrow(r) PROVE GateTypeOK'
  BY <1>9 DEF HandlerThrow
<1>10. ASSUME NEW r \in Requests, RequestPhase(r) PROVE GateTypeOK'
  BY <1>10 DEF RequestPhase, Enqueue
<1>11. ASSUME NEW r \in Requests, RunPhase(r) PROVE GateTypeOK'
  <2>1. Tail(queue) \in Seq(Requests) /\ Append(Tail(queue), r) \in Seq(Requests)
    BY <1>11 DEF RunPhase
  <2>2. queue' = Tail(queue) \/ queue' = Append(Tail(queue), r)
    BY <1>11 DEF RunPhase
  <2> QED
    BY <1>11, <2>1, <2>2 DEF RunPhase
<1>12. ASSUME NEW r \in Requests, EnterSend(r) PROVE GateTypeOK'
  BY <1>12 DEF EnterSend, Acquire
<1>13. ASSUME NEW r \in Requests, RecordReply(r) PROVE GateTypeOK'
  BY <1>13 DEF RecordReply, ReleaseFlight
<1>14. ASSUME NEW r \in Requests, SequenceEvent(r) PROVE GateTypeOK'
  BY <1>14 DEF SequenceEvent
<1>15. ASSUME NEW r \in Requests, Finalize(r) PROVE GateTypeOK'
  BY <1>15 DEF Finalize, Release
<1>16. ASSUME NEW r \in Requests, OnError(r) PROVE GateTypeOK'
  BY <1>16 DEF OnError, Release, ReleaseFlight, Enqueue
<1>17. ASSUME NEW r \in Requests, ErrorSend(r) PROVE GateTypeOK'
  <2>1. CASE UNCHANGED gateVars
    BY <1>17, <2>1 DEF ErrorSend
  <2>2. CASE Acquire(r) /\ owner' = r
    <3>1. queue' \in Seq(Requests)
      BY <2>2 DEF Acquire
    <3> QED
      BY <1>17, <2>2, <3>1 DEF ErrorSend
  <2> QED
    BY <1>17, <2>1, <2>2 DEF ErrorSend
<1>18. ASSUME NEW r \in Requests, OnResponse(r) PROVE GateTypeOK'
  BY <1>18 DEF OnResponse
<1>19. ASSUME NEW r \in Requests, Abort(r) PROVE GateTypeOK'
  BY <1>19 DEF Abort
<1>20. CASE DeferredFlush
  BY <1>20 DEF DeferredFlush
<1>21. CASE ReadResponse
  BY <1>21 DEF ReadResponse
<1>22. CASE Crash
  BY <1>22 DEF Crash
<1>23. CASE UNCHANGED vars
  BY <1>23 DEF vars
<1> QED
  BY <1>1, <1>2, <1>3, <1>4, <1>5, <1>6, <1>7, <1>8, <1>9, <1>10, <1>11, <1>12, <1>13, <1>14, <1>15, <1>16, <1>17, <1>18, <1>19, <1>20, <1>21, <1>22, <1>23
     DEF Next, Step

\* The control state of the requests keeps its type.
LEMMA RequestTypeStep == TypeOK /\ [Next]_vars => RequestTypeOK'
<1> SUFFICES ASSUME TypeOK, [Next]_vars PROVE RequestTypeOK'
  OBVIOUS
<1> USE PipelineAssumption, Labels DEF TypeOK, RequestTypeOK, Goto, Answer, requestVars
<1>1. ASSUME NEW r \in Requests, Send(r) PROVE RequestTypeOK'
  BY <1>1 DEF Send, Enqueue
<1>2. ASSUME NEW r \in Requests, EnterGate(r) PROVE RequestTypeOK'
  BY <1>2 DEF EnterGate
<1>3. ASSUME NEW r \in Requests, Lookup(r) PROVE RequestTypeOK'
  BY <1>3 DEF Lookup, Respond, Enqueue
<1>4. ASSUME NEW r \in Requests, Resume(r) PROVE RequestTypeOK'
  BY <1>4 DEF Resume
<1>5. ASSUME NEW r \in Requests, HandlerWrite(r) PROVE RequestTypeOK'
  BY <1>5 DEF HandlerWrite
<1>6. ASSUME NEW r \in Requests, HandlerFinish(r) PROVE RequestTypeOK'
  BY <1>6 DEF HandlerFinish, Respond, Enqueue
<1>7. ASSUME NEW r \in Requests, HandlerCancel(r) PROVE RequestTypeOK'
  BY <1>7 DEF HandlerCancel, Respond, Enqueue
<1>8. ASSUME NEW r \in Requests, HandlerRefuse(r) PROVE RequestTypeOK'
  BY <1>8 DEF HandlerRefuse, Respond, Enqueue
<1>9. ASSUME NEW r \in Requests, HandlerThrow(r) PROVE RequestTypeOK'
  BY <1>9 DEF HandlerThrow
<1>10. ASSUME NEW r \in Requests, RequestPhase(r) PROVE RequestTypeOK'
  BY <1>10 DEF RequestPhase, Enqueue
<1>11. ASSUME NEW r \in Requests, RunPhase(r) PROVE RequestTypeOK'
  BY <1>11 DEF RunPhase
<1>12. ASSUME NEW r \in Requests, EnterSend(r) PROVE RequestTypeOK'
  BY <1>12 DEF EnterSend
<1>13. ASSUME NEW r \in Requests, RecordReply(r) PROVE RequestTypeOK'
  <2>1. rolledBack' \in [Requests -> BOOLEAN]
    BY <1>13, RollbackEffect DEF RecordReply
  <2>2. pc' \in [Requests -> Control] /\ status' \in [Requests -> Statuses]
    BY <1>13 DEF RecordReply
  <2> QED
    BY <1>13, <2>1, <2>2 DEF RecordReply
<1>14. ASSUME NEW r \in Requests, SequenceEvent(r) PROVE RequestTypeOK'
  BY <1>14 DEF SequenceEvent
<1>15. ASSUME NEW r \in Requests, Finalize(r) PROVE RequestTypeOK'
  <2>1. rolledBack' \in [Requests -> BOOLEAN]
    BY <1>15, RollbackEffect DEF Finalize
  <2>2. pc' \in [Requests -> Control] /\ status' \in [Requests -> Statuses]
    BY <1>15 DEF Finalize
  <2> QED
    BY <1>15, <2>1, <2>2 DEF Finalize
<1>16. ASSUME NEW r \in Requests, OnError(r) PROVE RequestTypeOK'
  <2>1. rolledBack' \in [Requests -> BOOLEAN]
    BY <1>16, RollbackEffect DEF OnError
  <2>2. pc' \in [Requests -> Control] /\ status' \in [Requests -> Statuses]
    BY <1>16 DEF OnError, Enqueue
  <2> QED
    BY <1>16, <2>1, <2>2 DEF OnError
<1>17. ASSUME NEW r \in Requests, ErrorSend(r) PROVE RequestTypeOK'
  BY <1>17 DEF ErrorSend
<1>18. ASSUME NEW r \in Requests, OnResponse(r) PROVE RequestTypeOK'
  BY <1>18 DEF OnResponse
<1>19. ASSUME NEW r \in Requests, Abort(r) PROVE RequestTypeOK'
  BY <1>19 DEF Abort
<1>20. CASE DeferredFlush
  BY <1>20 DEF DeferredFlush
<1>21. CASE ReadResponse
  BY <1>21 DEF ReadResponse
<1>22. CASE Crash
  BY <1>22 DEF Crash
<1>23. CASE UNCHANGED vars
  BY <1>23 DEF vars
<1> QED
  BY <1>1, <1>2, <1>3, <1>4, <1>5, <1>6, <1>7, <1>8, <1>9, <1>10, <1>11, <1>12, <1>13, <1>14, <1>15, <1>16, <1>17, <1>18, <1>19, <1>20, <1>21, <1>22, <1>23
     DEF Next, Step

\* Objects, published events and the bounded counters keep their types.
LEMMA WorldTypeStep == TypeOK /\ [Next]_vars => WorldTypeOK'
<1> SUFFICES ASSUME TypeOK, [Next]_vars PROVE WorldTypeOK'
  OBVIOUS
<1> USE PipelineAssumption DEF TypeOK, WorldTypeOK, faultVars
<1>1. ASSUME NEW r \in Requests, Send(r) PROVE WorldTypeOK'
  BY <1>1 DEF Send
<1>2. ASSUME NEW r \in Requests, EnterGate(r) PROVE WorldTypeOK'
  BY <1>2 DEF EnterGate
<1>3. ASSUME NEW r \in Requests, Lookup(r) PROVE WorldTypeOK'
  BY <1>3 DEF Lookup
<1>4. ASSUME NEW r \in Requests, Resume(r) PROVE WorldTypeOK'
  BY <1>4 DEF Resume
<1>5. ASSUME NEW r \in Requests, HandlerWrite(r) PROVE WorldTypeOK'
  BY <1>5 DEF HandlerWrite
<1>6. ASSUME NEW r \in Requests, HandlerFinish(r) PROVE WorldTypeOK'
  BY <1>6 DEF HandlerFinish, Save, Persist
<1>7. ASSUME NEW r \in Requests, HandlerCancel(r) PROVE WorldTypeOK'
  BY <1>7 DEF HandlerCancel
<1>8. ASSUME NEW r \in Requests, HandlerRefuse(r) PROVE WorldTypeOK'
  BY <1>8 DEF HandlerRefuse
<1>9. ASSUME NEW r \in Requests, HandlerThrow(r) PROVE WorldTypeOK'
  BY <1>9 DEF HandlerThrow
<1>10. ASSUME NEW r \in Requests, RequestPhase(r) PROVE WorldTypeOK'
  BY <1>10 DEF RequestPhase
<1>11. ASSUME NEW r \in Requests, RunPhase(r) PROVE WorldTypeOK'
  BY <1>11 DEF RunPhase, PersistPhase, Persist
<1>12. ASSUME NEW r \in Requests, EnterSend(r) PROVE WorldTypeOK'
  BY <1>12 DEF EnterSend
<1>13. ASSUME NEW r \in Requests, RecordReply(r) PROVE WorldTypeOK'
  BY <1>13 DEF RecordReply, Persist
<1>14. ASSUME NEW r \in Requests, SequenceEvent(r) PROVE WorldTypeOK'
  <2> DEFINE Next1 == mem.eventSequence + 1
  <2>1. <<Next1, r>> \in Nat \X Requests
    BY DEF StateTypeOK, EngineState
  <2>2. published' \in Seq(Nat \X Requests)
    <3>1. published' = published \/ published' = Append(published, <<Next1, r>>)
      BY <1>14 DEF SequenceEvent
    <3> HIDE DEF Next1
    <3> QED
      BY <2>1, <3>1
  <2> QED
    BY <1>14, <2>2 DEF SequenceEvent, Persist, PersistFails
<1>15. ASSUME NEW r \in Requests, Finalize(r) PROVE WorldTypeOK'
  BY <1>15 DEF Finalize, Persist, FlushBeforeReply
<1>16. ASSUME NEW r \in Requests, OnError(r) PROVE WorldTypeOK'
  BY <1>16 DEF OnError
<1>17. ASSUME NEW r \in Requests, ErrorSend(r) PROVE WorldTypeOK'
  BY <1>17 DEF ErrorSend, Persist, PersistFails
<1>18. ASSUME NEW r \in Requests, OnResponse(r) PROVE WorldTypeOK'
  BY <1>18 DEF OnResponse
<1>19. ASSUME NEW r \in Requests, Abort(r) PROVE WorldTypeOK'
  BY <1>19 DEF Abort
<1>20. CASE DeferredFlush
  BY <1>20 DEF DeferredFlush, Persist, PersistFails
<1>21. CASE ReadResponse
  BY <1>21 DEF ReadResponse, Persist, PersistFails
<1>22. CASE Crash
  BY <1>22 DEF Crash
<1>23. CASE UNCHANGED vars
  BY <1>23 DEF vars
<1> QED
  BY <1>1, <1>2, <1>3, <1>4, <1>5, <1>6, <1>7, <1>8, <1>9, <1>10, <1>11, <1>12, <1>13, <1>14, <1>15, <1>16, <1>17, <1>18, <1>19, <1>20, <1>21, <1>22, <1>23
     DEF Next, Step

\* Every step keeps the variables in their types.
LEMMA TypeStep == TypeOK /\ [Next]_vars => TypeOK'
BY StateTypeStep, GateTypeStep, RequestTypeStep, WorldTypeStep DEF TypeOK

\* The initial values have their types.
LEMMA TypeInit == Init => TypeOK
<1> SUFFICES ASSUME Init PROVE TypeOK
  OBVIOUS
<1> USE PipelineAssumption DEF Init
<1>1. StateTypeOK
  BY DEF StateTypeOK, EngineState
<1>2. GateTypeOK
  BY DEF GateTypeOK
<1>3. RequestTypeOK
  BY Labels DEF RequestTypeOK
<1>4. WorldTypeOK
  BY DEF WorldTypeOK
<1> QED
  BY <1>1, <1>2, <1>3, <1>4 DEF TypeOK

\* TypeOK holds in every reachable state.
THEOREM TypeCorrect == Spec => []TypeOK
  BY TypeInit, TypeStep, PTL DEF Spec
-------------------------------------------------------------------------------
(***************************************************************************)
(* The inductive invariant behind AcknowledgedIsDurable: what is known of  *)
(* a request at every point of the pipeline.                               *)
(***************************************************************************)

\* What is on disk is in memory: memory is only ever ahead.
MemoryAhead == disk.effects \subseteq mem.effects

\* Only gated requests stop halfway in a handler, only phased ones between
\* phases and before their response gate.
Placed(r) ==
  /\ pc[r] = "half" => r \in Gated
  /\ pc[r] \in {"phase1Wait", "between", "phase2Wait", "sendWait", "errorWait"} => r \in Phased

\* GateHeld, and a gated follower holds the gate as well.
HoldsGate(r) ==
  pc[r] \in Finalizing \/ (r \in Gated /\ pc[r] \in Handling \cup {"joined"}) => owner = r

\* A failed gated request still has the gate, or has rolled back already.
FailedHolds(r) == r \in Gated /\ pc[r] = "failed" => owner = r \/ rolledBack[r]

\* A gated request with a key leads its flight until its reply is recorded.
LeadsFlight(r) ==
  /\ r \in Gated /\ Keyed(r)
  /\ pc[r] \in {"handling", "half"} \/ (pc[r] = "record" /\ status[r] = "ok")
  => Leads(r)

\* A phase that is over is on disk.
PhasesDurable(r) ==
  r \in Phased =>
    /\ pc[r] \in {"between", "phase2Wait"} => <<r, 1>> \in disk.effects
    /\ pc[r] \in {"sendWait", "record"} /\ status[r] = "ok" => Whole(r) \subseteq disk.effects

\* A successful request on its way out has its mutation in memory, and it is on
\* disk or will be flushed; only a keyed leader still has it saved by its record.
Pending(r) == Whole(r) \subseteq mem.effects /\ (dirty \/ Whole(r) \subseteq disk.effects)
ReplyPending(r) ==
  status[r] = "ok" =>
    /\ pc[r] = "record" => Whole(r) \subseteq mem.effects
    /\ pc[r] = "record" /\ ~Keyed(r) => Pending(r)
    /\ pc[r] \in {"sequence", "finalize"} => Pending(r)

Durable(r) == pc[r] = "done" /\ status[r] = "ok" => Whole(r) \subseteq disk.effects

RequestInv(r) ==
  /\ Placed(r) /\ HoldsGate(r) /\ FailedHolds(r) /\ LeadsFlight(r)
  /\ PhasesDurable(r) /\ ReplyPending(r) /\ Durable(r)

DurableInv == TypeOK /\ MemoryAhead /\ \A r \in Requests : RequestInv(r)

\* A step moves the state forward, or reloads it from disk.
Grows ==
  /\ mem.effects \subseteq mem'.effects
  /\ disk' = mem' \/ (disk' = disk /\ (dirty => dirty'))
Reloads == mem' = disk /\ disk' = disk

\* A step of one request.
Moves(r) == Send(r) \/ Step(r) \/ Abort(r)

\* Rolling back is either nothing or a reload, and only the holder of the gate
\* reloads, or a phase that runs while nobody holds it.
LEMMA StateMoves ==
  ASSUME DurableInv, NEW r \in Requests, Moves(r)
  PROVE  Grows \/ (Reloads /\ owner \in {None, r})
<1> USE DEF DurableInv, TypeOK, StateTypeOK, EngineState, Grows, stateVars
<1>1. ASSUME RollbackDurableMutation(r), pc[r] \in Finalizing \cup {"failed"}
      PROVE  Grows \/ (Reloads /\ owner \in {None, r})
  BY <1>1, RollbackEffect
     DEF RequestInv, HoldsGate, FailedHolds, Reloads, RollbackDurableMutation,
         RestoreDurableState, Gated
<1>2. CASE Send(r)
  BY <1>2 DEF Send
<1>3. CASE EnterGate(r)
  BY <1>3 DEF EnterGate
<1>4. CASE Lookup(r)
  BY <1>4 DEF Lookup
<1>5. CASE Resume(r)
  BY <1>5 DEF Resume
<1>6. CASE HandlerWrite(r)
  BY <1>6 DEF HandlerWrite
<1>7. CASE HandlerFinish(r)
  BY <1>7 DEF HandlerFinish, Save, Persist, Whole
<1>8. CASE HandlerCancel(r)
  BY <1>8 DEF HandlerCancel
<1>9. CASE HandlerRefuse(r)
  BY <1>9 DEF HandlerRefuse
<1>10. CASE HandlerThrow(r)
  BY <1>10 DEF HandlerThrow
<1>11. CASE RequestPhase(r)
  BY <1>11 DEF RequestPhase
<1>12. CASE RunPhase(r)
  BY <1>12 DEF RunPhase, PersistPhase, Persist, RestoreDurableState, Reloads
<1>13. CASE EnterSend(r)
  BY <1>13 DEF EnterSend
<1>14. CASE RecordReply(r)
  BY <1>1, <1>14 DEF RecordReply, Persist, WithRecord, Finalizing
<1>15. CASE SequenceEvent(r)
  BY <1>15 DEF SequenceEvent, Persist, PersistFails
<1>16. CASE Finalize(r)
  BY <1>1, <1>16 DEF Finalize, Persist, FlushBeforeReply, Finalizing
<1>17. CASE OnError(r)
  BY <1>1, <1>17 DEF OnError
<1>18. CASE ErrorSend(r)
  BY <1>18 DEF ErrorSend, Persist, PersistFails
<1>19. CASE OnResponse(r)
  BY <1>19 DEF OnResponse
<1>20. CASE Abort(r)
  BY <1>20 DEF Abort
<1> QED
  BY <1>2, <1>3, <1>4, <1>5, <1>6, <1>7, <1>8, <1>9, <1>10, <1>11, <1>12, <1>13, <1>14, <1>15, <1>16, <1>17, <1>18, <1>19, <1>20
     DEF Moves, Step

\* A step of one request leaves the others where they are.
LEMMA OthersStay ==
  ASSUME TypeOK, NEW r \in Requests, Moves(r), NEW s \in Requests, s # r
  PROVE  pc'[s] = pc[s] /\ status'[s] = status[s]
<1> USE DEF TypeOK, RequestTypeOK, Goto, Answer, requestVars
<1>1. CASE Send(r)
  BY <1>1 DEF Send, Enqueue
<1>2. CASE EnterGate(r)
  BY <1>2 DEF EnterGate
<1>3. CASE Lookup(r)
  BY <1>3 DEF Lookup, Respond, Enqueue
<1>4. CASE Resume(r)
  BY <1>4 DEF Resume
<1>5. CASE HandlerWrite(r)
  BY <1>5 DEF HandlerWrite
<1>6. CASE HandlerFinish(r)
  BY <1>6 DEF HandlerFinish, Respond, Enqueue
<1>7. CASE HandlerCancel(r)
  BY <1>7 DEF HandlerCancel, Respond, Enqueue
<1>8. CASE HandlerRefuse(r)
  BY <1>8 DEF HandlerRefuse, Respond, Enqueue
<1>9. CASE HandlerThrow(r)
  BY <1>9 DEF HandlerThrow
<1>10. CASE RequestPhase(r)
  BY <1>10 DEF RequestPhase, Enqueue
<1>11. CASE RunPhase(r)
  BY <1>11 DEF RunPhase
<1>12. CASE EnterSend(r)
  BY <1>12 DEF EnterSend
<1>13. CASE RecordReply(r)
  BY <1>13 DEF RecordReply
<1>14. CASE SequenceEvent(r)
  BY <1>14 DEF SequenceEvent
<1>15. CASE Finalize(r)
  BY <1>15 DEF Finalize
<1>16. CASE OnError(r)
  BY <1>16 DEF OnError, Enqueue
<1>17. CASE ErrorSend(r)
  BY <1>17 DEF ErrorSend
<1>18. CASE OnResponse(r)
  BY <1>18 DEF OnResponse
<1>19. CASE Abort(r)
  BY <1>19 DEF Abort
<1> QED
  BY <1>1, <1>2, <1>3, <1>4, <1>5, <1>6, <1>7, <1>8, <1>9, <1>10, <1>11, <1>12, <1>13, <1>14, <1>15, <1>16, <1>17, <1>18, <1>19
     DEF Moves, Step

\* It takes neither their gate nor their flight, and undoes no rollback.
LEMMA OthersKeep ==
  ASSUME TypeOK, NEW r \in Requests, Moves(r), NEW s \in Requests, s # r
  PROVE  /\ owner = s => owner' = s
         /\ rolledBack[s] => rolledBack'[s]
         /\ Leads(s) => Leads(s)'
<1> USE PipelineAssumption DEF TypeOK, RequestTypeOK, GateTypeOK, gateVars, requestVars, Leads, Keys, Keyed
<1>1. CASE Send(r)
  BY <1>1 DEF Send
<1>2. CASE EnterGate(r)
  BY <1>2 DEF EnterGate, Acquire
<1>3. CASE Lookup(r)
  BY <1>3 DEF Lookup
<1>4. CASE Resume(r)
  BY <1>4 DEF Resume
<1>5. CASE HandlerWrite(r)
  BY <1>5 DEF HandlerWrite
<1>6. CASE HandlerFinish(r)
  BY <1>6 DEF HandlerFinish
<1>7. CASE HandlerCancel(r)
  BY <1>7 DEF HandlerCancel
<1>8. CASE HandlerRefuse(r)
  BY <1>8 DEF HandlerRefuse
<1>9. CASE HandlerThrow(r)
  BY <1>9 DEF HandlerThrow
<1>10. CASE RequestPhase(r)
  BY <1>10 DEF RequestPhase
<1>11. CASE RunPhase(r)
  BY <1>11 DEF RunPhase
<1>12. CASE EnterSend(r)
  BY <1>12 DEF EnterSend, Acquire
<1>13. CASE RecordReply(r)
  BY <1>13 DEF RecordReply, ReleaseFlight, RollbackDurableMutation
<1>14. CASE SequenceEvent(r)
  BY <1>14 DEF SequenceEvent
<1>15. CASE Finalize(r)
  BY <1>15 DEF Finalize, Release, RollbackDurableMutation
<1>16. CASE OnError(r)
  BY <1>16 DEF OnError, Release, ReleaseFlight, RollbackDurableMutation
<1>17. CASE ErrorSend(r)
  BY <1>17 DEF ErrorSend, Acquire
<1>18. CASE OnResponse(r)
  BY <1>18 DEF OnResponse
<1>19. CASE Abort(r)
  BY <1>19 DEF Abort
<1> QED
  BY <1>1, <1>2, <1>3, <1>4, <1>5, <1>6, <1>7, <1>8, <1>9, <1>10, <1>11, <1>12, <1>13, <1>14, <1>15, <1>16, <1>17, <1>18, <1>19
     DEF Moves, Step

\* What a request needs at the point it arrives at.
Arrived(r) ==
  \/ pc[r] \in {"new", "gateWait", "errorSend"}
  \/ pc[r] = "errorWait" /\ r \in Phased
  \/ pc[r] \in {"lookup", "joined"} /\ (r \in Gated => owner = r)
  \/ /\ pc[r] \in {"handling", "half"} /\ (pc[r] = "half" => r \in Gated)
     /\ r \in Gated => owner = r /\ (Keyed(r) => Leads(r))
  \/ pc[r] = "phase1Wait" /\ r \in Phased
  \/ pc[r] \in {"between", "phase2Wait"} /\ r \in Phased /\ <<r, 1>> \in disk.effects
  \/ pc[r] = "sendWait" /\ r \in Phased /\ (status[r] = "ok" => Whole(r) \subseteq disk.effects)
  \/ /\ pc[r] = "record" /\ owner = r
     /\ status[r] = "ok" => /\ Whole(r) \subseteq mem.effects
                            /\ ~Keyed(r) => Pending(r)
                            /\ r \in Gated /\ Keyed(r) => Leads(r)
                            /\ r \in Phased => Whole(r) \subseteq disk.effects
  \/ pc[r] \in {"sequence", "finalize"} /\ owner = r /\ (status[r] = "ok" => Pending(r))
  \/ pc[r] = "failed" /\ (r \in Gated => owner = r \/ rolledBack[r])
  \/ pc[r] = "done" /\ (status[r] = "ok" => Whole(r) \subseteq disk.effects)

\* Arriving with that much, a request has its invariant.
LEMMA Arrival ==
  ASSUME NEW r \in Requests, Arrived(r)'
  PROVE  RequestInv(r)'
BY DEF Arrived, RequestInv, Placed, HoldsGate, FailedHolds, LeadsFlight, PhasesDurable, ReplyPending,
   Durable, Handling, Finalizing, Gated

\* The invariant says that much of a request wherever it is.
LEMMA Departure ==
  ASSUME TypeOK, NEW r \in Requests, RequestInv(r)
  PROVE  Arrived(r)
BY DEF Arrived, RequestInv, Placed, HoldsGate, FailedHolds, LeadsFlight, PhasesDurable, ReplyPending,
   Durable, Handling, Finalizing, Awaiting, Control, Gated, TypeOK, RequestTypeOK

\* What was known of a request holds after its own step.
LEMMA OwnStep ==
  ASSUME DurableInv, NEW r \in Requests, Moves(r)
  PROVE  RequestInv(r)'
<1> SUFFICES Arrived(r)'
  BY Arrival
<1>1. Arrived(r)
  BY Departure DEF DurableInv
<1> USE PipelineAssumption DEF DurableInv, MemoryAhead, TypeOK, StateTypeOK, RequestTypeOK, GateTypeOK, EngineState,
    Arrived, Pending, Whole, Leads, Gated, Goto, Answer, stateVars, gateVars, requestVars
<1>2. CASE Send(r)
  BY <1>1, <1>2 DEF Send, Enqueue
<1>3. CASE EnterGate(r)
  BY <1>1, <1>3 DEF EnterGate, Acquire
<1>4. CASE Lookup(r)
  <2> USE <1>1, <1>4 DEF Lookup
  <2>1. pc[r] = "lookup" /\ owner' = owner /\ (r \in Gated => owner = r)
    OBVIOUS
  <2>2. CASE Respond(r) /\ status' \in {[status EXCEPT ![r] = "conflict"], [status EXCEPT ![r] = "replay"]}
    <3>1. status'[r] # "ok"
      BY <2>2
    <3>2. pc'[r] = IF r \in Phased THEN "sendWait" ELSE "record"
      BY <2>2 DEF Respond, Enqueue
    <3> QED
      BY ONLY <2>1, <3>1, <3>2 DEF Arrived, Gated
  <2>3. CASE ~Keyed(r) /\ pc'[r] = "handling"
    BY ONLY <2>1, <2>3 DEF Arrived
  <2>4. CASE pc'[r] = "joined"
    BY ONLY <2>1, <2>4 DEF Arrived
  <2>5. CASE pc'[r] = "handling" /\ flight' = [flight EXCEPT ![KeyOf[r]] = r] /\ Keyed(r)
    <3>1. Leads(r)'
      BY <2>5 DEF Keys, Keyed
    <3> QED
      BY ONLY <2>1, <2>5, <3>1 DEF Arrived
  <2> QED
    BY <2>1, <2>2, <2>3, <2>4, <2>5
<1>5. CASE Resume(r)
  BY <1>1, <1>5 DEF Resume
<1>6. CASE HandlerWrite(r)
  BY <1>1, <1>6 DEF HandlerWrite
<1>7. CASE HandlerFinish(r)
  <2>1. r \in Gated /\ owner = r /\ (Keyed(r) => Leads(r))
    BY <1>1, <1>7 DEF HandlerFinish
  <2>2. pc'[r] = "record" /\ owner' = owner /\ flight' = flight
    BY <1>7, <2>1 DEF HandlerFinish, Respond
  <2>3. Whole(r) \subseteq mem'.effects /\ (dirty' \/ disk' = mem' \/ Keyed(r))
    <3>1. mem' = [mem EXCEPT !.effects = @ \cup Whole(r)]
      BY <1>7 DEF HandlerFinish, Save, Persist
    <3>2. dirty' \/ disk' = mem' \/ Keyed(r)
      BY <1>7 DEF HandlerFinish, Save, Persist
    <3> QED
      BY <3>1, <3>2
  <2> QED
    BY ONLY <2>1, <2>2, <2>3 DEF Arrived, Pending, Leads, Gated
<1>8. CASE HandlerCancel(r)
  BY <1>1, <1>8 DEF HandlerCancel, Respond, Enqueue
<1>9. CASE HandlerRefuse(r)
  BY <1>1, <1>9 DEF HandlerRefuse, Respond, Enqueue
<1>10. CASE HandlerThrow(r)
  BY <1>1, <1>10 DEF HandlerThrow
<1>11. CASE RequestPhase(r)
  BY <1>1, <1>11 DEF RequestPhase, Enqueue
<1>12. CASE RunPhase(r)
  BY <1>1, <1>12 DEF RunPhase, PersistPhase, Persist, RestoreDurableState
<1>13. CASE EnterSend(r)
  BY <1>1, <1>13 DEF EnterSend, Acquire
<1>14. CASE RecordReply(r)
  BY <1>1, <1>14 DEF RecordReply, Persist, WithRecord, Acknowledged
<1>15. CASE SequenceEvent(r)
  BY <1>1, <1>15 DEF SequenceEvent, Persist, PersistFails
<1>16. CASE Finalize(r)
  <2>1. pc[r] = "finalize" /\ owner = r /\ (status[r] = "ok" => Pending(r))
    BY <1>1, <1>16 DEF Finalize
  <2>2. CASE pc'[r] = "done" /\ status'[r] = "gone"
    BY ONLY <2>2 DEF Arrived
  <2>3. CASE FlushBeforeReply(r) /\ pc'[r] = "done" /\ status' = status
    <3>1. status[r] = "ok" => Whole(r) \subseteq disk'.effects
      BY ONLY <2>1, <2>3 DEF FlushBeforeReply, Persist, Pending, stateVars
    <3> QED
      BY ONLY <2>3, <3>1 DEF Arrived, Whole
  <2>4. CASE RollbackDurableMutation(r) /\ pc'[r] = "failed"
    BY ONLY DurableInv, r \in Requests, <2>4, RollbackEffect DEF Arrived, DurableInv
  <2> QED
    BY <1>16, <2>2, <2>3, <2>4 DEF Finalize
<1>17. CASE OnError(r)
  BY <1>1, <1>17 DEF OnError, Enqueue
<1>18. CASE ErrorSend(r)
  BY <1>1, <1>18 DEF ErrorSend, Acquire, Persist, PersistFails
<1>19. CASE OnResponse(r)
  BY <1>1, <1>19 DEF OnResponse
<1>20. CASE Abort(r)
  BY <1>1, <1>20 DEF Abort
<1> QED
  BY <1>2, <1>3, <1>4, <1>5, <1>6, <1>7, <1>8, <1>9, <1>10, <1>11, <1>12, <1>13, <1>14, <1>15, <1>16, <1>17, <1>18, <1>19, <1>20
     DEF Moves, Step

\* What is known of a request survives the steps of the others.
LEMMA OtherStep ==
  ASSUME DurableInv, NEW r \in Requests, Moves(r), NEW s \in Requests, s # r
  PROVE  RequestInv(s)'
<1> USE DEF DurableInv, RequestInv, Whole
<1>1. pc'[s] = pc[s] /\ status'[s] = status[s]
  BY OthersStay
<1>2. /\ owner = s => owner' = s
      /\ rolledBack[s] => rolledBack'[s]
      /\ Leads(s) => Leads(s)'
  BY OthersKeep
<1>3. Grows \/ (Reloads /\ owner \in {None, r})
  BY StateMoves
<1>4. disk.effects \subseteq disk'.effects
  BY <1>3 DEF Grows, Reloads, MemoryAhead
<1>5. pc[s] \in Finalizing => Grows
  BY <1>3, PipelineAssumption DEF HoldsGate
<1>6. Placed(s)' /\ HoldsGate(s)' /\ FailedHolds(s)' /\ LeadsFlight(s)'
  BY <1>1, <1>2 DEF Placed, HoldsGate, FailedHolds, LeadsFlight
<1>7. PhasesDurable(s)' /\ Durable(s)'
  BY <1>1, <1>4 DEF PhasesDurable, Durable
<1>8. ReplyPending(s)'
  BY <1>1, <1>4, <1>5 DEF ReplyPending, Pending, Grows, Finalizing
<1> QED
  BY <1>6, <1>7, <1>8

\* Every step preserves the invariant.
LEMMA DurableStep == DurableInv /\ [Next]_vars => DurableInv'
<1> SUFFICES ASSUME DurableInv, [Next]_vars PROVE DurableInv'
  OBVIOUS
<1>1. TypeOK'
  BY TypeStep DEF DurableInv
<1>2. ASSUME NEW r \in Requests, Moves(r) PROVE DurableInv'
  <2>1. MemoryAhead'
    BY <1>2, StateMoves DEF DurableInv, MemoryAhead, Grows, Reloads
  <2>2. ASSUME NEW s \in Requests PROVE RequestInv(s)'
    BY <1>2, <2>2, OwnStep, OtherStep
  <2> QED
    BY <1>1, <2>1, <2>2 DEF DurableInv
<1>3. CASE DeferredFlush \/ ReadResponse
  <2>1. Persist(mem) \/ PersistFails(mem)
    BY <1>3 DEF DeferredFlush, ReadResponse
  <2>2. mem' = mem /\ (disk' = mem \/ (disk' = disk /\ dirty'))
    BY <2>1 DEF Persist, PersistFails
  <2>3. UNCHANGED <<owner, flight, pc, status, rolledBack>>
    BY <1>3 DEF DeferredFlush, ReadResponse, gateVars, requestVars
  <2> QED
    BY <1>1, <2>2, <2>3
       DEF DurableInv, MemoryAhead, RequestInv, Placed, HoldsGate, FailedHolds, LeadsFlight,
           Leads, PhasesDurable, ReplyPending, Pending, Durable, Whole
<1>4. CASE Crash
  <2>1. ASSUME NEW r \in Requests
        PROVE  pc'[r] \in {"new", "done"} /\ (status'[r] = "ok" => status[r] = "ok" /\ pc[r] \in {"new", "done"})
    BY <1>4 DEF Crash
  <2>2. \A r \in Requests : pc'[r] = "done" /\ status'[r] = "ok" => pc[r] = "done" /\ status[r] = "ok"
    BY <1>4, <2>1 DEF Crash
  <2>3. disk' = disk /\ mem' = disk
    BY <1>4 DEF Crash
  <2>4. ASSUME NEW r \in Requests PROVE Arrived(r)'
    <3>1. Durable(r)
      BY <2>4 DEF DurableInv, RequestInv
    <3>2. CASE pc'[r] = "new"
      BY <3>2 DEF Arrived
    <3>3. CASE pc'[r] = "done"
      <4>1. status'[r] = "ok" => Whole(r) \subseteq disk.effects
        BY <2>2, <2>4, <3>1, <3>3 DEF Durable
      <4> QED
        BY <2>3, <3>3, <4>1 DEF Arrived, Whole
    <3> QED
      BY <2>1, <2>4, <3>2, <3>3
  <2> QED
    BY <1>1, <2>3, <2>4, Arrival DEF DurableInv, MemoryAhead
<1>5. CASE UNCHANGED vars
  BY <1>1, <1>5
     DEF vars, DurableInv, MemoryAhead, RequestInv, Placed, HoldsGate, FailedHolds,
         LeadsFlight, Leads, PhasesDurable, ReplyPending, Pending, Durable
<1> QED
  BY <1>2, <1>3, <1>4, <1>5 DEF Next, Moves

\* It holds initially.
LEMMA DurableInit == Init => DurableInv
<1> SUFFICES ASSUME Init PROVE DurableInv
  OBVIOUS
<1>1. TypeOK
  BY TypeInit
<1>2. \A r \in Requests : pc[r] = "new" /\ status[r] = "none"
  BY DEF Init
<1>3. MemoryAhead
  BY DEF Init, MemoryAhead
<1> QED
  BY <1>1, <1>2, <1>3
     DEF DurableInv, RequestInv, Placed, HoldsGate, FailedHolds, LeadsFlight, PhasesDurable,
         ReplyPending, Durable, Handling, Finalizing

\* The invariant holds in every reachable state.
THEOREM DurableInvariant == Spec => []DurableInv
  BY DurableInit, DurableStep, PTL DEF Spec

\* An acknowledged mutation is on disk: no rollback, failed flush, coalesced
\* write or restart takes a 2xx answer back.
THEOREM Acknowledged2xxIsDurable == Spec => []AcknowledgedIsDurable
<1>1. DurableInv => AcknowledgedIsDurable
  BY DEF DurableInv, RequestInv, Durable, AcknowledgedIsDurable
<1> QED
  BY <1>1, DurableInvariant, PTL

\* The durable mutation gate is held by one request through its critical part.
THEOREM GateIsHeld == Spec => []GateHeld
<1>1. DurableInv => GateHeld
  BY DEF DurableInv, RequestInv, HoldsGate, GateHeld
<1> QED
  BY <1>1, DurableInvariant, PTL

-------------------------------------------------------------------------------
(***************************************************************************)
(* Retries and published events.                                           *)
(***************************************************************************)
-------------------------------------------------------------------------------
(***************************************************************************)
(* The inductive invariant: who may hold the gate and lead a flight, and   *)
(* what a replay record in the state says of its request.                  *)
(***************************************************************************)

\* Where a request may lead a flight, where one that rolled back may be, and
\* where one with a replay record may be.
Leading == {"handling", "half", "record", "failed", "phase1Wait", "between", "phase2Wait", "sendWait"}
Over == {"failed", "errorSend", "errorWait", "done"}
Replied == Over \cup {"sequence", "finalize"}

\* The gate is held only by a request between its hooks or on its way to
\* onError, and by a phased one until its response has left.
HolderAtWork ==
  owner # None =>
    pc[owner] \in Finalizing \cup {"failed"} \cup (IF owner \in Gated THEN Handling ELSE {"done"})

\* A flight is led by a request with its key; a gated leader holds the gate.
FlightLed(k) ==
  flight[k] # None =>
    KeyOf[flight[k]] = k /\ pc[flight[k]] \in Leading /\ (flight[k] \in Gated => owner = flight[k])
GateInv ==
  /\ HolderAtWork /\ \A k \in Keys : FlightLed(k)
  /\ (\A r \in Gated : pc[r] # "joined") /\ (\A r \in Phased : pc[r] # "gateWait")
  /\ \A r \in Requests : rolledBack[r] => pc[r] \in Over

\* A gated request about to be recorded is alone: none that failed can flush the
\* state in memory before it.
Alone(r) ==
  r \in Gated /\ pc[r] = "record" /\ status[r] = "ok"
    => \A s \in Requests : pc[s] \notin {"failed", "errorSend"}

\* A replay record is on disk with its mutation, and is the only one of its key.
Records == disk.idempotencyRecords
RecordOf(s) ==
  /\ Whole(s) \subseteq disk.effects /\ pc[s] \in Replied
  /\ Keyed(s) /\ flight[KeyOf[s]] = None
  /\ \A t \in Records : KeyOf[t] = KeyOf[s] => t = s
RecordInv == mem.idempotencyRecords = Records /\ \A s \in Records : RecordOf(s)

\* The end of a recorded kind of request's mutation reaches the disk with its
\* record.
Tracked == {r \in Gated \ (Unrecorded \cup Imports) : Keyed(r)}
TrackedWell(r) ==
  /\ <<r, 2>> \in mem.effects => r \in Records \/ (pc[r] = "record" /\ status[r] = "ok")
  /\ <<r, 2>> \in disk.effects => r \in Records

ReplayInv ==
  /\ GateInv /\ RecordInv
  /\ \A r \in Requests : Alone(r)
  /\ \A r \in Tracked : TrackedWell(r)
  /\ ReplayIsDurable

EventInv == disk.eventSequence <= mem.eventSequence /\ PublishedIsDurable
-------------------------------------------------------------------------------
(***************************************************************************)
(* The gate and the flights.                                               *)
(***************************************************************************)

\* A flight that is led stays led, and only a leader that holds the gate or
\* is phased opens one.
LEMMA FlightStep ==
  ASSUME DurableInv, GateInv, NEW r \in Requests, Moves(r), NEW k \in Keys
  PROVE  FlightLed(k)'
<1>1. ASSUME flight'[k] \in {flight[k], None, r},
             flight'[k] = r => /\ KeyOf[r] = k /\ pc'[r] \in Leading
                               /\ r \in Gated => owner' = r
      PROVE  FlightLed(k)'
  <2>1. CASE flight'[k] \in {None, r}
    BY <1>1, <2>1, PipelineAssumption DEF FlightLed
  <2>2. CASE flight'[k] = flight[k] /\ flight[k] # None /\ flight[k] # r
    <3>1. flight[k] \in Requests
      BY <2>2 DEF DurableInv, TypeOK, GateTypeOK
    <3>2. pc'[flight[k]] = pc[flight[k]] /\ (owner = flight[k] => owner' = flight[k])
      BY <2>2, <3>1, OthersStay, OthersKeep DEF DurableInv
    <3> QED
      BY <2>2, <3>2 DEF FlightLed, GateInv
  <2> QED
    BY <1>1, <2>1, <2>2
<1> USE PipelineAssumption DEF DurableInv, RequestInv, Placed, HoldsGate, GateInv, FlightLed, Keyed,
   TypeOK, RequestTypeOK, GateTypeOK, Gated, Handling, Finalizing, Leading, Goto, gateVars,
   requestVars
<1>2. CASE Send(r)
  BY <1>1, <1>2 DEF Send, Enqueue
<1>3. CASE EnterGate(r)
  BY <1>1, <1>3 DEF EnterGate, Acquire
<1>4. CASE Lookup(r)
  BY <1>1, <1>4 DEF Lookup, Respond, Enqueue
<1>5. CASE Resume(r)
  BY <1>1, <1>5 DEF Resume
<1>6. CASE HandlerWrite(r)
  BY <1>1, <1>6 DEF HandlerWrite
<1>7. CASE HandlerFinish(r)
  BY <1>1, <1>7 DEF HandlerFinish, Respond, Enqueue
<1>8. CASE HandlerCancel(r)
  BY <1>1, <1>8 DEF HandlerCancel, Respond, Enqueue
<1>9. CASE HandlerRefuse(r)
  BY <1>1, <1>9 DEF HandlerRefuse, Respond, Enqueue
<1>10. CASE HandlerThrow(r)
  BY <1>1, <1>10 DEF HandlerThrow
<1>11. CASE RequestPhase(r)
  BY <1>1, <1>11 DEF RequestPhase, Enqueue
<1>12. CASE RunPhase(r)
  BY <1>1, <1>12 DEF RunPhase
<1>13. CASE EnterSend(r)
  BY <1>1, <1>13 DEF EnterSend, Acquire
<1>14. CASE RecordReply(r)
  BY <1>1, <1>14 DEF RecordReply, ReleaseFlight
<1>15. CASE SequenceEvent(r)
  BY <1>1, <1>15 DEF SequenceEvent
<1>16. CASE Finalize(r)
  BY <1>1, <1>16 DEF Finalize, Release
<1>21. CASE OnError(r)
  BY <1>1, <1>21 DEF OnError, Release, ReleaseFlight, Enqueue
<1>18. CASE ErrorSend(r)
  BY <1>1, <1>18 DEF ErrorSend, Acquire
<1>19. CASE OnResponse(r)
  BY <1>1, <1>19 DEF OnResponse
<1>20. CASE Abort(r)
  BY <1>1, <1>20 DEF Abort
<1> QED
  BY <1>2, <1>3, <1>4, <1>5, <1>6, <1>7, <1>8, <1>9, <1>10, <1>11, <1>12, <1>13, <1>14, <1>15, <1>16,
     <1>21, <1>18, <1>19, <1>20 DEF Moves, Step

\* A gated request that looks its key up finds no flight of its own kind: a
\* gated leader would hold the gate.
LEMMA JoinStep ==
  ASSUME DurableInv, GateInv, NEW r \in Requests, Moves(r), NEW s \in Gated
  PROVE  pc'[s] # "joined"
<1>1. CASE s # r
  BY <1>1, OthersStay DEF DurableInv, GateInv, Gated
<1>2. CASE s = r /\ Lookup(r)
  <2>1. owner = r /\ pc[r] = "lookup"
    BY <1>2 DEF Lookup, DurableInv, RequestInv, HoldsGate, Handling
  <2>2. SUFFICES ASSUME Keyed(r), flight[KeyOf[r]] # None, ~Mismatch(r, flight[KeyOf[r]]) PROVE FALSE
    BY <1>2 DEF Lookup, Respond, Enqueue, Goto, DurableInv, TypeOK, RequestTypeOK, Gated
  <2>3. flight[KeyOf[r]] \in Requests /\ FlightLed(KeyOf[r])
    BY <2>2 DEF DurableInv, TypeOK, GateTypeOK, GateInv, Keys, Keyed
  <2>4. flight[KeyOf[r]] \in Gated
    BY <1>2, <2>2, <2>3, PipelineAssumption DEF Mismatch, Gated
  <2> QED
    BY <2>1, <2>2, <2>3, <2>4 DEF FlightLed, Leading
<1>3. CASE s = r /\ ~Lookup(r)
  <2> USE <1>3 DEF DurableInv, GateInv, TypeOK, RequestTypeOK, Goto, requestVars, Gated
  <2>1. Send(r) \/ Step(r) \/ Abort(r)
    BY DEF Moves
  <2> QED
    BY <2>1 DEF Step, Send, EnterGate, Resume, HandlerWrite, HandlerFinish, HandlerCancel,
       HandlerRefuse, HandlerThrow, RequestPhase, RunPhase, EnterSend, RecordReply, SequenceEvent,
       Finalize, OnError, ErrorSend, OnResponse, Abort, Respond, Enqueue
<1> QED
  BY <1>1, <1>2, <1>3

\* Whoever holds the gate after a step of its own is at work with it.
LEMMA HolderStep ==
  ASSUME DurableInv, GateInv, NEW r \in Requests, Moves(r)
  PROVE  HolderAtWork'
<1>1. ASSUME owner' = r =>
               pc'[r] \in Finalizing \cup {"failed"} \cup (IF r \in Gated THEN Handling ELSE {"done"}),
             owner' \in {owner, r, None}
      PROVE  HolderAtWork'
  <2>1. ASSUME NEW s \in Requests, s # r PROVE pc'[s] = pc[s]
    BY <2>1, OthersStay DEF DurableInv
  <2> QED
    BY <1>1, <2>1, PipelineAssumption
       DEF HolderAtWork, GateInv, DurableInv, TypeOK, GateTypeOK
<1> USE PipelineAssumption DEF DurableInv, RequestInv, Placed, GateInv, HolderAtWork, TypeOK,
   RequestTypeOK, GateTypeOK, Gated, Handling, Finalizing, Goto, gateVars, requestVars
<1>2. CASE Send(r)
  <2>1. owner' = owner /\ owner # r
    BY <1>2 DEF Send
  <2> QED
    BY <1>1, <2>1
<1>3. CASE EnterGate(r)
  BY <1>1, <1>3 DEF EnterGate, Acquire
<1>4. CASE Lookup(r)
  <2>1. owner' = owner /\ pc[r] = "lookup"
    BY <1>4 DEF Lookup
  <2>2. pc'[r] \in {"handling", "record", "sendWait", "joined"}
    BY <1>4 DEF Lookup, Respond, Enqueue
  <2>3. r \in Gated => pc'[r] # "joined"
    BY JoinStep
  <2>4. r \in Gated => pc'[r] # "sendWait"
    BY <1>4 DEF Lookup, Respond, Enqueue
  <2> QED
    BY ONLY <1>1, <2>1, <2>2, <2>3, <2>4, DurableInv, GateInv, r \in Requests DEF GateInv,
       HolderAtWork, Gated, Handling, Finalizing
<1>5. CASE Resume(r)
  BY <1>1, <1>5 DEF Resume
<1>6. CASE HandlerWrite(r)
  BY <1>1, <1>6 DEF HandlerWrite
<1>7. CASE HandlerFinish(r)
  BY <1>1, <1>7 DEF HandlerFinish, Respond, Enqueue
<1>8. CASE HandlerCancel(r)
  BY <1>1, <1>8 DEF HandlerCancel, Respond, Enqueue
<1>9. CASE HandlerRefuse(r)
  BY <1>1, <1>9 DEF HandlerRefuse, Respond, Enqueue
<1>10. CASE HandlerThrow(r)
  BY <1>1, <1>10 DEF HandlerThrow
<1>11. CASE RequestPhase(r)
  BY <1>1, <1>11 DEF RequestPhase, Enqueue
<1>12. CASE RunPhase(r)
  BY <1>1, <1>12 DEF RunPhase
<1>13. CASE EnterSend(r)
  BY <1>1, <1>13 DEF EnterSend, Acquire
<1>14. CASE RecordReply(r)
  BY <1>1, <1>14 DEF RecordReply, ReleaseFlight
<1>15. CASE SequenceEvent(r)
  BY <1>1, <1>15 DEF SequenceEvent
<1>16. CASE Finalize(r)
  BY <1>1, <1>16 DEF Finalize, Release
<1>21. CASE OnError(r)
  BY <1>1, <1>21 DEF OnError, Release, ReleaseFlight, Enqueue
<1>18. CASE ErrorSend(r)
  BY <1>1, <1>18 DEF ErrorSend, Acquire
<1>19. CASE OnResponse(r)
  BY <1>1, <1>19 DEF OnResponse
<1>20. CASE Abort(r)
  BY <1>1, <1>20 DEF Abort
<1> QED
  BY <1>2, <1>3, <1>4, <1>5, <1>6, <1>7, <1>8, <1>9, <1>10, <1>11, <1>12, <1>13, <1>14, <1>15, <1>16,
     <1>21, <1>18, <1>19, <1>20 DEF Moves, Step

\* A phased request never waits in onRequest.
LEMMA WaitStep ==
  ASSUME DurableInv, GateInv, NEW r \in Requests, Moves(r), NEW s \in Phased
  PROVE  pc'[s] # "gateWait"
<1>1. CASE s # r
  BY <1>1, OthersStay, PipelineAssumption DEF DurableInv, GateInv
<1>2. CASE s = r
  <2> USE <1>2 DEF DurableInv, GateInv, TypeOK, RequestTypeOK, Goto, requestVars
  <2>1. Send(r) \/ Step(r) \/ Abort(r)
    BY DEF Moves
  <2> QED
    BY <2>1
       DEF Step, Send, EnterGate, Lookup, Resume, HandlerWrite, HandlerFinish,
           HandlerCancel, HandlerRefuse, HandlerThrow, RequestPhase, RunPhase, EnterSend,
           RecordReply, SequenceEvent, Finalize, OnError, ErrorSend, OnResponse, Abort,
           Respond, Enqueue
<1> QED
  BY <1>1, <1>2

\* A request rolls back on its way out only.
LEMMA OverStep ==
  ASSUME DurableInv, GateInv, NEW r \in Requests, Moves(r), NEW s \in Requests, rolledBack'[s]
  PROVE  pc'[s] \in Over
<1> USE DEF DurableInv, GateInv, TypeOK, RequestTypeOK, Over, Goto, requestVars
<1>1. ASSUME s # r, rolledBack'[s] = rolledBack[s] PROVE pc'[s] \in Over
  BY <1>1, OthersStay
<1>2. CASE Send(r)
  BY <1>1, <1>2 DEF Send, Enqueue
<1>3. CASE EnterGate(r)
  BY <1>1, <1>3 DEF EnterGate, Acquire
<1>4. CASE Lookup(r)
  BY <1>1, <1>4 DEF Lookup, Respond, Enqueue
<1>5. CASE Resume(r)
  BY <1>1, <1>5 DEF Resume
<1>6. CASE HandlerWrite(r)
  BY <1>1, <1>6 DEF HandlerWrite
<1>7. CASE HandlerFinish(r)
  BY <1>1, <1>7 DEF HandlerFinish, Respond, Enqueue
<1>8. CASE HandlerCancel(r)
  BY <1>1, <1>8 DEF HandlerCancel, Respond, Enqueue
<1>9. CASE HandlerRefuse(r)
  BY <1>1, <1>9 DEF HandlerRefuse, Respond, Enqueue
<1>10. CASE HandlerThrow(r)
  BY <1>1, <1>10 DEF HandlerThrow
<1>11. CASE RequestPhase(r)
  BY <1>1, <1>11 DEF RequestPhase, Enqueue
<1>12. CASE RunPhase(r)
  BY <1>1, <1>12 DEF RunPhase
<1>13. CASE EnterSend(r)
  BY <1>1, <1>13 DEF EnterSend, Acquire
<1>14. CASE RecordReply(r)
  BY <1>1, <1>14 DEF RecordReply, ReleaseFlight, RollbackDurableMutation
<1>15. CASE SequenceEvent(r)
  BY <1>1, <1>15 DEF SequenceEvent
<1>16. CASE Finalize(r)
  BY <1>1, <1>16 DEF Finalize, Release, RollbackDurableMutation
<1>21. CASE OnError(r)
  BY <1>1, <1>21 DEF OnError, Release, ReleaseFlight, Enqueue, RollbackDurableMutation
<1>18. CASE ErrorSend(r)
  BY <1>1, <1>18 DEF ErrorSend, Acquire
<1>19. CASE OnResponse(r)
  BY <1>1, <1>19 DEF OnResponse
<1>20. CASE Abort(r)
  BY <1>1, <1>20 DEF Abort
<1> QED
  BY <1>2, <1>3, <1>4, <1>5, <1>6, <1>7, <1>8, <1>9, <1>10, <1>11, <1>12, <1>13, <1>14, <1>15, <1>16,
     <1>21, <1>18, <1>19, <1>20 DEF Moves, Step

\* The five together.
LEMMA GateStep ==
  ASSUME DurableInv, GateInv, NEW r \in Requests, Moves(r)
  PROVE  GateInv'
BY HolderStep, FlightStep, JoinStep, WaitStep, OverStep DEF GateInv

-------------------------------------------------------------------------------
(***************************************************************************)
(* The state in memory and on disk.                                       *)
(***************************************************************************)

\* The leader of a flight writes its record.
Recording(r) ==
  /\ pc[r] = "record" /\ Acknowledged(r) /\ mem' = WithRecord(r) /\ disk' = mem'
  /\ pc'[r] = "sequence"

\* A step writes all of memory or nothing, and counts events upwards.
LEMMA StateEffect ==
  ASSUME DurableInv, NEW r \in Requests, Moves(r)
  PROVE  /\ disk' \in {disk, mem'}
         /\ mem'.eventSequence >= mem.eventSequence \/ mem' = disk
         /\ Recording(r) \/ mem'.idempotencyRecords \in {mem.idempotencyRecords,
            disk.idempotencyRecords}
<1> USE DEF DurableInv, TypeOK, StateTypeOK, EngineState, stateVars
<1>a. mem.eventSequence \in Nat /\ mem.eventSequence >= mem.eventSequence
  OBVIOUS
<1>1. CASE Send(r)
  BY <1>a, <1>1 DEF Send
<1>2. CASE EnterGate(r)
  BY <1>a, <1>2 DEF EnterGate
<1>3. CASE Lookup(r)
  BY <1>a, <1>3 DEF Lookup
<1>4. CASE Resume(r)
  BY <1>a, <1>4 DEF Resume
<1>5. CASE HandlerWrite(r)
  BY <1>a, <1>5 DEF HandlerWrite
<1>6. CASE HandlerFinish(r)
  BY <1>a, <1>6 DEF HandlerFinish, Save, Persist, Whole
<1>7. CASE HandlerCancel(r)
  BY <1>a, <1>7 DEF HandlerCancel
<1>8. CASE HandlerRefuse(r)
  BY <1>a, <1>8 DEF HandlerRefuse
<1>9. CASE HandlerThrow(r)
  BY <1>a, <1>9 DEF HandlerThrow
<1>10. CASE RequestPhase(r)
  BY <1>a, <1>10 DEF RequestPhase
<1>11. CASE RunPhase(r)
  BY <1>a, <1>11 DEF RunPhase, PersistPhase, Persist, RestoreDurableState
<1>12. CASE EnterSend(r)
  BY <1>a, <1>12 DEF EnterSend
<1>13. CASE RecordReply(r)
  <2>1. CASE Acknowledged(r) /\ Persist(WithRecord(r)) /\ Goto(r, "sequence")
    BY <1>a, <1>13, <2>1
       DEF RecordReply, Persist, WithRecord, Recording, Goto, RequestTypeOK
  <2>2. CASE UNCHANGED <<mem, disk>>
    BY <1>a, <2>2
  <2>3. CASE RollbackDurableMutation(r)
    BY <1>a, <2>3, RollbackEffect
  <2> QED
    BY <1>13, <2>1, <2>2, <2>3 DEF RecordReply
<1>14. CASE SequenceEvent(r)
  BY <1>a, <1>14 DEF SequenceEvent, Persist, PersistFails
<1>15. CASE Finalize(r)
  BY <1>a, <1>15
     DEF Finalize, FlushBeforeReply, Persist, RollbackDurableMutation, RestoreDurableState
<1>20. CASE OnError(r)
  BY <1>a, <1>20 DEF OnError, RollbackDurableMutation, RestoreDurableState
<1>17. CASE ErrorSend(r)
  BY <1>a, <1>17 DEF ErrorSend, Persist, PersistFails
<1>18. CASE OnResponse(r)
  BY <1>a, <1>18 DEF OnResponse
<1>19. CASE Abort(r)
  BY <1>a, <1>19 DEF Abort
<1> QED
  BY <1>1, <1>2, <1>3, <1>4, <1>5, <1>6, <1>7, <1>8, <1>9, <1>10, <1>11, <1>12, <1>13, <1>14, <1>15,
     <1>20, <1>17, <1>18, <1>19 DEF Moves, Step

\* What is on disk stays there.
LEMMA DiskGrows ==
  ASSUME DurableInv, NEW r \in Requests, Moves(r)
  PROVE  disk.effects \subseteq disk'.effects
BY StateMoves DEF Grows, Reloads, DurableInv, MemoryAhead

\* A record is added where there was none of its key, for a mutation that is
\* written with it.
LEMMA RecordEffect ==
  ASSUME DurableInv, RecordInv, NEW r \in Requests, Moves(r)
  PROVE  /\ mem'.idempotencyRecords = Records'
         /\ \/ Records' = Records
            \/ Recording(r) /\ Records' = Records \cup ({r} \ Unrecorded) /\ SameKey(r) = {}
<1>1. CASE Recording(r)
  <2>1. SameKey(r) = {}
    BY <1>1, PipelineAssumption
       DEF Recording, Acknowledged, Leads, RecordInv, RecordOf, SameKey, DurableInv, TypeOK,
           StateTypeOK, EngineState, Records
  <2>2. mem'.idempotencyRecords = mem.idempotencyRecords \cup ({r} \ Unrecorded)
    BY <1>1, <2>1 DEF Recording, WithRecord, DurableInv, TypeOK, StateTypeOK, EngineState
  <2> QED
    BY <1>1, <2>1, <2>2 DEF Recording, RecordInv, Records
<1>2. CASE ~Recording(r)
  BY <1>2, StateEffect DEF RecordInv, Records
<1> QED
  BY <1>1, <1>2

\* A request with a record is on its way out, and stays so.
LEMMA RepliedStep ==
  ASSUME DurableInv, GateInv, NEW r \in Requests, Moves(r), NEW s \in Requests, pc[s] \in Replied
  PROVE  pc'[s] \in Replied
<1>1. CASE s # r
  BY <1>1, OthersStay DEF DurableInv
<1>2. CASE s = r
  <2> USE <1>2 DEF DurableInv, TypeOK, RequestTypeOK, Goto, requestVars, Replied, Over
  <2>1. Send(r) \/ Step(r) \/ Abort(r)
    BY DEF Moves
  <2> QED
    BY <2>1
       DEF Step, Send, EnterGate, Lookup, Resume, HandlerWrite, HandlerFinish,
           HandlerCancel, HandlerRefuse, HandlerThrow, RequestPhase, RunPhase, EnterSend,
           RecordReply, SequenceEvent, Finalize, OnError, ErrorSend, OnResponse, Abort,
           Respond, Enqueue
<1> QED
  BY <1>1, <1>2

\* No flight is opened for a key that has a record.
LEMMA FlightClosed ==
  ASSUME DurableInv, RecordInv, NEW r \in Requests, Moves(r), NEW s \in Records
  PROVE  flight'[KeyOf[s]] = None
<1> DEFINE k == KeyOf[s]
<1>1. k \in Keys /\ flight[k] = None /\ s \in mem.idempotencyRecords /\ s \in Requests
  BY DEF RecordInv, RecordOf, Records, Keys, Keyed, DurableInv, TypeOK, StateTypeOK, EngineState
<1>2. CASE Lookup(r)
  <2>1. flight' = flight \/ (SameKey(r) = {} /\ flight' = [flight EXCEPT ![KeyOf[r]] = r])
    BY <1>2 DEF Lookup
  <2>2. KeyOf[r] = k => s \in SameKey(r)
    BY <1>1 DEF SameKey
  <2> QED
    BY <1>1, <2>1, <2>2 DEF DurableInv, TypeOK, GateTypeOK
<1>3. CASE ~Lookup(r)
  <2>1. Send(r) \/ Step(r) \/ Abort(r)
    BY DEF Moves
  <2>2. flight' = flight \/ ReleaseFlight(r)
    BY <1>3, <2>1
       DEF Step, Send, EnterGate, Resume, HandlerWrite, HandlerFinish, HandlerCancel,
           HandlerRefuse, HandlerThrow, RequestPhase, RunPhase, EnterSend, RecordReply,
           SequenceEvent, Finalize, OnError, ErrorSend, OnResponse, Abort
  <2> QED
    BY <1>1, <2>2 DEF ReleaseFlight
<1> QED
  BY <1>2, <1>3

\* Every record keeps what it says, and a new one says as much.
LEMMA RecordStep ==
  ASSUME DurableInv, GateInv, RecordInv, NEW r \in Requests, Moves(r)
  PROVE  RecordInv'
<1>1. Records \subseteq Requests
  BY DEF Records, DurableInv, TypeOK, StateTypeOK, EngineState
<1>2. ASSUME NEW s \in Records, s \in Records' PROVE RecordOf(s)'
  <2>1. RecordOf(s) /\ s \in Requests /\ s \in mem.idempotencyRecords
    BY <1>1 DEF RecordInv
  <2>2. Whole(s)' \subseteq disk'.effects
    BY <2>1, DiskGrows DEF RecordOf, Whole
  <2>3. pc'[s] \in Replied
    BY <2>1, RepliedStep DEF RecordOf
  <2>4. flight'[KeyOf[s]] = None
    BY FlightClosed
  <2>5. ASSUME NEW t \in Records', KeyOf[t] = KeyOf[s] PROVE t = s
    BY <2>1, <2>5, RecordEffect DEF RecordOf, SameKey
  <2> QED
    BY <2>1, <2>2, <2>3, <2>4, <2>5 DEF RecordOf, Keyed
<1>3. ASSUME NEW s \in Records', s \notin Records PROVE RecordOf(s)'
  <2>1. s = r /\ Recording(r) /\ Records' = Records \cup ({r} \ Unrecorded) /\ SameKey(r) = {}
    BY <1>3, RecordEffect
  <2>2. Whole(r) \subseteq mem.effects
    BY <2>1 DEF Recording, Acknowledged, DurableInv, RequestInv, ReplyPending
  <2>3. disk'.effects = mem.effects
    BY <2>1 DEF Recording, WithRecord, DurableInv, TypeOK, StateTypeOK, EngineState
  <2>4. pc'[r] \in Replied
    BY <2>1 DEF Recording, Replied
  <2>5. Keyed(r) /\ flight'[KeyOf[r]] = None
    <3>1. Keyed(r) /\ flight[KeyOf[r]] = r /\ pc[r] = "record"
      BY <2>1 DEF Recording, Acknowledged, Leads
    <3>2. RecordReply(r)
      BY <3>1 DEF Moves, Step, Send, EnterGate, Lookup, Resume, HandlerWrite, HandlerFinish,
         HandlerCancel, HandlerRefuse, HandlerThrow, RequestPhase, RunPhase, EnterSend,
         SequenceEvent, Finalize, OnError, ErrorSend, OnResponse, Abort, Awaiting
    <3>3. KeyOf[r] \in Keys
      BY <3>1 DEF Keys, Keyed
    <3> QED
      BY <3>1, <3>2, <3>3 DEF RecordReply, ReleaseFlight
  <2>6. ASSUME NEW t \in Records', KeyOf[t] = KeyOf[r] PROVE t = r
    BY <2>1, <2>6 DEF SameKey, RecordInv
  <2> QED
    BY <2>1, <2>2, <2>3, <2>4, <2>5, <2>6 DEF RecordOf, Whole, Keyed
<1> QED
  BY <1>2, <1>3, RecordEffect DEF RecordInv

-------------------------------------------------------------------------------
(***************************************************************************)
(* Retries leave one mutation.                                             *)
(***************************************************************************)

\* Nothing fails while a gated request is about to be recorded.
LEMMA AloneStep ==
  ASSUME DurableInv, GateInv, \A s \in Requests : Alone(s), NEW r \in Requests, Moves(r),
         NEW x \in Gated, pc'[x] = "record", status'[x] = "ok", NEW s \in Requests
  PROVE  pc'[s] \notin {"failed", "errorSend"}
<1> USE DEF DurableInv, TypeOK, RequestTypeOK
<1>1. ASSUME pc[x] = "record", pc'[s] \in {"failed", "errorSend"} PROVE FALSE
  <2>1. owner = x /\ owner # None
    BY <1>1, PipelineAssumption DEF RequestInv, HoldsGate, Finalizing, Gated
  <2>2. x # r /\ s = r
    <3>1. pc[s] \notin {"failed", "errorSend"} \/ s = x \/ x = r
      BY <1>1, OthersStay DEF Alone, Gated
    <3>2. x # r
      BY <1>1 DEF Moves, Step, Send, EnterGate, Lookup, Resume, HandlerWrite, HandlerFinish,
         HandlerCancel, HandlerRefuse, HandlerThrow, RequestPhase, RunPhase, EnterSend, RecordReply,
         SequenceEvent, Finalize, OnError, ErrorSend, OnResponse, Abort, Awaiting, Goto
    <3> QED
      BY <1>1, <3>1, <3>2, OthersStay DEF Gated
  <2>3. pc[r] \notin {"failed", "errorSend"}
    BY <1>1, <2>2, OthersStay DEF Alone, Gated
  <2>4. ~Quiet
    BY <1>1 DEF Quiet, Running, Gated
  <2>5. pc[r] \notin Finalizing
    BY <2>1, <2>2 DEF RequestInv, HoldsGate
  <2>6. Send(r) \/ Step(r) \/ Abort(r)
    BY DEF Moves
  <2> QED
    BY <1>1, <2>1, <2>2, <2>3, <2>4, <2>5, <2>6 DEF Step, Send, EnterGate, Lookup, Resume,
       HandlerWrite, HandlerFinish, HandlerCancel, HandlerRefuse, HandlerThrow, RequestPhase,
       RunPhase, EnterSend, RecordReply, SequenceEvent, Finalize, OnError, ErrorSend, OnResponse, Abort,
       Acquire, Respond, Enqueue, Goto, Finalizing
<1>2. CASE pc[x] # "record"
  <2>1. x = r
    BY <1>2, OthersStay DEF Gated
  <2>2. HandlerFinish(r)
    BY <1>2, <2>1
       DEF Moves, Step, Send, EnterGate, Lookup, Resume, HandlerWrite, HandlerFinish,
           HandlerCancel, HandlerRefuse, HandlerThrow, RequestPhase, RunPhase, EnterSend,
           RecordReply, SequenceEvent, Finalize, OnError, ErrorSend, OnResponse, Abort,
           Respond, Enqueue, Goto, Answer, RequestInv, Placed, Gated, requestVars
  <2>3. pc[s] \notin {"failed", "errorSend"}
    BY <2>2 DEF HandlerFinish, Quiet, Running
  <2> QED
    BY <2>1, <2>3, OthersStay
<1> QED
  BY <1>1, <1>2

\* The end of a recorded request's mutation comes to disk with its record only,
\* unless it is an import that flushes what another request left dirty.
LEMMA TrackedStep ==
  ASSUME DurableInv, ReplayInv, NEW r \in Requests, Moves(r),
         NEW x \in Gated \ Unrecorded, Keyed(x), TrackedWell(x),
         x \in Imports /\ pc[x] = "half" => ~dirty
  PROVE  TrackedWell(x)'
<1>a. /\ x \in Requests /\ x \in Gated /\ Keyed(x) /\ x \notin Unrecorded /\ x \notin Phased
      /\ x \in Imports /\ pc[x] = "half" => ~dirty
      /\ TrackedWell(x) /\ Alone(x) /\ GateInv /\ RecordInv
      /\ x # r => pc'[x] = pc[x] /\ status'[x] = status[x]
  BY OthersStay DEF Gated, ReplayInv, DurableInv
<1> USE <1>a
\* Only memory changes, and not by what is tracked.
<1>b. ASSUME mem'.effects \cap {<<x, 2>>} = mem.effects \cap {<<x, 2>>}, disk' = disk, pc[r] # "record"
      PROVE  TrackedWell(x)'
  BY <1>a, <1>b DEF TrackedWell, Records
\* The state is written while no tracked request is about to be recorded.
<1>c. ASSUME pc[x] # "record", Records' = Records,
             mem' = disk \/ (<<x, 2>> \in mem'.effects => <<x, 2>> \in mem.effects)
      PROVE  TrackedWell(x)'
  BY <1>a, <1>c, StateEffect DEF TrackedWell
\* The state is reloaded.
<1>d. ASSUME mem' = disk, disk' = disk PROVE TrackedWell(x)'
  BY <1>a, <1>d DEF TrackedWell, Records
<1>1. CASE Send(r)
  BY <1>b, <1>1 DEF Send, stateVars, Awaiting
<1>2. CASE EnterGate(r)
  BY <1>b, <1>2 DEF EnterGate, stateVars, Awaiting
<1>3. CASE Lookup(r)
  BY <1>b, <1>3 DEF Lookup, stateVars, Awaiting
<1>4. CASE Resume(r)
  BY <1>b, <1>4 DEF Resume, stateVars, Awaiting
<1>5. CASE HandlerWrite(r)
  BY <1>b, <1>5 DEF HandlerWrite, DurableInv, TypeOK, StateTypeOK, EngineState
<1>6. CASE HandlerFinish(r)
  <2>1. CASE x = r
    <3>1. disk' = disk /\ status'[r] = "ok" /\ pc'[r] = "record"
      BY <1>6, <2>1, <1>a
         DEF HandlerFinish, Save, Respond, Goto, Answer, DurableInv, TypeOK, RequestTypeOK
    <3> QED
      BY <1>a, <2>1, <3>1 DEF TrackedWell, Records
  <2>2. CASE x # r
    <3>1. pc[x] # "record"
      BY <1>6, <2>2, <1>a DEF HandlerFinish, Quiet, Running
    <3>2. <<x, 2>> \in mem'.effects => <<x, 2>> \in mem.effects
      BY <1>6, <2>2
         DEF HandlerFinish, Save, Persist, Whole, DurableInv, TypeOK, StateTypeOK,
             EngineState
    <3>3. Records' = Records
      BY <1>6, RecordEffect DEF HandlerFinish, Recording
    <3> QED
      BY <1>c, <2>2, <3>1, <3>2, <3>3
  <2> QED
    BY <2>1, <2>2
<1>7. CASE HandlerCancel(r)
  BY <1>b, <1>7 DEF HandlerCancel, stateVars, Awaiting
<1>8. CASE HandlerRefuse(r)
  BY <1>b, <1>8 DEF HandlerRefuse, stateVars, Awaiting
<1>9. CASE HandlerThrow(r)
  BY <1>b, <1>9 DEF HandlerThrow, stateVars, Awaiting
<1>10. CASE RequestPhase(r)
  BY <1>b, <1>10 DEF RequestPhase, stateVars, Awaiting
<1>11. CASE RunPhase(r)
  <2>1. pc[x] # "record"
    BY <1>11, <1>a, PipelineAssumption
       DEF RunPhase, DurableInv, RequestInv, HoldsGate, Finalizing
  <2>2. x # r
    BY <1>11, <1>a DEF RunPhase, DurableInv, RequestInv, Placed, Gated
  <2>3. mem' = disk \/ (<<x, 2>> \in mem'.effects => <<x, 2>> \in mem.effects)
    BY <1>11, <2>2
       DEF RunPhase, PersistPhase, Persist, RestoreDurableState, DurableInv, TypeOK,
           StateTypeOK, EngineState
  <2>4. Records' = Records
    BY <1>11, RecordEffect DEF RunPhase, Recording
  <2>5. mem' = disk => disk' = disk
    BY StateEffect
  <2> QED
    BY <1>c, <1>d, <2>1, <2>3, <2>4, <2>5
<1>12. CASE EnterSend(r)
  BY <1>b, <1>12 DEF EnterSend, stateVars, Awaiting
<1>13. CASE RecordReply(r)
  <2>1. owner = r /\ pc[r] = "record"
    BY <1>13 DEF RecordReply, DurableInv, RequestInv, HoldsGate, Finalizing
  <2>2. x # r => pc[x] # "record"
    BY <2>1, <1>a DEF DurableInv, RequestInv, HoldsGate, Finalizing
  <2>3. CASE Recording(r)
    <3>1. disk'.effects = mem.effects /\ mem'.effects = mem.effects
      BY <2>3 DEF Recording, WithRecord, DurableInv, TypeOK, StateTypeOK, EngineState
    <3>2. Records' = Records \cup ({r} \ Unrecorded)
      BY <2>3, RecordEffect DEF Recording, Records, SameKey, WithRecord, DurableInv, TypeOK,
         StateTypeOK, EngineState
    <3> QED
      BY <1>a, <2>2, <3>1, <3>2 DEF TrackedWell
  <2>4. CASE ~Recording(r) /\ x # r
    <3>1. mem' \in {mem, disk} /\ disk' = disk
      BY <1>13, <2>4, RollbackEffect
         DEF RecordReply, Recording, Persist, Goto, DurableInv, TypeOK, RequestTypeOK,
             stateVars
    <3>2. Records' = Records
      BY <2>4, RecordEffect
    <3> QED
      BY <1>c, <1>d, <2>2, <2>4, <3>1, <3>2
  <2>5. CASE ~Recording(r) /\ x = r
    <3>1. CASE status[r] = "ok"
      <4>1. Acknowledged(r) /\ r \in Gated /\ r \notin Unrecorded /\ ~rolledBack[r]
        BY <1>a, <2>1, <2>5, <3>1 DEF Acknowledged, DurableInv, RequestInv, LeadsFlight,
           Gated, GateInv, Over
      <4>2. RollbackDurableMutation(r)
        BY <1>13, <2>5, <4>1 DEF RecordReply, Recording, Persist, Goto, DurableInv, TypeOK,
           RequestTypeOK, Gated
      <4> QED
        BY <1>d, <4>1, <4>2 DEF RollbackDurableMutation, RestoreDurableState, Gated
    <3>2. CASE status[r] # "ok"
      <4>1. UNCHANGED <<mem, disk>>
        BY <1>13, <3>2 DEF RecordReply, Acknowledged, stateVars
      <4> QED
        BY <1>a, <2>5, <3>2, <4>1 DEF TrackedWell, Records
    <3> QED
      BY <3>1, <3>2
  <2> QED
    BY <2>3, <2>4, <2>5
<1>14. CASE SequenceEvent(r)
  <2>1. pc[x] # "record" \/ (x # r /\ pc[x] = "record" /\ owner = r)
    BY <1>14, <1>a DEF SequenceEvent, DurableInv, RequestInv, HoldsGate, Finalizing
  <2>2. pc[x] # "record"
    BY <2>1, <1>a DEF DurableInv, RequestInv, HoldsGate, Finalizing
  <2>3. mem' = disk \/ mem'.effects = mem.effects
    BY <1>14, RollbackEffect DEF SequenceEvent, Persist, PersistFails, DurableInv, TypeOK,
       StateTypeOK, EngineState, stateVars
  <2>4. Records' = Records
    BY <1>14, RecordEffect DEF SequenceEvent, Recording
  <2> QED
    BY <1>c, <1>d, <2>2, <2>3, <2>4, StateEffect
<1>15. CASE Finalize(r)
  <2>1. pc[x] # "record" \/ (x # r /\ pc[x] = "record" /\ owner = r)
    BY <1>15, <1>a DEF Finalize, DurableInv, RequestInv, HoldsGate, Finalizing
  <2>2. pc[x] # "record"
    BY <2>1, <1>a DEF DurableInv, RequestInv, HoldsGate, Finalizing
  <2>3. mem' = disk \/ mem'.effects = mem.effects
    BY <1>15, RollbackEffect DEF Finalize, FlushBeforeReply, Persist, DurableInv, TypeOK,
       StateTypeOK, EngineState, stateVars
  <2>4. Records' = Records
    BY <1>15, RecordEffect DEF Finalize, Recording
  <2> QED
    BY <1>c, <1>d, <2>2, <2>3, <2>4, StateEffect
<1>20. CASE OnError(r)
  <2>1. mem' \in {mem, disk} /\ disk' = disk
    BY <1>20, RollbackEffect DEF OnError, DurableInv
  <2> QED
    BY <1>20, <1>b, <1>d, <2>1 DEF OnError
<1>17. CASE ErrorSend(r)
  <2>1. CASE pc[x] = "record" /\ status[x] = "ok"
    <3>1. owner = x /\ owner # None /\ pc[r] # "errorSend"
      BY <1>a, <2>1, PipelineAssumption
         DEF Alone, DurableInv, RequestInv, HoldsGate, Finalizing
    <3> QED
      BY <1>17, <3>1 DEF ErrorSend, Acquire
  <2>2. CASE ~(pc[x] = "record" /\ status[x] = "ok")
    <3>1. mem'.effects = mem.effects
      BY <1>17 DEF ErrorSend, Persist, PersistFails, stateVars
    <3>2. Records' = Records
      BY <1>17, RecordEffect DEF ErrorSend, Recording
    <3>3. disk' \in {disk, mem'}
      BY StateEffect
    <3> QED
      BY <1>a, <2>2, <3>1, <3>2, <3>3 DEF TrackedWell
  <2> QED
    BY <2>1, <2>2
<1>18. CASE OnResponse(r)
  BY <1>b, <1>18 DEF OnResponse, stateVars, Awaiting
<1>19. CASE Abort(r)
  BY <1>b, <1>19 DEF Abort, stateVars, Awaiting
<1> QED
  BY <1>1, <1>2, <1>3, <1>4, <1>5, <1>6, <1>7, <1>8, <1>9, <1>10, <1>11, <1>12, <1>13, <1>14, <1>15,
     <1>20, <1>17, <1>18, <1>19 DEF Moves, Step

\* A replayed answer is given for a record, and the record's mutation stays.
LEMMA ReplayStep ==
  ASSUME DurableInv, ReplayInv, NEW r \in Requests, Moves(r), NEW x \in Requests, status'[x] = "replay"
  PROVE  \E s \in Requests \ {x} : SameRequest(x, s) /\ Whole(s) \subseteq disk'.effects
<1>1. CASE status[x] = "replay"
  <2>1. PICK s \in Requests \ {x} : SameRequest(x, s) /\ Whole(s) \subseteq disk.effects
    BY <1>1 DEF ReplayInv, ReplayIsDurable
  <2> QED
    BY <2>1, DiskGrows
<1>2. CASE status[x] # "replay"
  <2>1. x = r
    BY <1>2, OthersStay DEF DurableInv
  <2>2. Lookup(r)
    BY <1>2, <2>1 DEF Moves, Step, Send, EnterGate, Resume, HandlerWrite, HandlerFinish,
       HandlerCancel, HandlerRefuse, HandlerThrow, RequestPhase, RunPhase, EnterSend, RecordReply,
       SequenceEvent, Finalize, OnError, ErrorSend, OnResponse, Abort, Answer, DurableInv, TypeOK,
       RequestTypeOK, requestVars
  <2>3. PICK s \in SameKey(r) : Keyed(r) /\ ~Mismatch(r, s)
    BY <1>2, <2>1, <2>2 DEF Lookup, Answer, DurableInv, TypeOK, RequestTypeOK
  <2>4. s \in Records /\ s \in Requests /\ RecordOf(s) /\ KeyOf[s] = KeyOf[r]
    BY <2>3
       DEF SameKey, ReplayInv, RecordInv, Records, DurableInv, TypeOK, StateTypeOK,
           EngineState
  <2>5. s # r
    BY <2>2, <2>4 DEF RecordOf, Replied, Over, Lookup
  <2>6. SameRequest(r, s) /\ Whole(s) \subseteq disk'.effects
    BY <2>3, <2>4, DiskGrows DEF SameRequest, Mismatch, RecordOf
  <2> QED
    BY <2>1, <2>4, <2>5, <2>6
<1> QED
  BY <1>1, <1>2

\* Every step preserves the invariant.
LEMMA ReplayInvStep == DurableInv /\ ReplayInv /\ [Next]_vars => ReplayInv'
<1> SUFFICES ASSUME DurableInv, ReplayInv, [Next]_vars PROVE ReplayInv'
  OBVIOUS
<1>1. ASSUME NEW r \in Requests, Moves(r) PROVE ReplayInv'
  <2>1. GateInv' /\ RecordInv'
    BY <1>1, GateStep, RecordStep DEF ReplayInv
  <2>2. \A x \in Requests : Alone(x)'
    BY <1>1, AloneStep DEF ReplayInv, Alone
  <2>3. \A x \in Tracked : TrackedWell(x)'
    BY <1>1, TrackedStep DEF Tracked, ReplayInv
  <2>4. ReplayIsDurable'
    BY <1>1, ReplayStep DEF ReplayIsDurable, SameRequest, Keyed, Whole
  <2> QED
    BY <2>1, <2>2, <2>3, <2>4 DEF ReplayInv, Tracked, Gated, Keyed
<1>2. CASE DeferredFlush \/ ReadResponse
  <2>1. UNCHANGED <<owner, flight, pc, status, rolledBack>> /\ Quiet
    BY <1>2 DEF DeferredFlush, ReadResponse, gateVars, requestVars
  <2>2. mem' = mem /\ disk' \in {disk, mem}
    BY <1>2 DEF DeferredFlush, ReadResponse, Persist, PersistFails
  <2>3. Records' = Records /\ mem'.idempotencyRecords = Records
    BY <2>2 DEF ReplayInv, RecordInv, Records
  <2>4. disk.effects \subseteq disk'.effects
    BY <2>2 DEF DurableInv, MemoryAhead
  <2>5. GateInv' /\ \A r \in Requests : Alone(r)'
    BY <2>1 DEF ReplayInv, GateInv, HolderAtWork, FlightLed, Alone
  <2>6. RecordInv'
    BY <2>1, <2>3, <2>4 DEF ReplayInv, RecordInv, RecordOf, Whole
  <2>7. ASSUME NEW x \in Tracked PROVE TrackedWell(x)'
    <3>1. pc[x] # "record" /\ TrackedWell(x)
      BY <2>1 DEF Quiet, Running, Tracked, Gated, ReplayInv
    <3> QED
      BY <2>2, <2>3, <3>1 DEF TrackedWell
  <2>8. ReplayIsDurable'
    BY <2>1, <2>4 DEF ReplayInv, ReplayIsDurable
  <2> QED
    BY <2>5, <2>6, <2>7, <2>8 DEF ReplayInv, Tracked, Gated, Keyed
<1>3. CASE Crash
  <2>1. mem' = disk /\ disk' = disk /\ owner' = None /\ rolledBack' = rolledBack
    BY <1>3 DEF Crash
  <2>2. \A k \in Keys : flight'[k] = None
    BY <1>3 DEF Crash
  <2>3. \A r \in Requests : pc'[r] = IF pc[r] = "new" THEN "new" ELSE "done"
    BY <1>3 DEF Crash
  <2>4. \A r \in Requests : status'[r] \in {status[r], "lost"}
    BY <1>3 DEF Crash
  <2>5. GateInv' /\ \A r \in Requests : Alone(r)'
    BY <2>1, <2>2, <2>3, PipelineAssumption
       DEF ReplayInv, GateInv, HolderAtWork, FlightLed, Alone, Over, Gated, Keys
  <2>6. RecordInv'
    <3>1. ASSUME NEW s \in Records PROVE RecordOf(s)'
      <4>1. RecordOf(s) /\ s \in Requests /\ KeyOf[s] \in Keys
        BY DEF ReplayInv, RecordInv, RecordOf, Records, DurableInv, TypeOK, StateTypeOK,
           EngineState, Keys, Keyed
      <4>2. pc'[s] = "done"
        BY <2>3, <4>1 DEF RecordOf, Replied, Over
      <4> QED
        BY <2>1, <2>2, <4>1, <4>2 DEF RecordOf, Replied, Over, Records, Whole, Keyed
    <3> QED
      BY <2>1, <3>1 DEF RecordInv, Records
  <2>7. \A x \in Tracked : TrackedWell(x)'
    BY <2>1 DEF ReplayInv, TrackedWell, Records
  <2>8. ReplayIsDurable'
    BY <2>1, <2>4 DEF ReplayInv, ReplayIsDurable
  <2> QED
    BY <2>5, <2>6, <2>7, <2>8 DEF ReplayInv, Tracked, Gated, Keyed
<1>4. CASE UNCHANGED vars
  BY <1>4 DEF vars, ReplayInv, GateInv, HolderAtWork, FlightLed, Alone, RecordInv, Records,
     RecordOf, TrackedWell, ReplayIsDurable
<1> QED
  BY <1>1, <1>2, <1>3, <1>4 DEF Next, Moves

\* It holds initially.
LEMMA ReplayInit == Init => ReplayInv
BY PipelineAssumption
   DEF Init, ReplayInv, GateInv, HolderAtWork, FlightLed, Alone, RecordInv, Records,
       Tracked, TrackedWell, ReplayIsDurable, Gated

\* The invariant holds in every reachable state.
THEOREM ReplayInvariant == Spec => []ReplayInv
  BY ReplayInit, ReplayInvStep, DurableInvariant, PTL DEF Spec

\* A request is answered with a replay only for a mutation of its kind and key
\* that is on disk and stays there.
THEOREM ReplaysAreDurable == Spec => []ReplayIsDurable
<1>1. ReplayInv => ReplayIsDurable
  BY DEF ReplayInv
<1> QED
  BY <1>1, ReplayInvariant, PTL

\* The request that holds the gate never waits for another one's answer, so no
\* leader waits for a gate its follower holds.
THEOREM HolderWaitsForNobody == Spec => []HolderNeverJoins
<1>1. ReplayInv => HolderNeverJoins
  BY DEF ReplayInv, GateInv, HolderAtWork, HolderNeverJoins, Finalizing, Handling
<1> QED
  BY <1>1, ReplayInvariant, PTL

\* Retries of one keyed request leave one mutation, unless the request is not
\* recorded or is an import.
TrackedAtMostOnce ==
  \A r, s \in Tracked : r # s /\ SameRequest(r, s) => ~(Whole(r) \cup Whole(s) \subseteq disk.effects)

\* Of the retries of one keyed request that are recorded and write no asset
\* objects, one mutation is on disk: a second one would bring a second record.
THEOREM RetriesLeaveOne == Spec => []TrackedAtMostOnce
<1>1. ReplayInv => TrackedAtMostOnce
  BY DEF ReplayInv, RecordInv, RecordOf, TrackedWell, TrackedAtMostOnce, SameRequest, Whole
<1> QED
  BY <1>1, ReplayInvariant, PTL

\* Without archive imports, whose own flush may come before their record, that
\* is every gated request that is recorded.
THEOREM KeyedRetriesLeaveOne ==
  ASSUME Imports = {}
  PROVE  Spec => []KeyedAtMostOnce
<1>1. TrackedAtMostOnce => KeyedAtMostOnce
  BY DEF TrackedAtMostOnce, KeyedAtMostOnce, Tracked, SameRequest, Keyed
<1> QED
  BY <1>1, RetriesLeaveOne, PTL
-------------------------------------------------------------------------------
(***************************************************************************)
(* Published events.                                                       *)
(***************************************************************************)

\* The counter on disk never goes back, and memory is never behind it.
LEMMA CounterStep ==
  ASSUME DurableInv, EventInv, NEW r \in Requests, Moves(r)
  PROVE  disk.eventSequence <= disk'.eventSequence /\ disk'.eventSequence <= mem'.eventSequence
<1>1. mem.eventSequence \in Nat /\ disk.eventSequence \in Nat
  BY DEF DurableInv, TypeOK, StateTypeOK, EngineState
<1>2. mem'.eventSequence \in Nat /\ disk'.eventSequence \in Nat
  BY TypeStep DEF DurableInv, TypeOK, StateTypeOK, EngineState, Next, Moves
<1>3. /\ disk' \in {disk, mem'}
      /\ mem'.eventSequence >= mem.eventSequence \/ mem' = disk
  BY StateEffect
<1> QED
  BY <1>1, <1>2, <1>3 DEF EventInv

\* What was published stays as durable as it was.
LEMMA PublishedStay ==
  ASSUME DurableInv, EventInv, published' = published, disk.effects \subseteq disk'.effects,
         disk'.eventSequence \in Nat, disk.eventSequence <= disk'.eventSequence
  PROVE  PublishedIsDurable'
<1>1. disk.eventSequence \in Nat /\ published \in Seq(Nat \X Requests)
  BY DEF DurableInv, TypeOK, StateTypeOK, EngineState, WorldTypeOK
<1>2. ASSUME Subscribed, NEW i \in DOMAIN published
      PROVE  Whole(published[i][2]) \subseteq disk'.effects /\ published[i][1] <= disk'.eventSequence
  <2>1. Whole(published[i][2]) \subseteq disk.effects /\ published[i][1] <= disk.eventSequence
    BY <1>2 DEF EventInv, PublishedIsDurable
  <2>2. published[i][1] \in Nat
    BY <1>1, <1>2
  <2> QED
    BY <1>1, <2>1, <2>2
<1> QED
  BY <1>2 DEF EventInv, PublishedIsDurable, SequenceNeverReused, Whole

\* The next event is published with its mutation and its number on disk.
LEMMA PublishStep ==
  ASSUME DurableInv, EventInv, NEW r \in Requests, SequenceEvent(r), published' # published
  PROVE  PublishedIsDurable'
<1> DEFINE next == mem.eventSequence + 1
<1>1. mem.eventSequence \in Nat /\ disk.eventSequence \in Nat /\ published \in Seq(Nat \X Requests)
  BY DEF DurableInv, TypeOK, StateTypeOK, EngineState, WorldTypeOK
<1>2. SUFFICES ASSUME Subscribed PROVE PublishedIsDurable'
  BY DEF PublishedIsDurable
<1>3. /\ pc[r] = "sequence" /\ status[r] = "ok" /\ published' = Append(published, <<next, r>>)
      /\ disk' = [mem EXCEPT !.eventSequence = next]
  BY <1>2 DEF SequenceEvent, Persist, PersistFails
<1>4. disk'.eventSequence = next /\ disk'.effects = mem.effects
  BY <1>3 DEF DurableInv, TypeOK, StateTypeOK, EngineState
<1>5. Whole(r) \subseteq mem.effects
  BY <1>3 DEF DurableInv, RequestInv, ReplyPending, Pending
<1>6. /\ Len(published) \in Nat /\ DOMAIN published = 1..Len(published)
      /\ DOMAIN published' = 1..(Len(published) + 1)
      /\ published'[Len(published) + 1] = <<next, r>>
      /\ \A i \in DOMAIN published : published'[i] = published[i]
  BY <1>1, <1>3
<1>7. ASSUME NEW i \in DOMAIN published
      PROVE  /\ published[i][1] \in Nat /\ published[i][1] < next
             /\ Whole(published[i][2]) \subseteq mem.effects
             /\ i > 1 => published[i][1] > published[i - 1][1]
  <2>1. /\ published[i][1] <= disk.eventSequence /\ Whole(published[i][2]) \subseteq disk.effects
        /\ i > 1 => published[i][1] > published[i - 1][1]
    BY <1>2 DEF EventInv, PublishedIsDurable, SequenceNeverReused
  <2>2. published[i][1] \in Nat
    BY <1>1
  <2> QED
    BY <1>1, <2>1, <2>2 DEF EventInv, DurableInv, MemoryAhead
<1>8. ASSUME NEW i \in DOMAIN published'
      PROVE  /\ Whole(published'[i][2]) \subseteq disk'.effects
             /\ published'[i][1] <= disk'.eventSequence
             /\ i > 1 => published'[i][1] > published'[i - 1][1]
  <2>1. CASE i \in DOMAIN published
    <3>1. published'[i] = published[i] /\ (i > 1 => published'[i - 1] = published[i - 1])
      BY <1>6, <2>1
    <3> HIDE DEF next
    <3>2. next \in Nat
      BY <1>1 DEF next
    <3> QED
      BY <1>4, <1>7, <2>1, <3>1, <3>2
  <2>2. CASE i = Len(published) + 1
    <3>1. published'[i] = <<next, r>>
      BY <1>6, <2>2
    <3>2. i > 1 => i - 1 \in DOMAIN published /\ published'[i - 1] = published[i - 1]
      BY <1>6, <2>2
    <3>3. i > 1 => published[i - 1][1] \in Nat /\ published[i - 1][1] < next
      BY <1>7, <3>2
    <3> HIDE DEF next
    <3>4. next \in Nat
      BY <1>1 DEF next
    <3> QED
      BY <1>4, <1>5, <3>1, <3>2, <3>3, <3>4
  <2> QED
    BY <1>6, <2>1, <2>2
<1> QED
  BY <1>8 DEF PublishedIsDurable, SequenceNeverReused, Whole

\* Every step keeps the published events durable and their numbers in order.
LEMMA EventStep == DurableInv /\ EventInv /\ [Next]_vars => EventInv'
<1> SUFFICES ASSUME DurableInv, EventInv, [Next]_vars PROVE EventInv'
  OBVIOUS
<1>1. /\ mem'.eventSequence \in Nat /\ disk'.eventSequence \in Nat
      /\ mem.eventSequence \in Nat /\ disk.eventSequence \in Nat
  BY TypeStep DEF DurableInv, TypeOK, StateTypeOK, EngineState
<1>2. ASSUME NEW r \in Requests, Moves(r) PROVE EventInv'
  <2>1. disk.eventSequence <= disk'.eventSequence /\ disk'.eventSequence <= mem'.eventSequence
    BY <1>2, CounterStep
  <2>2. CASE published' = published
    BY <1>1, <1>2, <2>1, <2>2, DiskGrows, PublishedStay DEF EventInv
  <2>3. CASE published' # published
    <3>1. SequenceEvent(r)
      BY <1>2, <2>3
         DEF Moves, Step, Send, EnterGate, Lookup, Resume, HandlerWrite, HandlerFinish,
             HandlerCancel, HandlerRefuse, HandlerThrow, RequestPhase, RunPhase, EnterSend,
             RecordReply, Finalize, OnError, ErrorSend, OnResponse, Abort
    <3> QED
      BY <2>1, <2>3, <3>1, PublishStep DEF EventInv
  <2> QED
    BY <2>2, <2>3
<1>3. CASE DeferredFlush \/ ReadResponse
  <2>1. mem' = mem /\ disk' \in {disk, mem} /\ published' = published
    BY <1>3 DEF DeferredFlush, ReadResponse, Persist, PersistFails
  <2>2. disk.effects \subseteq disk'.effects /\ disk.eventSequence <= disk'.eventSequence
        /\ disk'.eventSequence <= mem'.eventSequence
    BY <1>1, <2>1 DEF DurableInv, MemoryAhead, EventInv
  <2> QED
    BY <1>1, <2>1, <2>2, PublishedStay DEF EventInv
<1>4. CASE Crash
  <2>1. mem' = disk /\ disk' = disk /\ published' = <<>>
    BY <1>4 DEF Crash
  <2> QED
    BY <1>1, <2>1 DEF EventInv, PublishedIsDurable, SequenceNeverReused
<1>5. CASE UNCHANGED vars
  BY <1>5 DEF vars, EventInv, PublishedIsDurable, SequenceNeverReused, Whole
<1> QED
  BY <1>2, <1>3, <1>4, <1>5 DEF Next, Moves

\* With a subscription, an event is broadcast once its mutation and its number
\* are on disk, and over one connection the numbers grow.
THEOREM EventsAreDurable == Spec => []PublishedIsDurable
<1>1. Init => EventInv
  BY DEF Init, EventInv, PublishedIsDurable, SequenceNeverReused
<1>2. EventInv => PublishedIsDurable
  BY DEF EventInv
<1> QED
  BY <1>1, <1>2, EventStep, DurableInvariant, PTL DEF Spec

-------------------------------------------------------------------------------
(***************************************************************************)
(* MutationPipeline implements AtomicMutations where nothing but the       *)
(* holder of the gate changes the state (Plain).                           *)
(***************************************************************************)
\* No phased routes, no subscription and no GET that saves: each lets a change
\* reach the disk other than by its own request's last hooks.
Plain == Phased = {} /\ Subscribed = FALSE /\ ReadsSave = FALSE

-------------------------------------------------------------------------------
(***************************************************************************)
(* The inductive invariant: whose changes are not on disk yet.             *)
(***************************************************************************)

\* A request that succeeded and is on its way out, or failed and is not rolled
\* back yet: what is in memory may be its own.
Closing(r) == (pc[r] \in Finalizing /\ status[r] = "ok") \/ (pc[r] = "failed" /\ ~rolledBack[r])

\* It has the hooks to itself, so that no error response flushes its changes.
Undisturbed(r) == Closing(r) => \A s \in Requests \ {r} : pc[s] \notin {"failed", "errorSend"}

\* The writer is dirty only for it, and what is only in memory is the holder's.
\* An import changes the state at once at its end, and only an import is told to
\* stop.
DirtyForOne == dirty => owner # None /\ Closing(owner)
UnsavedIsOwn(r) ==
  Whole(r) \cap (mem.effects \ disk.effects) # {} =>
    owner = r /\ ((pc[r] = "half" /\ r \notin Imports) \/ Closing(r))

\* Without a key, a change is on disk once its success was answered.
SavedLast(r) ==
  ~Keyed(r) /\ Whole(r) \cap disk.effects # {} => pc[r] = "done" /\ status[r] = "ok"

AtomicInv ==
  /\ DirtyForOne
  /\ \A r \in Requests :
       Undisturbed(r) /\ UnsavedIsOwn(r) /\ SavedLast(r) /\ (signalled[r] => r \in Imports)
  /\ \A r \in Imports \ Unrecorded : TrackedWell(r)

\* Where the writer may be dirty or changes may be unsaved, the gate is held.
LEMMA ClosingHolds ==
  ASSUME Plain, DurableInv, NEW r \in Requests, Closing(r)
  PROVE  owner = r /\ owner # None
BY PipelineAssumption
   DEF Plain, DurableInv, RequestInv, HoldsGate, FailedHolds, Closing, Gated

\* Without phased routes, some steps are never taken.
LEMMA PlainSteps ==
  ASSUME Plain, DurableInv, AtomicInv, NEW r \in Requests
  PROVE  r \in Gated /\ ~RunPhase(r) /\ ~EnterSend(r)
BY DEF Plain, DurableInv, RequestInv, Placed, AtomicInv, RunPhase, EnterSend, Gated

\* A gated request gives the gate back before its response leaves.
LEMMA GivenBack ==
  ASSUME DurableInv, GateInv, NEW r \in Gated
  PROVE  ~OnResponse(r)
BY PipelineAssumption
   DEF DurableInv, GateInv, HolderAtWork, OnResponse, Gated, Handling, Finalizing

\* The others are neither rolled back nor told to stop.
LEMMA OthersUntouched ==
  ASSUME DurableInv, NEW r \in Requests, Moves(r), NEW x \in Requests, x # r
  PROVE  rolledBack'[x] = rolledBack[x]
<1> USE DEF DurableInv, TypeOK, RequestTypeOK, requestVars
<1>1. CASE Send(r)
  BY <1>1 DEF Send
<1>2. CASE EnterGate(r)
  BY <1>2 DEF EnterGate
<1>3. CASE Lookup(r)
  BY <1>3 DEF Lookup
<1>4. CASE Resume(r)
  BY <1>4 DEF Resume
<1>5. CASE HandlerWrite(r)
  BY <1>5 DEF HandlerWrite
<1>6. CASE HandlerFinish(r)
  BY <1>6 DEF HandlerFinish
<1>7. CASE HandlerCancel(r)
  BY <1>7 DEF HandlerCancel
<1>8. CASE HandlerRefuse(r)
  BY <1>8 DEF HandlerRefuse
<1>9. CASE HandlerThrow(r)
  BY <1>9 DEF HandlerThrow
<1>10. CASE RequestPhase(r)
  BY <1>10 DEF RequestPhase
<1>11. CASE RunPhase(r)
  BY <1>11 DEF RunPhase
<1>12. CASE EnterSend(r)
  BY <1>12 DEF EnterSend
<1>13. CASE RecordReply(r)
  BY <1>13 DEF RecordReply, RollbackDurableMutation
<1>14. CASE SequenceEvent(r)
  BY <1>14 DEF SequenceEvent
<1>15. CASE Finalize(r)
  BY <1>15 DEF Finalize, RollbackDurableMutation
<1>20. CASE OnError(r)
  BY <1>20 DEF OnError, RollbackDurableMutation
<1>17. CASE ErrorSend(r)
  BY <1>17 DEF ErrorSend
<1>18. CASE OnResponse(r)
  BY <1>18 DEF OnResponse
<1>19. CASE Abort(r)
  BY <1>19 DEF Abort
<1> QED
  BY <1>1, <1>2, <1>3, <1>4, <1>5, <1>6, <1>7, <1>8, <1>9, <1>10, <1>11, <1>12, <1>13, <1>14, <1>15,
     <1>20, <1>17, <1>18, <1>19 DEF Moves, Step

\* An abort is signalled to imports only.
LEMMA SignalStep ==
  ASSUME Plain, DurableInv, AtomicInv, NEW r \in Requests, Moves(r), NEW x \in Requests, signalled'[x]
  PROVE  x \in Imports
<1> USE DEF Plain, DurableInv, AtomicInv, TypeOK, RequestTypeOK, requestVars
<1>1. CASE Send(r)
  BY <1>1 DEF Send
<1>2. CASE EnterGate(r)
  BY <1>2 DEF EnterGate
<1>3. CASE Lookup(r)
  BY <1>3 DEF Lookup
<1>4. CASE Resume(r)
  BY <1>4 DEF Resume
<1>5. CASE HandlerWrite(r)
  BY <1>5 DEF HandlerWrite
<1>6. CASE HandlerFinish(r)
  BY <1>6 DEF HandlerFinish
<1>7. CASE HandlerCancel(r)
  BY <1>7 DEF HandlerCancel
<1>8. CASE HandlerRefuse(r)
  BY <1>8 DEF HandlerRefuse
<1>9. CASE HandlerThrow(r)
  BY <1>9 DEF HandlerThrow
<1>10. CASE RequestPhase(r)
  BY <1>10 DEF RequestPhase
<1>11. CASE RunPhase(r)
  BY <1>11 DEF RunPhase
<1>12. CASE EnterSend(r)
  BY <1>12 DEF EnterSend
<1>13. CASE RecordReply(r)
  BY <1>13 DEF RecordReply
<1>14. CASE SequenceEvent(r)
  BY <1>14 DEF SequenceEvent
<1>15. CASE Finalize(r)
  BY <1>15 DEF Finalize
<1>20. CASE OnError(r)
  BY <1>20 DEF OnError
<1>17. CASE ErrorSend(r)
  BY <1>17 DEF ErrorSend
<1>18. CASE OnResponse(r)
  BY <1>18 DEF OnResponse
<1>19. CASE Abort(r)
  BY <1>19 DEF Abort
<1> QED
  BY <1>1, <1>2, <1>3, <1>4, <1>5, <1>6, <1>7, <1>8, <1>9, <1>10, <1>11, <1>12, <1>13, <1>14, <1>15,
     <1>20, <1>17, <1>18, <1>19 DEF Moves, Step

\* A request starts to close when nothing else runs, and others do not fail
\* while it closes.
LEMMA UndisturbedStep ==
  ASSUME Plain, DurableInv, ReplayInv, AtomicInv, NEW r \in Requests, Moves(r),
         NEW x \in Requests, Closing(x)', NEW s \in Requests \ {x}
  PROVE  pc'[s] \notin {"failed", "errorSend"}
<1>1. Send(r) \/ Step(r) \/ Abort(r)
  BY DEF Moves
<1>2. ASSUME Closing(x), pc'[s] \in {"failed", "errorSend"} PROVE FALSE
  <2>1. owner = x /\ owner # None
    BY <1>2, ClosingHolds
  <2>2. pc[s] \notin {"failed", "errorSend"}
    BY <1>2 DEF AtomicInv, Undisturbed
  <2>3. s = r
    BY <1>2, <2>2, OthersStay DEF DurableInv
  <2>4. ~Quiet /\ pc[r] \notin Finalizing
    BY <1>2, <2>1, <2>3
       DEF Closing, Quiet, Running, Finalizing, DurableInv, RequestInv, HoldsGate
  <2> QED
    BY <1>1, <1>2, <2>1, <2>2, <2>3, <2>4
       DEF Step, Send, EnterGate, Lookup, Resume, HandlerWrite, HandlerFinish,
           HandlerCancel, HandlerRefuse, HandlerThrow, RequestPhase, RunPhase, EnterSend,
           RecordReply, SequenceEvent, Finalize, OnError, ErrorSend, OnResponse, Abort,
           Acquire, Respond, Enqueue, Goto, Finalizing, DurableInv, TypeOK, RequestTypeOK,
           requestVars
<1>3. CASE ~Closing(x)
  <2>1. x = r
    BY <1>3, OthersStay, OthersUntouched DEF Closing, DurableInv
  <2>2. HandlerFinish(r) \/ HandlerThrow(r)
    <3>1. CASE RecordReply(r) \/ Finalize(r) \/ OnError(r)
      BY <1>3, <2>1, <3>1, RollbackEffect
         DEF RecordReply, Finalize, OnError, Acknowledged, Closing, Finalizing, Goto,
             Answer, DurableInv, TypeOK, RequestTypeOK, Plain, Gated, Enqueue
    <3>2. CASE ~(RecordReply(r) \/ Finalize(r) \/ OnError(r))
      BY <1>1, <1>3, <2>1, <3>2, PlainSteps
         DEF Step, Send, EnterGate, Lookup, Resume, HandlerWrite, HandlerFinish,
             HandlerCancel, HandlerRefuse, HandlerThrow, RequestPhase, RunPhase, EnterSend,
             RecordReply, SequenceEvent, Finalize, OnError, ErrorSend, OnResponse, Abort,
             Respond, Enqueue, Closing, Finalizing, Goto, Answer, DurableInv, TypeOK,
             RequestTypeOK, requestVars, Handling
    <3> QED
      BY <3>1, <3>2
  <2>3. pc[s] \notin {"failed", "errorSend"}
    BY <2>2 DEF HandlerFinish, HandlerThrow, Quiet, Running
  <2> QED
    BY <2>1, <2>3, OthersStay DEF DurableInv
<1> QED
  BY <1>2, <1>3

\* An error response finds nothing to flush: the changes of whoever closes are
\* safe from it.
LEMMA CleanError ==
  ASSUME Plain, DurableInv, AtomicInv, NEW r \in Requests, ErrorSend(r)
  PROVE  UNCHANGED stateVars /\ ~dirty
<1>1. SUFFICES ASSUME dirty PROVE FALSE
  BY DEF ErrorSend, DurableInv, TypeOK, StateTypeOK
<1>2. owner # None /\ Closing(owner) /\ owner \in Requests
  BY <1>1 DEF AtomicInv, DirtyForOne, DurableInv, TypeOK, GateTypeOK
<1>3. pc[r] = "errorSend"
  BY <1>2 DEF ErrorSend, Acquire
<1>4. r # owner
  BY <1>2, <1>3 DEF Closing, Finalizing
<1> QED
  BY <1>2, <1>3, <1>4 DEF AtomicInv, Undisturbed

\* Whoever is in the middle of its handler finds the writer clean.
LEMMA CleanHalf ==
  ASSUME Plain, DurableInv, AtomicInv, NEW r \in Requests, pc[r] = "half"
  PROVE  ~dirty
BY DEF Plain, DurableInv, RequestInv, Placed, HoldsGate, Handling, AtomicInv, DirtyForOne, Closing,
   Finalizing

\* Only a recorded answer and the flush before a reply write the state.
LEMMA DiskStep ==
  ASSUME Plain, DurableInv, AtomicInv, NEW r \in Requests, Moves(r)
  PROVE  \/ disk' = disk
         \/ /\ disk' = mem' /\ mem'.effects = mem.effects
            /\ \/ pc[r] = "record" /\ status[r] = "ok" /\ Keyed(r)
               \/ pc[r] = "finalize" /\ pc'[r] = "done" /\ status'[r] = status[r]
<1>1. CASE Send(r)
  BY <1>1 DEF Send, stateVars
<1>2. CASE EnterGate(r)
  BY <1>2 DEF EnterGate, stateVars
<1>3. CASE Lookup(r)
  BY <1>3 DEF Lookup, stateVars
<1>4. CASE Resume(r)
  BY <1>4 DEF Resume, stateVars
<1>5. CASE HandlerWrite(r)
  BY <1>5 DEF HandlerWrite
<1>6. CASE HandlerFinish(r)
  BY <1>6, CleanHalf DEF HandlerFinish, Save
<1>7. CASE HandlerCancel(r)
  BY <1>7 DEF HandlerCancel, stateVars
<1>8. CASE HandlerRefuse(r)
  BY <1>8 DEF HandlerRefuse, stateVars
<1>9. CASE HandlerThrow(r)
  BY <1>9 DEF HandlerThrow, stateVars
<1>10. CASE RequestPhase(r)
  BY <1>10 DEF RequestPhase, stateVars
<1>11. CASE RunPhase(r)
  BY <1>11, PlainSteps
<1>12. CASE EnterSend(r)
  BY <1>12, PlainSteps
<1>13. CASE RecordReply(r)
  <2>1. CASE Acknowledged(r) /\ Persist(WithRecord(r))
    BY <1>13, <2>1
       DEF RecordReply, Persist, WithRecord, Acknowledged, Leads, DurableInv, TypeOK,
           StateTypeOK, EngineState
  <2>2. CASE UNCHANGED disk
    BY <2>2
  <2> QED
    BY <1>13, <2>1, <2>2, RollbackEffect DEF RecordReply, DurableInv, stateVars
<1>14. CASE SequenceEvent(r)
  BY <1>14 DEF SequenceEvent, Plain, stateVars
<1>15. CASE Finalize(r)
  <2>1. CASE FlushBeforeReply(r) /\ Goto(r, "done") /\ status' = status
    <3>1. disk' = disk \/ (disk' = mem' /\ mem' = mem)
      BY <2>1 DEF FlushBeforeReply, Persist, stateVars
    <3>2. pc'[r] = "done"
      BY <2>1 DEF Goto, DurableInv, TypeOK, RequestTypeOK
    <3> QED
      BY <1>15, <2>1, <3>1, <3>2 DEF Finalize
  <2>2. CASE RollbackDurableMutation(r)
    BY <2>2, RollbackEffect DEF DurableInv
  <2> QED
    BY <1>15, <2>1, <2>2 DEF Finalize
<1>20. CASE OnError(r)
  BY <1>20, RollbackEffect DEF OnError, DurableInv
<1>17. CASE ErrorSend(r)
  BY <1>17, CleanError DEF stateVars
<1>18. CASE OnResponse(r)
  BY <1>18 DEF OnResponse, stateVars
<1>19. CASE Abort(r)
  BY <1>19 DEF Abort, stateVars
<1> QED
  BY <1>1, <1>2, <1>3, <1>4, <1>5, <1>6, <1>7, <1>8, <1>9, <1>10, <1>11, <1>12, <1>13, <1>14, <1>15,
     <1>20, <1>17, <1>18, <1>19 DEF Moves, Step

\* A step leaves only changes of its own request unsaved that were not before.
LEMMA UnsavedEffect ==
  ASSUME Plain, DurableInv, AtomicInv, NEW r \in Requests, Moves(r),
         NEW e \in mem'.effects, e \notin disk'.effects
  PROVE  (e \in mem.effects /\ e \notin disk.effects) \/ e \in Whole(r)
<1>1. CASE Send(r)
  BY <1>1 DEF Send, stateVars
<1>2. CASE EnterGate(r)
  BY <1>2 DEF EnterGate, stateVars
<1>3. CASE Lookup(r)
  BY <1>3 DEF Lookup, stateVars
<1>4. CASE Resume(r)
  BY <1>4 DEF Resume, stateVars
<1>5. CASE HandlerWrite(r)
  BY <1>5 DEF HandlerWrite, Whole, DurableInv, TypeOK, StateTypeOK, EngineState
<1>6. CASE HandlerFinish(r)
  <2>1. mem' = [mem EXCEPT !.effects = @ \cup Whole(r)] /\ disk' = disk
    BY <1>6, CleanHalf DEF HandlerFinish, Save
  <2> QED
    BY <2>1 DEF DurableInv, TypeOK, StateTypeOK, EngineState
<1>7. CASE HandlerCancel(r)
  BY <1>7 DEF HandlerCancel, stateVars
<1>8. CASE HandlerRefuse(r)
  BY <1>8 DEF HandlerRefuse, stateVars
<1>9. CASE HandlerThrow(r)
  BY <1>9 DEF HandlerThrow, stateVars
<1>10. CASE RequestPhase(r)
  BY <1>10 DEF RequestPhase, stateVars
<1>11. CASE RunPhase(r)
  BY <1>11, PlainSteps
<1>12. CASE EnterSend(r)
  BY <1>12, PlainSteps
<1>13. CASE RecordReply(r)
  BY <1>13, RollbackEffect
     DEF RecordReply, Persist, WithRecord, DurableInv, TypeOK, StateTypeOK, EngineState,
         stateVars
<1>14. CASE SequenceEvent(r)
  BY <1>14
     DEF SequenceEvent, Persist, PersistFails, DurableInv, TypeOK, StateTypeOK, EngineState,
         stateVars
<1>15. CASE Finalize(r)
  BY <1>15, RollbackEffect
     DEF Finalize, FlushBeforeReply, Persist, DurableInv, TypeOK, StateTypeOK, EngineState,
         stateVars
<1>20. CASE OnError(r)
  BY <1>20, RollbackEffect DEF OnError, DurableInv
<1>17. CASE ErrorSend(r)
  BY <1>17, CleanError DEF stateVars
<1>18. CASE OnResponse(r)
  BY <1>18 DEF OnResponse, stateVars
<1>19. CASE Abort(r)
  BY <1>19 DEF Abort, stateVars
<1> QED
  BY <1>1, <1>2, <1>3, <1>4, <1>5, <1>6, <1>7, <1>8, <1>9, <1>10, <1>11, <1>12, <1>13, <1>14, <1>15,
     <1>20, <1>17, <1>18, <1>19 DEF Moves, Step

\* The writer is dirty for the request that closes, and clean when it is done.
LEMMA DirtyStep ==
  ASSUME Plain, DurableInv, ReplayInv, AtomicInv, NEW r \in Requests, Moves(r), dirty'
  PROVE  owner' # None /\ Closing(owner)'
<1>a. /\ r \in Gated /\ GateInv /\ dirty'
      /\ dirty => owner \in Requests /\ owner # None /\ Closing(owner)
  BY PlainSteps DEF ReplayInv, AtomicInv, DirtyForOne, DurableInv, TypeOK, GateTypeOK
<1>1. ASSUME dirty, owner # r PROVE owner' # None /\ Closing(owner)'
  <2>1. owner' = owner
    BY <1>a, <1>1, OthersKeep DEF DurableInv
  <2>2. /\ pc'[owner] = pc[owner] /\ status'[owner] = status[owner]
        /\ rolledBack'[owner] = rolledBack[owner]
    BY <1>a, <1>1, OthersStay, OthersUntouched DEF DurableInv
  <2> QED
    BY <1>a, <1>1, <2>1, <2>2 DEF Closing
<1>b. SUFFICES ASSUME dirty => owner = r PROVE owner' # None /\ Closing(owner)'
  BY <1>1
<1>2. CASE Send(r)
  BY <1>a, <1>b, <1>2 DEF Send, stateVars, Closing, Finalizing, Awaiting
<1>3. CASE EnterGate(r)
  BY <1>a, <1>b, <1>3 DEF EnterGate, stateVars, Closing, Finalizing, Awaiting
<1>4. CASE Lookup(r)
  BY <1>a, <1>b, <1>4 DEF Lookup, stateVars, Closing, Finalizing, Awaiting
<1>5. CASE Resume(r)
  BY <1>a, <1>b, <1>5 DEF Resume, stateVars, Closing, Finalizing, Awaiting
<1>6. CASE HandlerWrite(r)
  BY <1>a, <1>b, <1>6 DEF HandlerWrite, stateVars, Closing, Finalizing, Awaiting
<1>7. CASE HandlerFinish(r)
  <2>1. owner = r /\ owner' = r /\ pc'[r] = "record" /\ status'[r] = "ok"
    BY <1>a, <1>7
       DEF HandlerFinish, Respond, Goto, Answer, DurableInv, RequestInv, HoldsGate,
           Handling, TypeOK, RequestTypeOK, Plain
  <2> QED
    BY <1>a, <2>1, PipelineAssumption DEF Closing, Finalizing
<1>8. CASE HandlerCancel(r)
  BY <1>a, <1>b, <1>8 DEF HandlerCancel, stateVars, Closing, Finalizing
<1>9. CASE HandlerRefuse(r)
  BY <1>a, <1>b, <1>9 DEF HandlerRefuse, stateVars, Closing, Finalizing, Awaiting
<1>10. CASE HandlerThrow(r)
  BY <1>a, <1>b, <1>10 DEF HandlerThrow, stateVars, Closing, Finalizing, Awaiting
<1>11. CASE RequestPhase(r)
  BY <1>a, <1>b, <1>11 DEF RequestPhase, stateVars, Closing, Finalizing, Awaiting
<1>12. CASE RunPhase(r)
  BY <1>12, PlainSteps
<1>13. CASE EnterSend(r)
  BY <1>13, PlainSteps
<1>14. CASE RecordReply(r)
  <2>1. owner = r /\ owner' = r /\ owner # None /\ ~rolledBack[r]
    BY <1>a, <1>14, PipelineAssumption
       DEF RecordReply, gateVars, DurableInv, RequestInv, HoldsGate, Finalizing, GateInv,
           Over
  <2>2. dirty => status[r] = "ok"
    BY <1>14, <2>1 DEF RecordReply, AtomicInv, DirtyForOne, Closing
  <2>3. CASE Acknowledged(r) /\ Persist(WithRecord(r))
    BY <1>a, <2>3 DEF Persist
  <2>4. CASE pc'[r] = "failed" /\ UNCHANGED rolledBack
    BY <2>1, <2>4 DEF Closing
  <2>5. CASE RollbackDurableMutation(r)
    BY <1>a, <2>1, <2>5 DEF RollbackDurableMutation, RestoreDurableState, Gated
  <2>6. CASE Goto(r, "sequence") /\ UNCHANGED <<stateVars, status>>
    BY <1>a, <2>1, <2>2, <2>6 DEF stateVars, Goto, Closing, Finalizing, DurableInv, TypeOK,
       RequestTypeOK
  <2>7. Goto(r, "failed") => pc'[r] = "failed"
    BY DEF Goto, DurableInv, TypeOK, RequestTypeOK
  <2> QED
    BY <1>a, <1>14, <2>3, <2>4, <2>5, <2>6, <2>7 DEF RecordReply, Gated
<1>15. CASE SequenceEvent(r)
  <2>1. owner = r /\ owner' = r /\ owner # None /\ ~rolledBack[r]
    BY <1>a, <1>15, PipelineAssumption DEF SequenceEvent, gateVars, DurableInv, RequestInv,
       HoldsGate, Finalizing, GateInv, Over
  <2>2. dirty' => status[r] = "ok"
    BY <1>15, <2>1 DEF SequenceEvent, AtomicInv, DirtyForOne, Closing, stateVars
  <2>3. pc'[r] = "finalize" /\ status' = status
    BY <1>15 DEF SequenceEvent, Goto, Plain, DurableInv, TypeOK, RequestTypeOK
  <2> QED
    BY <2>1, <2>2, <2>3 DEF Closing, Finalizing
<1>16. CASE Finalize(r)
  <2>1. ~rolledBack[r]
    BY <1>a, <1>16 DEF Finalize, GateInv, Over
  <2>2. CASE FlushBeforeReply(r)
    BY <1>a, <2>2 DEF FlushBeforeReply, Persist, stateVars
  <2>3. CASE RollbackDurableMutation(r)
    BY <1>a, <2>1, <2>3 DEF RollbackDurableMutation, RestoreDurableState, Gated
  <2> QED
    BY <1>16, <2>2, <2>3 DEF Finalize
<1>21. CASE OnError(r)
  <2>1. dirty => owner = r
    BY <1>a, <1>b
  <2>2. dirty => ~rolledBack[r]
    BY <1>a, <1>21, <2>1 DEF OnError, AtomicInv, DirtyForOne, Closing, Finalizing
  <2> QED
    BY <1>a, <1>21, <2>2 DEF OnError, RollbackDurableMutation, RestoreDurableState, Gated
<1>18. CASE ErrorSend(r)
  BY <1>a, <1>18, CleanError DEF stateVars
<1>19. CASE OnResponse(r)
  BY <1>a, <1>19, GivenBack
<1>20. CASE Abort(r)
  BY <1>a, <1>b, <1>20 DEF Abort, stateVars, Closing, Finalizing, Awaiting
<1> QED
  BY <1>2, <1>3, <1>4, <1>5, <1>6, <1>7, <1>8, <1>9, <1>10, <1>11, <1>12, <1>13, <1>14, <1>15, <1>16,
     <1>21, <1>18, <1>19, <1>20 DEF Moves, Step

\* Changes that are not on disk yet are those of the holder: what a request
\* leaves unsaved by its own step.
LEMMA OwnUnsaved ==
  ASSUME Plain, DurableInv, ReplayInv, AtomicInv, NEW r \in Requests, Moves(r),
         NEW e \in Whole(r), e \in mem'.effects, e \notin disk'.effects
  PROVE  owner' = r /\ ((pc'[r] = "half" /\ r \notin Imports) \/ Closing(r)')
<1>a. r \in Gated /\ GateInv /\ e \in mem'.effects /\ e \notin disk'.effects
  BY PlainSteps DEF ReplayInv
<1>b. e \in mem.effects /\ e \notin disk.effects =>
        owner = r /\ ((pc[r] = "half" /\ r \notin Imports) \/ Closing(r))
  BY DEF AtomicInv, UnsavedIsOwn
<1>1. CASE Send(r)
  BY <1>a, <1>b, <1>1 DEF Send, Closing, Finalizing, stateVars
<1>2. CASE EnterGate(r)
  BY <1>a, <1>b, <1>2 DEF EnterGate, Closing, Finalizing, stateVars
<1>3. CASE Lookup(r)
  BY <1>a, <1>b, <1>3 DEF Lookup, Closing, Finalizing, stateVars
<1>4. CASE Resume(r)
  BY <1>a, <1>b, <1>4 DEF Resume, Closing, Finalizing, stateVars
<1>5. CASE HandlerWrite(r)
  <2>1. owner' = r /\ pc[r] = "handling" /\ pc'[r] = "half"
    BY <1>a, <1>5
       DEF HandlerWrite, Goto, gateVars, DurableInv, RequestInv, HoldsGate, Handling,
           TypeOK, RequestTypeOK
  <2>2. r \in Imports => mem'.effects = mem.effects /\ disk' = disk
    BY <1>5 DEF HandlerWrite, DurableInv, TypeOK, StateTypeOK, EngineState
  <2> QED
    BY <1>a, <1>b, <2>1, <2>2 DEF Closing, Finalizing
<1>6. CASE HandlerFinish(r)
  <2>1. owner' = r /\ pc'[r] = "record" /\ status'[r] = "ok"
    BY <1>a, <1>6
       DEF HandlerFinish, Respond, Goto, Answer, DurableInv, RequestInv, HoldsGate,
           Handling, TypeOK, RequestTypeOK, Plain
  <2> QED
    BY <2>1 DEF Closing, Finalizing
<1>7. CASE HandlerCancel(r)
  <2>1. r \in Imports /\ pc[r] = "half"
    BY <1>7 DEF HandlerCancel, AtomicInv
  <2> QED
    BY <1>b, <1>7, <2>1 DEF HandlerCancel, stateVars, Closing, Finalizing
<1>8. CASE HandlerRefuse(r)
  BY <1>a, <1>b, <1>8 DEF HandlerRefuse, Closing, Finalizing, stateVars
<1>9. CASE HandlerThrow(r)
  <2>1. owner = r /\ pc[r] = "half"
    BY <1>a, <1>b, <1>9 DEF HandlerThrow, Closing, Finalizing, stateVars
  <2>2. ~rolledBack[r] /\ rolledBack' = rolledBack /\ owner' = r /\ pc'[r] = "failed"
    BY <1>a, <1>9, <2>1 DEF HandlerThrow, GateInv, Over, Goto, gateVars, DurableInv, TypeOK,
       RequestTypeOK
  <2> QED
    BY <2>2 DEF Closing
<1>10. CASE RequestPhase(r)
  BY <1>a, <1>b, <1>10 DEF RequestPhase, Closing, Finalizing, stateVars
<1>11. CASE RunPhase(r)
  BY <1>11, PlainSteps
<1>12. CASE EnterSend(r)
  BY <1>12, PlainSteps
<1>13. CASE RecordReply(r)
  <2>1. owner' = r /\ ~rolledBack[r]
    BY <1>a, <1>13 DEF RecordReply, gateVars, DurableInv, RequestInv, HoldsGate, Finalizing,
       GateInv, Over
  <2>2. CASE Acknowledged(r) /\ Persist(WithRecord(r))
    BY <1>a, <2>2 DEF Persist
  <2>3. CASE RollbackDurableMutation(r)
    BY <1>a, <2>1, <2>3 DEF RollbackDurableMutation, RestoreDurableState, Gated
  <2>4. CASE UNCHANGED <<mem, disk, rolledBack>> /\ Goto(r, "failed")
    BY <2>1, <2>4 DEF Closing, Goto, DurableInv, TypeOK, RequestTypeOK
  <2>5. CASE UNCHANGED <<stateVars, status>> /\ Goto(r, "sequence")
    <3>1. status[r] = "ok"
      BY <1>a, <1>b, <1>13, <2>5 DEF RecordReply, Closing, stateVars
    <3> QED
      BY <2>1, <2>5, <3>1 DEF Closing, Finalizing, Goto, DurableInv, TypeOK, RequestTypeOK
  <2> QED
    BY <1>a, <1>13, <2>2, <2>3, <2>4, <2>5 DEF RecordReply, Gated
<1>14. CASE SequenceEvent(r)
  <2>1. owner' = r /\ ~rolledBack[r]
    BY <1>a, <1>14
       DEF SequenceEvent, gateVars, DurableInv, RequestInv, HoldsGate, Finalizing, GateInv,
           Over
  <2>2. mem'.effects = mem.effects /\ disk' = disk /\ status' = status /\ pc'[r] = "finalize"
    BY <1>14 DEF SequenceEvent, Plain, Goto, DurableInv, TypeOK, StateTypeOK, EngineState,
       RequestTypeOK, stateVars
  <2>3. status[r] = "ok"
    BY <1>a, <1>b, <1>14, <2>2 DEF SequenceEvent, Closing
  <2> QED
    BY <2>1, <2>2, <2>3 DEF Closing, Finalizing
<1>15. CASE Finalize(r)
  <2>1. ~rolledBack[r] /\ pc[r] = "finalize"
    BY <1>a, <1>15 DEF Finalize, GateInv, Over
  <2>2. CASE FlushBeforeReply(r)
    <3>1. CASE dirty
      BY <1>a, <2>2, <3>1 DEF FlushBeforeReply, Persist
    <3>2. CASE ~dirty
      <4>1. UNCHANGED <<mem, disk>>
        BY <2>2, <3>2 DEF FlushBeforeReply, stateVars
      <4>2. status[r] = "ok"
        BY <1>a, <1>b, <2>1, <4>1 DEF Closing
      <4>3. Whole(r) \subseteq disk.effects
        BY <2>1, <3>2, <4>2 DEF DurableInv, RequestInv, ReplyPending, Pending
      <4> QED
        BY <1>a, <4>1, <4>3
    <3> QED
      BY <3>1, <3>2
  <2>3. CASE RollbackDurableMutation(r)
    BY <1>a, <2>1, <2>3 DEF RollbackDurableMutation, RestoreDurableState, Gated
  <2> QED
    BY <1>15, <2>2, <2>3 DEF Finalize
<1>20. CASE OnError(r)
  <2>1. CASE rolledBack[r]
    <3>1. UNCHANGED <<mem, disk>>
      BY <1>20, <2>1 DEF OnError, RollbackDurableMutation
    <3> QED
      BY <1>a, <1>b, <1>20, <2>1, <3>1 DEF OnError, Closing, Finalizing
  <2>2. CASE ~rolledBack[r]
    BY <1>a, <1>20, <2>2 DEF OnError, RollbackDurableMutation, RestoreDurableState, Gated
  <2> QED
    BY ONLY <2>1, <2>2
<1>17. CASE ErrorSend(r)
  BY <1>a, <1>b, <1>17, CleanError DEF ErrorSend, Closing, Finalizing, stateVars
<1>18. CASE OnResponse(r)
  BY <1>a, <1>18, GivenBack
<1>19. CASE Abort(r)
  BY <1>a, <1>b, <1>19 DEF Abort, Closing, Finalizing, stateVars, gateVars
<1> QED
  BY <1>1, <1>2, <1>3, <1>4, <1>5, <1>6, <1>7, <1>8, <1>9, <1>10, <1>11, <1>12, <1>13, <1>14, <1>15,
     <1>20, <1>17, <1>18, <1>19 DEF Moves, Step

\* The others' unsaved changes are theirs as before.
LEMMA UnsavedStep ==
  ASSUME Plain, DurableInv, ReplayInv, AtomicInv, NEW r \in Requests, Moves(r), NEW x \in Requests
  PROVE  UnsavedIsOwn(x)'
<1>1. CASE x # r
  <2>1. SUFFICES ASSUME NEW e \in Whole(x), e \in mem'.effects, e \notin disk'.effects
                 PROVE  owner' = x /\ ((pc'[x] = "half" /\ x \notin Imports) \/ Closing(x)')
    BY DEF UnsavedIsOwn, Whole
  <2>2. e \in mem.effects /\ e \notin disk.effects
    BY <1>1, <2>1, UnsavedEffect DEF Whole
  <2>3. owner = x /\ ((pc[x] = "half" /\ x \notin Imports) \/ Closing(x))
    BY <2>1, <2>2 DEF AtomicInv, UnsavedIsOwn
  <2> QED
    BY <1>1, <2>3, OthersStay, OthersKeep, OthersUntouched DEF DurableInv, Closing
<1>2. CASE x = r
  <2>1. SUFFICES ASSUME NEW e \in Whole(r), e \in mem'.effects, e \notin disk'.effects
                 PROVE  owner' = r /\ ((pc'[r] = "half" /\ r \notin Imports) \/ Closing(r)')
    BY <1>2 DEF UnsavedIsOwn, Whole
  <2> QED
    BY <2>1, OwnUnsaved
<1> QED
  BY <1>1, <1>2

\* A change without a key is on disk from the flush before its answer on.
LEMMA SavedStep ==
  ASSUME Plain, DurableInv, ReplayInv, AtomicInv, NEW r \in Requests, Moves(r), NEW x \in Requests
  PROVE  SavedLast(x)'
<1>1. SUFFICES ASSUME ~Keyed(x), NEW e \in Whole(x), e \in disk'.effects
               PROVE  pc'[x] = "done" /\ status'[x] = "ok"
  BY DEF SavedLast, Keyed, Whole
<1>2. CASE e \in disk.effects
  <2>1. pc[x] = "done" /\ status[x] = "ok"
    BY <1>1, <1>2 DEF AtomicInv, SavedLast
  <2>2. pc[r] # "done"
    BY PlainSteps, GivenBack
       DEF ReplayInv, Moves, Step, Send, EnterGate, Lookup, Resume, HandlerWrite,
           HandlerFinish, HandlerCancel, HandlerRefuse, HandlerThrow, RequestPhase,
           RunPhase, EnterSend, RecordReply, SequenceEvent, Finalize, OnError, ErrorSend,
           OnResponse, Abort, Awaiting
  <2> QED
    BY <2>1, <2>2, OthersStay DEF DurableInv
<1>3. CASE e \notin disk.effects
  <2>1. /\ disk' = mem' /\ mem'.effects = mem.effects
        /\ \/ pc[r] = "record" /\ status[r] = "ok" /\ Keyed(r)
           \/ pc[r] = "finalize" /\ pc'[r] = "done" /\ status'[r] = status[r]
    BY <1>1, <1>3, DiskStep
  <2>2. owner = x /\ ((pc[x] = "half" /\ x \notin Imports) \/ Closing(x))
    BY <1>1, <1>3, <2>1 DEF AtomicInv, UnsavedIsOwn
  <2>3. owner = r
    BY <2>1 DEF DurableInv, RequestInv, HoldsGate, Finalizing
  <2> QED
    BY <1>1, <2>1, <2>2, <2>3 DEF Closing
<1> QED
  BY <1>2, <1>3

\* Every step preserves the invariant.
LEMMA AtomicInvStep ==
  ASSUME Plain
  PROVE  DurableInv /\ ReplayInv /\ AtomicInv /\ [Next]_vars => AtomicInv'
<1> SUFFICES ASSUME DurableInv, ReplayInv, AtomicInv, [Next]_vars PROVE AtomicInv'
  OBVIOUS
<1>1. ASSUME NEW r \in Requests, Moves(r) PROVE AtomicInv'
  <2>1. DirtyForOne'
    BY <1>1, DirtyStep DEF DirtyForOne
  <2>2. \A x \in Requests : Undisturbed(x)'
    BY <1>1, UndisturbedStep DEF Undisturbed
  <2>3. \A x \in Requests : UnsavedIsOwn(x)' /\ SavedLast(x)'
    BY <1>1, UnsavedStep, SavedStep
  <2>4. \A x \in Requests : signalled'[x] => x \in Imports
    BY <1>1, SignalStep
  <2>5. ASSUME NEW x \in Imports \ Unrecorded PROVE TrackedWell(x)'
    <3>1. x \in Gated \ Unrecorded /\ Keyed(x)
      BY PipelineAssumption DEF Gated, Keyed
    <3> QED
      BY <1>1, <3>1, TrackedStep, CleanHalf DEF AtomicInv, Gated
  <2> QED
    BY <2>1, <2>2, <2>3, <2>4, <2>5 DEF AtomicInv
<1>2. CASE DeferredFlush \/ ReadResponse
  <2>1. dirty /\ Quiet
    BY <1>2 DEF DeferredFlush, ReadResponse, Plain
  <2>2. Closing(owner) /\ owner \in Requests
    BY <2>1 DEF AtomicInv, DirtyForOne, DurableInv, TypeOK, GateTypeOK
  <2> QED
    BY <2>1, <2>2 DEF Quiet, Running, Closing, Finalizing
<1>3. CASE Crash
  <2>1. mem' = disk /\ disk' = disk /\ ~dirty' /\ signalled' = signalled
    BY <1>3 DEF Crash
  <2>2. ASSUME NEW x \in Requests
        PROVE  /\ pc'[x] \in {"new", "done"}
               /\ pc[x] = "done" => pc'[x] = "done" /\ status'[x] = status[x]
    BY <1>3 DEF Crash
  <2> QED
    <3>1. DirtyForOne' /\ \A x \in Requests :
            Undisturbed(x)' /\ UnsavedIsOwn(x)' /\ SavedLast(x)' /\ (signalled'[x] => x \in Imports)
      BY <2>1, <2>2
         DEF AtomicInv, DirtyForOne, Undisturbed, Closing, Finalizing, UnsavedIsOwn,
             SavedLast, Whole
    <3>2. \A x \in Imports \ Unrecorded : TrackedWell(x)'
      BY <2>1 DEF AtomicInv, TrackedWell, Records
    <3> QED
      BY <3>1, <3>2 DEF AtomicInv
<1>4. CASE UNCHANGED vars
  <2>1. \A x \in Imports \ Unrecorded : TrackedWell(x)'
    BY <1>4 DEF vars, stateVars, requestVars, AtomicInv, TrackedWell, Records
  <2> QED
    BY <1>4, <2>1
       DEF vars, AtomicInv, DirtyForOne, Undisturbed, Closing, UnsavedIsOwn, SavedLast,
           Whole
<1> QED
  BY <1>1, <1>2, <1>3, <1>4 DEF Next, Moves

\* The invariant holds in every reachable state.
THEOREM AtomicInvariant ==
  ASSUME Plain
  PROVE  Spec => []AtomicInv
<1>1. Init => AtomicInv
  BY DEF Init, AtomicInv, DirtyForOne, Undisturbed, Closing, Finalizing, UnsavedIsOwn, SavedLast,
     TrackedWell, Records
<1> QED
  BY <1>1, AtomicInvStep, DurableInvariant, ReplayInvariant, PTL DEF Spec

\* A request that is done and did not succeed has nothing unsaved or on disk.
LEMMA NoTraceLeft ==
  ASSUME AtomicInv
  PROVE  FailureLeavesNoTrace
BY DEF AtomicInv, UnsavedIsOwn, SavedLast, Closing, Finalizing, FailureLeavesNoTrace, Gated, Whole

\* A gated request without a key that failed or was aborted leaves nothing of
\* itself in memory or on disk.
THEOREM FailuresLeaveNoTrace ==
  ASSUME Plain
  PROVE  Spec => []FailureLeavesNoTrace
  BY AtomicInvariant, NoTraceLeft, PTL

\* All three invariants together.
PipelineInv == DurableInv /\ ReplayInv /\ AtomicInv

\* What is on disk of a recorded kind of request has its record, and a key has
\* one record.
LEMMA OneOfEachKey == PipelineInv => KeyedAtMostOnce
<1> SUFFICES ASSUME PipelineInv PROVE KeyedAtMostOnce
  OBVIOUS
<1>1. ASSUME NEW x \in Gated \ Unrecorded, Keyed(x), <<x, 2>> \in disk.effects PROVE x \in Records
  BY <1>1 DEF PipelineInv, ReplayInv, AtomicInv, Tracked, TrackedWell
<1>2. \A x, y \in Records : KeyOf[x] = KeyOf[y] => x = y
  BY DEF PipelineInv, ReplayInv, RecordInv, RecordOf
<1> QED
  BY <1>1, <1>2 DEF KeyedAtMostOnce, SameRequest, Whole, Keyed

\* Of a keyed request and its retries at most one has its changes on disk, an
\* archive import and its retries included.
THEOREM ImportRetriesLeaveOne ==
  ASSUME Plain
  PROVE  Spec => []KeyedAtMostOnce
  BY AtomicInvariant, ReplayInvariant, DurableInvariant, OneOfEachKey, PTL DEF PipelineInv
-------------------------------------------------------------------------------
(***************************************************************************)
(* The refinement.                                                         *)
(***************************************************************************)

\* What the pipeline shows of itself.
Committed == {r \in Requests : Whole(r) \subseteq disk.effects}
Answered == [r \in Requests |-> Told(r)]
SamePairs == {p \in Requests \X Requests : p[1] # p[2] /\ SameRequest(p[1], p[2])}

\* A request may commit when no retry of it did.
LEMMA CommitAllowed ==
  ASSUME Plain, PipelineInv, PipelineInv', NEW r \in Requests, pc[r] # "done",
         disk.effects \subseteq disk'.effects, r \in Committed'
  PROVE  Atomic!MayCommit(r)
<1>1. Answered[r] = "none"
  BY DEF Answered, Told
<1>2. KeyedAtMostOnce'
  BY OneOfEachKey, PTL
<1>3. ASSUME NEW s \in Committed \cap (Gated \ Unrecorded), r \in Gated \ Unrecorded PROVE <<r,
   s>> \notin SamePairs
  BY <1>2, <1>3 DEF KeyedAtMostOnce, Committed, SamePairs, SameRequest, Keyed, Whole
<1> QED
  BY <1>1, <1>3 DEF Atomic!MayCommit, Answered, Committed, SamePairs

\* What a request is told is true of what is on disk.
LEMMA AnswerTrue ==
  ASSUME Plain, PipelineInv', NEW r \in Requests, pc'[r] = "done", NEW a, a = Answered'[r]
  PROVE  Atomic!Truthful(r, a) /\ a \in Atomic!Answers
<1>1. a = IF status'[r] \in {"ok", "replay", "lost"} THEN status'[r]
          ELSE IF status'[r] \in {"error", "gone"} THEN "failed" ELSE "other"
  BY DEF Answered, Told
<1>2. a = "ok" => r \in Committed'
  BY <1>1 DEF PipelineInv, DurableInv, RequestInv, Durable, Committed
<1>3. a = "replay" => \E s \in Committed' : <<r, s>> \in SamePairs
  BY <1>1
     DEF PipelineInv, ReplayInv, ReplayIsDurable, Committed, SamePairs, SameRequest, Keyed
<1>4. a = "failed" /\ r \in Gated /\ ~Keyed(r) => r \notin Committed'
  BY <1>1 DEF PipelineInv, AtomicInv, SavedLast, Committed, Whole, Keyed
<1>5. a \in {"ok", "replay", "failed", "other", "lost"}
  BY <1>1
<1> QED
  BY <1>2, <1>3, <1>4, <1>5 DEF Atomic!Truthful, Atomic!Answers, Committed, SamePairs

\* A step of one request commits it, answers it, or does neither.
LEMMA AtomicMove ==
  ASSUME Plain, PipelineInv, PipelineInv', NEW r \in Requests, Moves(r)
  PROVE  Atomic!Next \/ UNCHANGED <<Committed, Answered>>
<1>1. pc[r] # "done"
  BY PlainSteps, GivenBack
     DEF PipelineInv, ReplayInv, Moves, Step, Send, EnterGate, Lookup, Resume, HandlerWrite,
         HandlerFinish, HandlerCancel, HandlerRefuse, HandlerThrow, RequestPhase, RunPhase,
         EnterSend, RecordReply, SequenceEvent, Finalize, OnError, ErrorSend, OnResponse,
         Abort, Awaiting
<1>2. disk.effects \subseteq disk'.effects
  BY DiskGrows DEF PipelineInv
<1>3. Committed' \in {Committed, Committed \cup {r}}
  <2>1. ASSUME NEW x \in Requests, x # r, x \in Committed' PROVE x \in Committed
    <3>1. SUFFICES ASSUME NEW e \in Whole(x), e \notin disk.effects PROVE FALSE
      BY <2>1 DEF Committed
    <3>2. e \in disk'.effects
      BY <2>1, <3>1 DEF Committed, Whole
    <3>3. /\ disk' = mem' /\ mem'.effects = mem.effects /\ pc[r] \in Finalizing
      BY <3>1, <3>2, DiskStep DEF PipelineInv, Finalizing
    <3>4. owner = x
      BY <3>1, <3>2, <3>3 DEF PipelineInv, AtomicInv, UnsavedIsOwn
    <3> QED
      BY <2>1, <3>3, <3>4 DEF PipelineInv, DurableInv, RequestInv, HoldsGate
  <2>2. Committed \subseteq Committed' /\ Committed' \subseteq Requests
    BY <1>2 DEF Committed, Whole
  <2> QED
    BY <2>1, <2>2
<1>4. \A x \in Requests : x # r => Answered'[x] = Answered[x]
  BY OthersStay DEF PipelineInv, DurableInv, Answered, Told
<1>5. r \in Committed' => Atomic!MayCommit(r)
  BY <1>1, <1>2, CommitAllowed
<1>6. CASE pc'[r] # "done"
  <2>1. UNCHANGED Answered
    BY <1>1, <1>4, <1>6 DEF Answered, Told
  <2>2. CASE Committed' = Committed
    BY <2>1, <2>2
  <2>3. CASE Committed' = Committed \cup {r}
    BY <1>5, <2>1, <2>3 DEF Atomic!Next, Atomic!Commit, Committed, Answered
  <2> QED
    BY <1>3, <2>2, <2>3
<1>7. CASE pc'[r] = "done"
  <2> DEFINE a == Answered'[r]
  <2>1. Answered[r] = "none"
    BY <1>1 DEF Answered, Told
  <2>2. Answered' = [Answered EXCEPT ![r] = a]
    BY <1>4 DEF Answered
  <2>3. Atomic!Truthful(r, a) /\ a \in Atomic!Answers
    BY <1>7, AnswerTrue
  <2> HIDE DEF a
  <2>4. Atomic!Reply(r, a)
    BY <1>3, <1>5, <2>1, <2>2, <2>3 DEF Atomic!Reply, Committed, Answered
  <2> QED
    BY <2>3, <2>4 DEF Atomic!Next
<1> QED
  BY <1>6, <1>7

\* Every step is one of the abstract pipeline or is not seen from outside.
LEMMA AtomicSteps ==
  ASSUME Plain, PipelineInv, PipelineInv', [Next]_vars
  PROVE  Atomic!Next \/ UNCHANGED <<Committed, Answered>>
<1>1. ASSUME NEW r \in Requests, Moves(r) PROVE Atomic!Next \/ UNCHANGED <<Committed, Answered>>
  BY <1>1, AtomicMove
<1>2. CASE DeferredFlush \/ ReadResponse
  <2>1. dirty /\ Quiet
    BY <1>2 DEF DeferredFlush, ReadResponse, Plain
  <2>2. Closing(owner) /\ owner \in Requests
    BY <2>1 DEF PipelineInv, AtomicInv, DirtyForOne, DurableInv, TypeOK, GateTypeOK
  <2> QED
    BY <2>1, <2>2 DEF Quiet, Running, Closing, Finalizing
<1>3. CASE Crash
  <2>1. UNCHANGED Committed
    BY <1>3 DEF Crash, Committed, Whole
  <2>2. ASSUME NEW r \in Requests
        PROVE  Answered'[r] = Answered[r] \/ (Answered[r] = "none" /\ Answered'[r] = "lost")
    BY <1>3 DEF Crash, Answered, Told
  <2>3. \A r \in Requests : Answered'[r] \in {"none", "ok", "replay", "failed", "other", "lost"}
    BY DEF Answered, Told
  <2>4. Atomic!Restart
    BY <2>1, <2>2, <2>3 DEF Atomic!Restart, Atomic!Answers, Committed, Answered
  <2> QED
    BY <2>4 DEF Atomic!Next
<1>4. CASE UNCHANGED vars
  BY <1>4 DEF vars, Committed, Answered, Told
<1> QED
  BY <1>1, <1>2, <1>3, <1>4 DEF Next, Moves

\* The pipeline implements its abstract promise: each mutation becomes durable
\* at once and for good, retries add none, and the answers are true.
THEOREM PipelineIsAtomic ==
  ASSUME Plain
  PROVE  Spec => ImplementsAtomicMutations
<1>1. Init => Atomic!Init
  BY DEF Init, Atomic!Init, Told, Whole
<1>2. PipelineInv /\ PipelineInv' /\ [Next]_vars => [Atomic!Next]_<<Committed, Answered>>
  BY AtomicSteps
<1>3. Spec => []PipelineInv
  BY DurableInvariant, ReplayInvariant, AtomicInvariant, PTL DEF PipelineInv
<1> QED
  BY <1>1, <1>2, <1>3, PTL
     DEF Spec, ImplementsAtomicMutations, Atomic!Spec, Committed, Answered
===============================================================================
