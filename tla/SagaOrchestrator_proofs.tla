----------------------- MODULE SagaOrchestrator_proofs -----------------------
(***************************************************************************)
(* Proofs about SagaOrchestrator.                                          *)
(***************************************************************************)
EXTENDS SagaOrchestrator, FiniteSetTheorems, TLAPS

-----------------------------------------------------------------------------
(* Types.                                                                  *)

\* What the type invariant needs to be inductive: a call belongs to a saga and
\* to a number, and the counter of active calls is exact.
TypeInv ==
    /\ TypeOK
    /\ ActiveIsExact
    /\ \A e \in Executors :
         /\ pc[e] = "idle" => saga[e] = NoSaga
         /\ pc[e] # "idle" => saga[e] \in Sagas /\ call[e] \in Calls

\* The tables and the locals of a call, without the counters.
LEMMA InitTypes == Init => TypeInv
<1> SUFFICES ASSUME Init PROVE TypeInv
  OBVIOUS
<1> USE SagaAssumption DEF Init
<1>1. TypeOK
  BY DEF TypeOK, SagaState, StepState, Pc, Steps, Calls
<1>2. ActiveIsExact
  <2>1. Busy = {}
    BY DEF Busy
  <2> QED
    BY <2>1, FS_EmptySet DEF ActiveIsExact
<1> QED
  BY <1>1, <1>2 DEF TypeInv

\* One call begins: the set of busy executors grows by it.
LEMMA EnterCounts ==
    ASSUME TypeInv, NEW e \in Executors, pc[e] = "idle",
           NEW p \in Pc \ {"idle"},
           pc' = [pc EXCEPT ![e] = p], active' = active + 1
    PROVE  active' \in Nat /\ ActiveIsExact'
<1> USE SagaAssumption
<1>1. Busy' = Busy \cup {e} /\ e \notin Busy
  BY DEF Busy, TypeInv, TypeOK
<1>2. IsFiniteSet(Busy)
  BY FS_Subset DEF Busy
<1>3. Cardinality(Busy) \in Nat
  BY <1>2, FS_CardinalityType
<1>4. Cardinality(Busy \cup {e}) = Cardinality(Busy) + 1
  BY <1>1, <1>2, FS_AddElement
<1> QED
  BY <1>1, <1>3, <1>4 DEF ActiveIsExact, TypeInv

\* One call ends: the set of busy executors shrinks by it.
LEMMA ReturnCounts ==
    ASSUME TypeInv, NEW e \in Executors, pc[e] # "idle",
           pc' = [pc EXCEPT ![e] = "idle"], active' = active - 1
    PROVE  active' \in Nat /\ ActiveIsExact'
<1> USE SagaAssumption
<1>1. Busy' = Busy \ {e} /\ e \in Busy
  BY DEF Busy, TypeInv, TypeOK
<1>2. IsFiniteSet(Busy)
  BY FS_Subset DEF Busy
<1>3. Cardinality(Busy) \in Nat
  BY <1>2, FS_CardinalityType
<1>4. Cardinality(Busy \ {e}) = Cardinality(Busy) - 1
  BY <1>1, <1>2, FS_RemoveElement
<1>5. IsFiniteSet(Busy \ {e})
  BY <1>2, FS_Subset
<1>6. Cardinality(Busy \ {e}) \in Nat
  BY <1>5, FS_CardinalityType
<1> QED
  BY <1>1, <1>3, <1>4, <1>6 DEF ActiveIsExact, TypeInv

\* A call goes on: the set of busy executors stays.
LEMMA StayCounts ==
    ASSUME TypeInv, NEW e \in Executors, pc[e] # "idle",
           NEW p \in Pc \ {"idle"},
           pc' = [pc EXCEPT ![e] = p] \/ pc' = pc, active' = active
    PROVE  ActiveIsExact'
<1>1. Busy' = Busy
  BY DEF Busy, TypeInv, TypeOK
<1> QED
  BY <1>1 DEF ActiveIsExact, TypeInv

\* Steps of execute_saga and of the poller keep the types.
LEMMA NextTypes ==
    ASSUME TypeInv, [Next]_vars
    PROVE  TypeInv'
<1> USE SagaAssumption
<1> DEFINE Locals == \A e \in Executors :
                       /\ pc[e] = "idle" => saga[e] = NoSaga
                       /\ pc[e] # "idle" => saga[e] \in Sagas /\ call[e] \in Calls
<1>0. TypeOK /\ ActiveIsExact /\ Locals
  BY DEF TypeInv
<1>r. ASSUME NEW e \in Executors, pc[e] # "idle", Return(e),
             sagas' \in [Sagas -> SagaState \cup {"ABSENT"}],
             rows' \in [Sagas -> [StepId -> StepState \cup {"ABSENT"}]]
      PROVE  TypeInv'
  <2>1. active' \in Nat /\ ActiveIsExact'
    BY <1>r, ReturnCounts DEF Return
  <2>2. TypeOK'
    BY <1>0, <1>r, <2>1 DEF TypeOK, Return, batches, Pc, Calls
  <2>3. Locals'
    BY <1>0, <1>r DEF TypeOK, Return
  <2> QED
    BY <2>1, <2>2, <2>3 DEF TypeInv
<1>e. ASSUME NEW e \in Executors, NEW s \in Sagas, Enter(e, s),
             claimed' \in [Executors -> SUBSET Sagas],
             marked' \in [Executors -> SUBSET Sagas]
      PROVE  TypeInv'
  <2>1. active' \in Nat /\ ActiveIsExact'
    BY <1>e, EnterCounts DEF Enter, Pc
  <2>2. lastCall + 1 \in Calls /\ lastCall' \in 0..MaxCalls
    BY <1>0, <1>e DEF Enter, Calls, TypeOK
  <2>3. TypeOK'
    BY <1>0, <1>e, <2>1, <2>2 DEF TypeOK, Enter, tables, Pc, Calls
  <2>4. Locals'
    BY <1>0, <1>e, <2>2 DEF TypeOK, Enter
  <2> QED
    BY <2>1, <2>3, <2>4 DEF TypeInv
<1>1. ASSUME NEW e \in Consumers, NEW s \in Sagas, ExecuteSaga(e, s)
      PROVE  TypeInv'
  BY <1>0, <1>1, <1>e DEF ExecuteSaga, batches, TypeOK, Executors
<1>2. ASSUME NEW e \in Executors, SaveContext(e)
      PROVE  TypeInv'
  <2>1. ActiveIsExact'
    BY <1>0, <1>2, StayCounts DEF SaveContext, limits, Pc
  <2>2. TypeOK'
    BY <1>0, <1>2 DEF TypeOK, SaveContext, SetSaga, SagaState, Pc, limits, locals, batches
  <2>3. Locals'
    BY <1>0, <1>2 DEF TypeOK, SaveContext, locals
  <2> QED
    BY <2>1, <2>2, <2>3 DEF TypeInv
<1>3. ASSUME NEW e \in Executors, LoadSteps(e)
      PROVE  TypeInv'
  <2>1. ActiveIsExact'
    BY <1>0, <1>3, StayCounts DEF LoadSteps, limits, Pc
  <2>2. CompletedSteps(saga[e]) \subseteq Steps
    BY DEF CompletedSteps, CompletedRows, StepId
  <2>3. TypeOK'
    BY <1>0, <1>3, <2>2 DEF TypeOK, LoadSteps, tables, Pc, limits, batches
  <2>4. Locals'
    BY <1>0, <1>3 DEF TypeOK, LoadSteps
  <2> QED
    BY <2>1, <2>3, <2>4 DEF TypeInv
<1>4. ASSUME NEW e \in Executors, LoadCompleted(e)
      PROVE  TypeInv'
  <2>1. ActiveIsExact'
    BY <1>0, <1>4, StayCounts DEF LoadCompleted, limits, Pc
  <2>2. CompletedRows(saga[e]) \subseteq StepId
    BY DEF CompletedRows
  <2>3. TypeOK'
    BY <1>0, <1>4, <2>2 DEF TypeOK, LoadCompleted, tables, Pc, limits, batches
  <2>4. Locals'
    BY <1>0, <1>4 DEF TypeOK, LoadCompleted
  <2> QED
    BY <2>1, <2>3, <2>4 DEF TypeInv
<1>5. ASSUME NEW e \in Executors, AllStepsDone(e) \/ CompensationDone(e)
      PROVE  TypeInv'
  <2>1. pc[e] # "idle" /\ Return(e) /\ rows' = rows
    BY <1>5 DEF AllStepsDone, CompensationDone
  <2>2. sagas' \in [Sagas -> SagaState \cup {"ABSENT"}]
    BY <1>0, <1>5 DEF AllStepsDone, CompensationDone, SetSaga, TypeOK, SagaState
  <2> QED
    BY <1>0, <2>1, <2>2, <1>r DEF TypeOK
<1>6. ASSUME NEW e \in Executors, NEW i \in Steps, StepSucceeds(e, i)
      PROVE  TypeInv'
  <2>1. ActiveIsExact'
    BY <1>0, <1>6, StayCounts DEF StepSucceeds, AtStep, limits, Pc
  <2>2. << call[e], i >> \in StepId /\ saga[e] \in Sagas
    BY <1>0, <1>6 DEF StepSucceeds, AtStep, StepId
  <2>3. rows' \in [Sagas -> [StepId -> StepState \cup {"ABSENT"}]]
    BY <1>0, <1>6, <2>2 DEF StepSucceeds, TypeOK, StepState
  <2>4. i + 1 \in 0..(NSteps + 1)
    BY DEF Steps
  <2>5. TypeOK'
    BY <1>0, <1>6, <2>3, <2>4 DEF TypeOK, StepSucceeds, SetSaga, SagaState, limits, batches
  <2>6. Locals'
    BY <1>0, <1>6 DEF TypeOK, StepSucceeds
  <2> QED
    BY <2>1, <2>5, <2>6 DEF TypeInv
<1>7. ASSUME NEW e \in Executors, NEW i \in Steps, StepFails(e, i)
      PROVE  TypeInv'
  <2>1. ActiveIsExact'
    BY <1>0, <1>7, StayCounts DEF StepFails, AtStep, limits, Pc
  <2>2. << call[e], i >> \in StepId /\ saga[e] \in Sagas
    BY <1>0, <1>7 DEF StepFails, AtStep, StepId
  <2>3. rows' \in [Sagas -> [StepId -> StepState \cup {"ABSENT"}]]
    BY <1>0, <1>7, <2>2 DEF StepFails, UpdatedStep, TypeOK, StepState
  <2>4. TypeOK'
    BY <1>0, <1>7, <2>3 DEF TypeOK, StepFails, SetSaga, SagaState, Pc, limits, locals, batches
  <2>5. Locals'
    BY <1>0, <1>7 DEF TypeOK, StepFails, AtStep, locals
  <2> QED
    BY <2>1, <2>4, <2>5 DEF TypeInv
<1>8. ASSUME NEW e \in Executors, NEW r \in StepId, CompensationSucceeds(e, r)
      PROVE  TypeInv'
  <2>1. ActiveIsExact'
    BY <1>0, <1>8, StayCounts DEF CompensationSucceeds, AtCompensation, limits, Pc
  <2>2. saga[e] \in Sagas /\ r[2] \in Steps
    BY <1>0, <1>8 DEF CompensationSucceeds, AtCompensation, StepId
  <2>3. rows' \in [Sagas -> [StepId -> StepState \cup {"ABSENT"}]]
    BY <1>0, <1>8, <2>2 DEF CompensationSucceeds, UpdatedStep, TypeOK, StepState
  <2>4. r[2] - 1 \in 0..(NSteps + 1)
    BY <2>2 DEF Steps
  <2>5. TypeOK'
    BY <1>0, <1>8, <2>3, <2>4 DEF TypeOK, CompensationSucceeds, limits, batches
  <2>6. Locals'
    BY <1>0, <1>8 DEF TypeOK, CompensationSucceeds
  <2> QED
    BY <2>1, <2>5, <2>6 DEF TypeInv
<1>9. ASSUME NEW e \in Executors, NEW r \in StepId, CompensationFails(e, r)
      PROVE  TypeInv'
  BY <1>0, <1>9, <1>r DEF CompensationFails, AtCompensation, SetSaga, TypeOK, SagaState
<1>10. ASSUME NEW e \in Executors, Interrupted(e)
       PROVE  TypeInv'
  BY <1>0, <1>10, <1>r DEF Interrupted, Abort, StepTimesOut, SagaTimesOut, AtStep,
     SetSaga, tables, TypeOK, SagaState
<1>11. ASSUME NEW p \in Pollers, ClaimSelect(p) \/ ClaimFails(p)
       PROVE  TypeInv'
  <2>1. TypeOK'
    BY <1>0, <1>11 DEF ClaimSelect, ClaimFails, tables, limits, locals, TypeOK, Executors
  <2>2. ActiveIsExact' /\ Locals'
    BY <1>0, <1>11 DEF ClaimSelect, ClaimFails, limits, locals, ActiveIsExact, Busy
  <2> QED
    BY <2>1, <2>2 DEF TypeInv
<1>12. ASSUME NEW p \in Pollers, NEW s \in Sagas, ClaimUpdate(p, s) \/ PollerSkips(p, s)
       PROVE  TypeInv'
  <2> p \in Executors
    BY DEF Executors
  <2>1. CASE ClaimUpdate(p, s)
    <3>1. sagas' \in [Sagas -> SagaState \cup {"ABSENT"}]
      BY <1>0, <2>1 DEF ClaimUpdate, SetSaga, SagaState, TypeOK
    <3>2. marked' \in [Executors -> SUBSET Sagas]
      BY <1>0, <2>1 DEF ClaimUpdate, TypeOK
    <3>3. TypeOK'
      BY <1>0, <2>1, <3>1, <3>2 DEF ClaimUpdate, limits, locals, TypeOK
    <3>4. ActiveIsExact' /\ Locals'
      BY <1>0, <2>1 DEF ClaimUpdate, limits, locals, ActiveIsExact, Busy
    <3> QED
      BY <3>3, <3>4 DEF TypeInv
  <2>2. CASE PollerSkips(p, s)
    <3>1. claimed' \in [Executors -> SUBSET Sagas] /\ marked' \in [Executors -> SUBSET Sagas]
      BY <1>0, <2>2 DEF PollerSkips, Taken, TypeOK
    <3>2. TypeOK'
      BY <1>0, <2>2, <3>1 DEF PollerSkips, tables, limits, locals, TypeOK
    <3>3. ActiveIsExact' /\ Locals'
      BY <1>0, <2>2 DEF PollerSkips, limits, locals, ActiveIsExact, Busy
    <3> QED
      BY <3>2, <3>3 DEF TypeInv
  <2> QED
    BY <1>12, <2>1, <2>2
<1>13. ASSUME NEW p \in Pollers, NEW s \in Sagas, PollerExecutes(p, s)
       PROVE  TypeInv'
  BY <1>0, <1>13, <1>e DEF PollerExecutes, Taken, TypeOK, Executors
<1>14. CASE Crash
  <2>1. TypeOK'
    BY <1>0, <1>14 DEF Crash, tables, TypeOK, Pc
  <2>2. Busy' = {}
    BY <1>14 DEF Crash, Busy
  <2>3. ActiveIsExact' /\ Locals'
    BY <1>14, <2>2, FS_EmptySet DEF Crash, ActiveIsExact
  <2> QED
    BY <2>1, <2>3 DEF TypeInv
<1>15. CASE UNCHANGED vars
  BY <1>0, <1>15 DEF vars, TypeInv, TypeOK, ActiveIsExact, Busy
<1> QED
  BY <1>1, <1>2, <1>3, <1>4, <1>5, <1>6, <1>7, <1>8, <1>9, <1>10, <1>11, <1>12, <1>13,
     <1>14, <1>15 DEF Next, Progress, PollerStep

\* The columns, the counters and the positions of execute_saga keep their types
\* in every behaviour, with any number of concurrent calls and pollers.
THEOREM SagaTypeCorrect == Spec => []TypeOK
<1>1. Init => TypeInv
  BY InitTypes
<1>2. TypeInv /\ [Next]_vars => TypeInv'
  BY NextTypes
<1>3. TypeInv => TypeOK
  BY DEF TypeInv
<1> QED
  BY <1>1, <1>2, <1>3, PTL DEF Spec

\* active_sagas is exact whatever interrupts a call: the DropGuard of
\* execute_saga is dropped once on every way out.
THEOREM ActiveStaysExact == Spec => []ActiveIsExact
<1>1. Init => TypeInv
  BY InitTypes
<1>2. TypeInv /\ [Next]_vars => TypeInv'
  BY NextTypes
<1>3. TypeInv => ActiveIsExact
  BY DEF TypeInv
<1> QED
  BY <1>1, <1>2, <1>3, PTL DEF Spec

-----------------------------------------------------------------------------
(* One executor per saga.                                                  *)

\* What holds of executor e's call while no other executor has its saga.
CallInv(e) ==
    /\ pc[e] \in {"load", "steps"} => sagas[saga[e]] = "PENDING"
    /\ pc[e] \in {"load_completed", "compensate"} => sagas[saga[e]] = "COMPENSATING"
    /\ pc[e] = "steps" => \A j \in Steps :
           (\E c \in Calls : rows[saga[e]][<< c, j >>] = "COMPLETED")
               <=> (j < index[e] \/ j \in skip[e])
    /\ pc[e] = "compensate" => \A c \in Calls, j \in Steps :
           /\ rows[saga[e]][<< c, j >>] = "COMPLETED" =>
                 << c, j >> \in loaded[e] /\ (j \in HasCompensation => j <= index[e])
           /\ << c, j >> \in loaded[e] /\ j <= index[e] =>
                 rows[saga[e]][<< c, j >>] = "COMPLETED"

\* At most one COMPLETED row per step, on pairs.
RowsInv == \A s \in Sagas, c \in Calls, d \in Calls, j \in Steps :
    rows[s][<< c, j >>] = "COMPLETED" /\ rows[s][<< d, j >>] = "COMPLETED" => c = d

SerialInv ==
    /\ TypeInv
    /\ OneHolder
    /\ RowsInv
    /\ \A e \in Executors : CallInv(e)

\* A saga an executor executes is nobody else's.
LEMMA Alone ==
    ASSUME TypeInv, OneHolder, NEW e \in Executors, NEW f \in Executors,
           pc[e] # "idle", pc[f] # "idle", saga[e] = saga[f]
    PROVE  e = f
BY SagaAssumption DEF TypeInv, OneHolder, Holds

\* A saga a poller has claimed is nobody else's.
LEMMA AloneClaimed ==
    ASSUME TypeInv, OneHolder, NEW e \in Executors, NEW f \in Executors,
           pc[e] # "idle", saga[e] \in claimed[f]
    PROVE  e = f
BY SagaAssumption DEF TypeInv, OneHolder, Holds

\* The completed steps, on pairs.
LEMMA CompletedStepsDef ==
    ASSUME NEW s \in Sagas
    PROVE  /\ CompletedSteps(s) \subseteq Steps
           /\ \A j \in Steps : j \in CompletedSteps(s) <=>
                 \E c \in Calls : rows[s][<< c, j >>] = "COMPLETED"
<1>1. CompletedSteps(s) \subseteq Steps
  BY DEF CompletedSteps, CompletedRows, StepId
<1>2. ASSUME NEW j \in Steps, j \in CompletedSteps(s)
      PROVE  \E c \in Calls : rows[s][<< c, j >>] = "COMPLETED"
  <2>1. PICK r \in StepId : rows[s][r] = "COMPLETED" /\ j = r[2]
    BY <1>2 DEF CompletedSteps, CompletedRows
  <2>2. r[1] \in Calls /\ r = << r[1], j >>
    BY <2>1 DEF StepId
  <2> QED
    BY <2>1, <2>2
<1>3. ASSUME NEW j \in Steps, NEW c \in Calls, rows[s][<< c, j >>] = "COMPLETED"
      PROVE  j \in CompletedSteps(s)
  <2>1. << c, j >> \in CompletedRows(s) /\ << c, j >>[2] = j
    BY <1>3 DEF CompletedRows, StepId
  <2> QED
    BY <2>1 DEF CompletedSteps
<1> QED
  BY <1>1, <1>2, <1>3

LEMMA InitSerial == Init => SerialInv
<1> SUFFICES ASSUME Init PROVE SerialInv
  OBVIOUS
<1>1. OneHolder
  BY DEF Init, OneHolder, Holds
<1>2. RowsInv
  BY DEF Init, RowsInv, StepId
<1>3. \A e \in Executors : CallInv(e)
  BY DEF Init, CallInv
<1> QED
  BY InitTypes, <1>1, <1>2, <1>3 DEF SerialInv

\* Nothing changes for the calls: the tables and the locals stay.
LEMMA KeepCalls ==
    ASSUME \A e \in Executors : CallInv(e), UNCHANGED << sagas, rows, pc, locals >>
    PROVE  \A e \in Executors : CallInv(e)'
BY DEF CallInv, locals

\* Only executor e, whose call it is, changes its saga, its rows and its locals.
LEMMA OthersKeep ==
    ASSUME SerialInv, TypeOK', NEW e \in Executors, pc[e] # "idle",
           \A f \in Executors : f # e =>
              /\ pc'[f] = pc[f] /\ saga'[f] = saga[f] /\ index'[f] = index[f]
              /\ skip'[f] = skip[f] /\ loaded'[f] = loaded[f],
           \A s \in Sagas : s # saga[e] => sagas'[s] = sagas[s] /\ rows'[s] = rows[s],
           CallInv(e)'
    PROVE  \A f \in Executors : CallInv(f)'
<1> SUFFICES ASSUME NEW f \in Executors, f # e
             PROVE  CallInv(f)'
  OBVIOUS
<1>1. CASE pc[f] = "idle"
  BY <1>1 DEF CallInv
<1>2. CASE pc[f] # "idle"
  <2>1. saga[f] # saga[e]
    BY <1>2, Alone DEF SerialInv
  <2>2. saga[f] \in Sagas
    BY <1>2 DEF SerialInv, TypeInv
  <2>3. CallInv(f)
    BY DEF SerialInv
  <2>4. /\ pc'[f] = pc[f] /\ saga'[f] = saga[f] /\ index'[f] = index[f]
        /\ skip'[f] = skip[f] /\ loaded'[f] = loaded[f]
    OBVIOUS
  <2>5. sagas'[saga[f]] = sagas[saga[f]] /\ rows'[saga[f]] = rows[saga[f]]
    BY <2>1, <2>2
  <2> QED
    BY <2>3, <2>4, <2>5 DEF CallInv
<1> QED
  BY <1>1, <1>2

\* A call ends: it leaves no local behind.
LEMMA ReturnKeeps ==
    ASSUME SerialInv, TypeInv', NEW e \in Executors, pc[e] # "idle", Return(e),
           \A s \in Sagas : s # saga[e] => sagas'[s] = sagas[s],
           rows' = rows
    PROVE  RowsInv' /\ \A f \in Executors : CallInv(f)'
<1>1. RowsInv'
  BY DEF SerialInv, RowsInv
<1>2. pc'[e] = "idle"
  BY DEF Return, SerialInv, TypeInv, TypeOK
<1>3. CallInv(e)'
  BY <1>2 DEF CallInv
<1>4. \A f \in Executors : f # e =>
              /\ pc'[f] = pc[f] /\ saga'[f] = saga[f] /\ index'[f] = index[f]
              /\ skip'[f] = skip[f] /\ loaded'[f] = loaded[f]
  BY DEF Return, SerialInv, TypeInv, TypeOK
<1> QED
  BY <1>1, <1>3, <1>4, OthersKeep DEF TypeInv

\* A call begins: it has read and written nothing yet.
LEMMA EnterKeeps ==
    ASSUME SerialInv, NEW e \in Executors, NEW s \in Sagas, Enter(e, s)
    PROVE  RowsInv' /\ \A f \in Executors : CallInv(f)'
<1>1. RowsInv'
  BY DEF SerialInv, RowsInv, Enter, tables
<1>2. ASSUME NEW f \in Executors, f # e
      PROVE  CallInv(f)'
  <2>1. CallInv(f)
    BY DEF SerialInv
  <2>2. pc'[f] = pc[f] /\ saga'[f] = saga[f]
    BY <1>2 DEF Enter, SerialInv, TypeInv, TypeOK
  <2> QED
    BY <2>1, <2>2 DEF CallInv, Enter, tables
<1>3. pc'[e] = "save"
  BY DEF Enter, SerialInv, TypeInv, TypeOK
<1>4. CallInv(e)'
  BY <1>3 DEF CallInv
<1> QED
  BY <1>1, <1>2, <1>4

\* A step completes: it had no COMPLETED row before.
LEMMA StepSucceedsKeeps ==
    ASSUME SerialInv, TypeInv', NEW e \in Executors, NEW i \in Steps, StepSucceeds(e, i)
    PROVE  RowsInv' /\ \A f \in Executors : CallInv(f)'
<1> USE SagaAssumption
<1> DEFINE s == saga[e]  c == call[e]
<1>1. pc[e] = "steps" /\ s \in Sagas /\ c \in Calls /\ << c, i >> \in StepId
  BY DEF StepSucceeds, AtStep, SerialInv, TypeInv, StepId
<1>2. \A j \in Steps : (\E d \in Calls : rows[s][<< d, j >>] = "COMPLETED")
                          <=> (j < index[e] \/ j \in skip[e])
  BY <1>1 DEF SerialInv, CallInv
<1>3. \A d \in Calls : rows[s][<< d, i >>] # "COMPLETED"
  <2>1. i \notin skip[e] /\ ~ (i < index[e])
    BY DEF StepSucceeds, AtStep, SerialInv, TypeInv, TypeOK, Steps
  <2> QED
    BY <1>2, <2>1
<1>4. \A t \in Sagas, d \in Calls, j \in Steps :
         rows'[t][<< d, j >>] =
            IF t = s /\ d = c /\ j = i THEN "COMPLETED" ELSE rows[t][<< d, j >>]
  <2> SUFFICES ASSUME NEW t \in Sagas, NEW d \in Calls, NEW j \in Steps
               PROVE  rows'[t][<< d, j >>] =
                 IF t = s /\ d = c /\ j = i THEN "COMPLETED" ELSE rows[t][<< d, j >>]
    OBVIOUS
  <2>1. << d, j >> \in StepId
    BY DEF StepId
  <2> QED
    BY <1>1, <2>1 DEF StepSucceeds, SerialInv, TypeInv, TypeOK
<1>5. RowsInv'
  BY <1>1, <1>3, <1>4 DEF RowsInv, SerialInv
<1>6. /\ pc' = pc /\ saga' = saga /\ skip' = skip /\ loaded' = loaded
      /\ index'[e] = i + 1
      /\ \A f \in Executors : f # e => index'[f] = index[f]
  BY DEF StepSucceeds, SerialInv, TypeInv, TypeOK
<1>7. \A t \in Sagas : t # s => sagas'[t] = sagas[t] /\ rows'[t] = rows[t]
  BY DEF StepSucceeds, SetSaga, SerialInv, TypeInv, TypeOK
<1>8. sagas'[s] = "PENDING"
  BY <1>1 DEF StepSucceeds, SetSaga, SerialInv, TypeInv, TypeOK
<1>9. ASSUME NEW j \in Steps
      PROVE  (\E d \in Calls : rows'[s][<< d, j >>] = "COMPLETED")
                <=> (j < i + 1 \/ j \in skip[e])
  <2>1. CASE j = i
    BY <1>1, <1>4, <2>1 DEF Steps
  <2>2. CASE j # i
    <3>1. \A d \in Calls : rows'[s][<< d, j >>] = rows[s][<< d, j >>]
      BY <1>1, <1>4, <2>2
    <3>2. (j < index[e] \/ j \in skip[e]) <=> (j < i + 1 \/ j \in skip[e])
      BY <2>2 DEF StepSucceeds, AtStep, SerialInv, TypeInv, TypeOK, Steps
    <3> QED
      BY <1>2, <3>1, <3>2
  <2> QED
    BY <2>1, <2>2
<1>10. CallInv(e)'
  BY <1>1, <1>6, <1>8, <1>9 DEF CallInv
<1> QED
  BY <1>1, <1>5, <1>6, <1>7, <1>10, OthersKeep DEF TypeInv

\* The initial save and the two loads.
LEMMA LoadsKeep ==
    ASSUME SerialInv, TypeInv', NEW e \in Executors,
           SaveContext(e) \/ LoadSteps(e) \/ LoadCompleted(e)
    PROVE  RowsInv' /\ \A f \in Executors : CallInv(f)'
<1> USE SagaAssumption
<1> DEFINE s == saga[e]
<1>1. pc[e] # "idle" /\ s \in Sagas
  BY DEF SaveContext, LoadSteps, LoadCompleted, SerialInv, TypeInv
<1>2. rows' = rows /\ saga' = saga
  BY DEF SaveContext, LoadSteps, LoadCompleted, tables, locals
<1>3. RowsInv'
  BY <1>2 DEF RowsInv, SerialInv
<1>4. \A f \in Executors : f # e =>
         /\ pc'[f] = pc[f] /\ saga'[f] = saga[f] /\ index'[f] = index[f]
         /\ skip'[f] = skip[f] /\ loaded'[f] = loaded[f]
  BY DEF SaveContext, LoadSteps, LoadCompleted, locals, SerialInv, TypeInv, TypeOK
<1>5. \A t \in Sagas : t # s => sagas'[t] = sagas[t]
  BY DEF SaveContext, LoadSteps, LoadCompleted, SetSaga, tables, SerialInv, TypeInv, TypeOK
<1>6. CallInv(e)'
  <2>1. CASE SaveContext(e)
    <3>1. pc'[e] = "load" /\ sagas'[s] = "PENDING"
      BY <1>1, <2>1 DEF SaveContext, SetSaga, SerialInv, TypeInv, TypeOK
    <3> QED
      BY <1>2, <3>1 DEF CallInv
  <2>2. CASE LoadSteps(e)
    <3>1. pc[e] = "load" /\ pc'[e] = "steps" /\ index'[e] = 1 /\ skip'[e] = CompletedSteps(s)
      BY <2>2 DEF LoadSteps, SerialInv, TypeInv, TypeOK
    <3>2. sagas'[s] = "PENDING"
      BY <2>2, <3>1 DEF LoadSteps, tables, SerialInv, CallInv
    <3>3. ASSUME NEW j \in Steps
          PROVE  (\E c \in Calls : rows[s][<< c, j >>] = "COMPLETED")
                    <=> (j < 1 \/ j \in CompletedSteps(s))
      <4>1. ~ (j < 1)
        BY DEF Steps
      <4> QED
        BY <1>1, <4>1, CompletedStepsDef
    <3> QED
      BY <1>2, <3>1, <3>2, <3>3 DEF CallInv
  <2>3. CASE LoadCompleted(e)
    <3>1. /\ pc[e] = "load_completed" /\ pc'[e] = "compensate" /\ index'[e] = NSteps
          /\ loaded'[e] = CompletedRows(s)
      BY <2>3 DEF LoadCompleted, SerialInv, TypeInv, TypeOK
    <3>2. sagas'[s] = "COMPENSATING"
      BY <2>3, <3>1 DEF LoadCompleted, tables, SerialInv, CallInv
    <3>3. ASSUME NEW c \in Calls, NEW j \in Steps
          PROVE  << c, j >> \in CompletedRows(s) <=> rows[s][<< c, j >>] = "COMPLETED"
      BY DEF CompletedRows, StepId
    <3>4. \A j \in Steps : j <= NSteps
      BY DEF Steps
    <3>5. \A c \in Calls, j \in Steps :
             /\ rows'[s][<< c, j >>] = "COMPLETED" =>
                   << c, j >> \in loaded'[e] /\ (j \in HasCompensation => j <= index'[e])
             /\ << c, j >> \in loaded'[e] /\ j <= index'[e] =>
                   rows'[s][<< c, j >>] = "COMPLETED"
      BY <1>2, <3>1, <3>3, <3>4
    <3> QED
      BY <1>2, <3>1, <3>2, <3>5 DEF CallInv
  <2> QED
    BY <2>1, <2>2, <2>3
<1> QED
  BY <1>1, <1>2, <1>3, <1>4, <1>5, <1>6, OthersKeep DEF TypeInv

\* The failed step's row was rolled back with its transaction, so that marking
\* it FAILED leaves every COMPLETED row alone.
LEMMA StepFailsKeeps ==
    ASSUME SerialInv, TypeInv', NEW e \in Executors, NEW i \in Steps, StepFails(e, i)
    PROVE  /\ RowsInv' /\ \A f \in Executors : CallInv(f)'
           /\ \A s \in Sagas, c \in Calls, j \in Steps :
                 rows'[s][<< c, j >>] = "COMPLETED" <=> rows[s][<< c, j >>] = "COMPLETED"
<1> USE SagaAssumption
<1> DEFINE s == saga[e]  c == call[e]
<1>1. pc[e] = "steps" /\ s \in Sagas /\ c \in Calls /\ << c, i >> \in StepId
  BY DEF StepFails, AtStep, SerialInv, TypeInv, StepId
<1>2. rows[s][<< c, i >>] # "COMPLETED"
  <2>1. (\E d \in Calls : rows[s][<< d, i >>] = "COMPLETED")
                          <=> (i < index[e] \/ i \in skip[e])
    BY <1>1 DEF SerialInv, CallInv
  <2>2. i \notin skip[e] /\ ~ (i < index[e])
    BY DEF StepFails, AtStep, SerialInv, TypeInv, TypeOK, Steps
  <2> QED
    BY <1>1, <2>1, <2>2
<1>3. ASSUME NEW t \in Sagas, NEW d \in Calls, NEW j \in Steps
      PROVE  rows'[t][<< d, j >>] = "COMPLETED" <=> rows[t][<< d, j >>] = "COMPLETED"
  <2>1. << d, j >> \in StepId
    BY DEF StepId
  <2>2. CASE rows' = rows
    BY <2>2
  <2>3. CASE rows' = [rows EXCEPT ![s][<< c, i >>] = "FAILED"]
    BY <1>1, <1>2, <2>1, <2>3 DEF SerialInv, TypeInv, TypeOK
  <2> QED
    BY <2>2, <2>3 DEF StepFails, UpdatedStep
<1>4. RowsInv'
  BY <1>3 DEF RowsInv, SerialInv
<1>5. /\ saga' = saga /\ index' = index /\ skip' = skip /\ loaded' = loaded
      /\ pc'[e] = "load_completed"
      /\ \A f \in Executors : f # e => pc'[f] = pc[f]
  BY DEF StepFails, locals, SerialInv, TypeInv, TypeOK
<1>6. \A t \in Sagas : t # s => sagas'[t] = sagas[t] /\ rows'[t] = rows[t]
  BY DEF StepFails, UpdatedStep, SetSaga, SerialInv, TypeInv, TypeOK
<1>7. sagas'[s] = "COMPENSATING"
  BY <1>1 DEF StepFails, SetSaga, SerialInv, TypeInv, TypeOK
<1>8. CallInv(e)'
  BY <1>5, <1>7 DEF CallInv
<1> QED
  BY <1>1, <1>3, <1>4, <1>5, <1>6, <1>8, OthersKeep DEF TypeInv

\* A compensated step has no COMPLETED row any more, because it had only one.
LEMMA CompensationKeeps ==
    ASSUME SerialInv, TypeInv', NEW e \in Executors, NEW d \in Calls, NEW i \in Steps,
           CompensationSucceeds(e, << d, i >>)
    PROVE  /\ RowsInv' /\ \A f \in Executors : CallInv(f)'
           /\ rows[saga[e]][<< d, i >>] = "COMPLETED"
           /\ rows' = [rows EXCEPT ![saga[e]][<< d, i >>] = "COMPENSATED"]
<1> USE SagaAssumption
<1> DEFINE s == saga[e]
<1>1. pc[e] = "compensate" /\ s \in Sagas /\ << d, i >> \in StepId
  BY DEF CompensationSucceeds, AtCompensation, SerialInv, TypeInv, StepId
<1>2. << d, i >> \in loaded[e] /\ i <= index[e] /\ i \in HasCompensation
  BY DEF CompensationSucceeds, AtCompensation
<1>3. \A q \in loaded[e] : q[2] \in HasCompensation /\ q[2] <= index[e] => q[2] <= i
  BY DEF CompensationSucceeds, AtCompensation
<1>4. \A c \in Calls, j \in Steps :
           /\ rows[s][<< c, j >>] = "COMPLETED" =>
                 << c, j >> \in loaded[e] /\ (j \in HasCompensation => j <= index[e])
           /\ << c, j >> \in loaded[e] /\ j <= index[e] => rows[s][<< c, j >>] = "COMPLETED"
  BY <1>1 DEF SerialInv, CallInv
<1>5. rows[s][<< d, i >>] = "COMPLETED"
  BY <1>2, <1>4
<1>r. rows' = [rows EXCEPT ![s][<< d, i >>] = "COMPENSATED"]
  BY <1>5 DEF CompensationSucceeds, UpdatedStep
<1>6. ASSUME NEW t \in Sagas, NEW c \in Calls, NEW j \in Steps
      PROVE  rows'[t][<< c, j >>] = IF t = s /\ c = d /\ j = i
                                    THEN "COMPENSATED" ELSE rows[t][<< c, j >>]
  <2>1. << c, j >> \in StepId
    BY DEF StepId
  <2> QED
    BY <1>1, <1>r, <2>1 DEF SerialInv, TypeInv, TypeOK
<1>7. RowsInv'
  BY <1>6 DEF RowsInv, SerialInv
<1>8. /\ pc' = pc /\ saga' = saga /\ skip' = skip /\ loaded' = loaded /\ sagas' = sagas
      /\ index'[e] = i - 1
      /\ \A f \in Executors : f # e => index'[f] = index[f]
  BY DEF CompensationSucceeds, SerialInv, TypeInv, TypeOK
<1>9. \A t \in Sagas : t # s => rows'[t] = rows[t]
  BY DEF CompensationSucceeds, UpdatedStep, SerialInv, TypeInv, TypeOK
<1>10. ASSUME NEW c \in Calls, NEW j \in Steps
       PROVE  /\ rows'[s][<< c, j >>] = "COMPLETED" =>
                 << c, j >> \in loaded[e] /\ (j \in HasCompensation => j <= i - 1)
              /\ << c, j >> \in loaded[e] /\ j <= i - 1 => rows'[s][<< c, j >>] = "COMPLETED"
  <2>1. ASSUME rows'[s][<< c, j >>] = "COMPLETED"
        PROVE  << c, j >> \in loaded[e] /\ (j \in HasCompensation => j <= i - 1)
    <3>1. rows[s][<< c, j >>] = "COMPLETED" /\ ~ (c = d /\ j = i)
      BY <1>1, <1>6, <2>1
    <3>2. << c, j >> \in loaded[e] /\ (j \in HasCompensation => j <= index[e])
      BY <1>4, <3>1
    <3>3. << c, j >>[2] = j
      OBVIOUS
    <3>4. j \in HasCompensation => j <= i
      BY <1>3, <3>2, <3>3
    <3>5. j # i
      BY <1>1, <1>5, <3>1 DEF SerialInv, RowsInv
    <3> QED
      BY <3>2, <3>4, <3>5 DEF Steps
  <2>2. ASSUME << c, j >> \in loaded[e], j <= i - 1
        PROVE  rows'[s][<< c, j >>] = "COMPLETED"
    <3>1. j <= index[e] /\ j # i
      BY <1>2, <2>2 DEF SerialInv, TypeInv, TypeOK, Steps
    <3> QED
      BY <1>1, <1>4, <1>6, <2>2, <3>1
  <2> QED
    BY <2>1, <2>2
<1>11. CallInv(e)'
  <2>1. sagas[s] = "COMPENSATING"
    BY <1>1 DEF SerialInv, CallInv
  <2> QED
    BY <1>1, <1>8, <1>10, <2>1 DEF CallInv
<1> QED
  BY <1>1, <1>5, <1>r, <1>7, <1>8, <1>9, <1>11, OthersKeep DEF TypeInv

\* Nothing of the calls or the rows changes, and saga s, which no call executes.
LEMMA ClaimsKeep ==
    ASSUME SerialInv, NEW s \in Sagas,
           \A e \in Executors : pc[e] # "idle" => saga[e] # s,
           \A t \in Sagas : t # s => sagas'[t] = sagas[t],
           UNCHANGED << rows, pc, locals >>
    PROVE  RowsInv' /\ \A f \in Executors : CallInv(f)'
<1>1. RowsInv'
  BY DEF SerialInv, RowsInv
<1>2. ASSUME NEW f \in Executors
      PROVE  CallInv(f)'
  <2>1. CASE pc[f] = "idle"
    BY <2>1 DEF CallInv
  <2>2. CASE pc[f] # "idle"
    <3>1. saga[f] \in Sagas /\ saga[f] # s /\ CallInv(f)
      BY <2>2 DEF SerialInv, TypeInv
    <3>2. sagas'[saga[f]] = sagas[saga[f]]
      BY <3>1
    <3> QED
      BY <3>1, <3>2 DEF CallInv, locals
  <2> QED
    BY <2>1, <2>2
<1> QED
  BY <1>1, <1>2

LEMMA NextSerial ==
    ASSUME SerialInv, [Next /\ OneHolder']_vars
    PROVE  SerialInv'
<1>0. TypeInv /\ OneHolder /\ RowsInv /\ \A e \in Executors : CallInv(e)
  BY DEF SerialInv
<1>t. TypeInv'
  BY <1>0, NextTypes
<1>h. OneHolder'
  BY <1>0 DEF vars, OneHolder, Holds
<1> SUFFICES RowsInv' /\ \A f \in Executors : CallInv(f)'
  BY <1>t, <1>h DEF SerialInv
<1>r. ASSUME NEW e \in Executors, pc[e] # "idle", Return(e),
             sagas' = sagas \/ \E st : SetSaga(saga[e], st), rows' = rows
      PROVE  RowsInv' /\ \A f \in Executors : CallInv(f)'
  <2>1. \A s \in Sagas : s # saga[e] => sagas'[s] = sagas[s]
    BY <1>r, <1>0 DEF SetSaga, TypeInv, TypeOK
  <2> QED
    BY <1>r, <2>1, <1>t, ReturnKeeps
<1>1. ASSUME NEW e \in Consumers, NEW s \in Sagas, ExecuteSaga(e, s)
      PROVE  RowsInv' /\ \A f \in Executors : CallInv(f)'
  BY <1>1, EnterKeeps DEF ExecuteSaga, Executors
<1>2. ASSUME NEW e \in Executors, SaveContext(e) \/ LoadSteps(e) \/ LoadCompleted(e)
      PROVE  RowsInv' /\ \A f \in Executors : CallInv(f)'
  BY <1>2, <1>t, LoadsKeep
<1>3. ASSUME NEW e \in Executors, AllStepsDone(e) \/ CompensationDone(e) \/ Interrupted(e)
      PROVE  RowsInv' /\ \A f \in Executors : CallInv(f)'
  BY <1>3, <1>r DEF AllStepsDone, CompensationDone, Interrupted, Abort, StepTimesOut,
     SagaTimesOut, AtStep, tables
<1>4. ASSUME NEW e \in Executors, NEW i \in Steps, StepSucceeds(e, i)
      PROVE  RowsInv' /\ \A f \in Executors : CallInv(f)'
  BY <1>4, <1>t, StepSucceedsKeeps
<1>5. ASSUME NEW e \in Executors, NEW i \in Steps, StepFails(e, i)
      PROVE  RowsInv' /\ \A f \in Executors : CallInv(f)'
  BY <1>5, <1>t, StepFailsKeeps
<1>6. ASSUME NEW e \in Executors, NEW r \in StepId, CompensationSucceeds(e, r)
      PROVE  RowsInv' /\ \A f \in Executors : CallInv(f)'
  <2>1. PICK d \in Calls, i \in Steps : r = << d, i >>
    BY DEF StepId
  <2> QED
    BY <1>6, <2>1, <1>t, CompensationKeeps
<1>7. ASSUME NEW e \in Executors, NEW r \in StepId, CompensationFails(e, r)
      PROVE  RowsInv' /\ \A f \in Executors : CallInv(f)'
  BY <1>7, <1>r DEF CompensationFails, AtCompensation
<1>8. ASSUME NEW p \in Pollers, ClaimSelect(p) \/ ClaimFails(p) \/ \E s \in Sagas : PollerSkips(p, s)
      PROVE  RowsInv' /\ \A f \in Executors : CallInv(f)'
  <2>1. UNCHANGED << sagas, rows, pc, locals >>
    BY <1>8 DEF ClaimSelect, ClaimFails, PollerSkips, tables
  <2>2. RowsInv'
    BY <1>0, <2>1 DEF RowsInv
  <2> QED
    BY <1>0, <2>1, <2>2, KeepCalls
<1>9. ASSUME NEW p \in Pollers, NEW s \in Sagas, ClaimUpdate(p, s)
      PROVE  RowsInv' /\ \A f \in Executors : CallInv(f)'
  <2>1. p \in Executors
    BY DEF Executors
  <2>2. \A e \in Executors : pc[e] # "idle" => saga[e] # s
    BY <1>0, <1>9, <2>1, AloneClaimed DEF ClaimUpdate
  <2>3. \A t \in Sagas : t # s => sagas'[t] = sagas[t]
    BY <1>0, <1>9 DEF ClaimUpdate, SetSaga, TypeInv, TypeOK
  <2>4. UNCHANGED << rows, pc, locals >>
    BY <1>9 DEF ClaimUpdate
  <2> QED
    BY <2>2, <2>3, <2>4, ClaimsKeep
<1>10. ASSUME NEW p \in Pollers, NEW s \in Sagas, PollerExecutes(p, s)
       PROVE  RowsInv' /\ \A f \in Executors : CallInv(f)'
  BY <1>10, EnterKeeps DEF PollerExecutes, Executors
<1>11. CASE Crash
  BY <1>0, <1>11 DEF Crash, CallInv, RowsInv, tables
<1>12. CASE UNCHANGED vars
  <2>1. UNCHANGED << sagas, rows, pc, locals >>
    BY <1>12 DEF vars, locals
  <2>2. RowsInv'
    BY <1>0, <2>1 DEF RowsInv
  <2> QED
    BY <1>0, <2>1, <2>2, KeepCalls
<1> QED
  BY <1>1, <1>2, <1>3, <1>4, <1>5, <1>6, <1>7, <1>8, <1>9, <1>10, <1>11, <1>12
     DEF Next, Progress, PollerStep

\* When no saga is with two executors, no interruption, restart or repeated call
\* makes execute_saga complete a step twice.
THEOREM StepCompletesOnce == SerialSpec => []StepCompletedOnce
<1>1. Init => SerialInv
  BY InitSerial
<1>2. SerialInv /\ [Next /\ OneHolder']_vars => SerialInv'
  BY NextSerial
<1>3. SerialInv => StepCompletedOnce
  <2> SUFFICES ASSUME SerialInv, NEW s \in Sagas,
                      NEW q \in CompletedRows(s), NEW r \in CompletedRows(s), q[2] = r[2]
               PROVE  q = r
    BY DEF StepCompletedOnce
  <2>1. PICK c \in Calls, i \in Steps : q = << c, i >>
    BY DEF CompletedRows, StepId
  <2>2. PICK d \in Calls, j \in Steps : r = << d, j >>
    BY DEF CompletedRows, StepId
  <2>3. i = j
    BY <2>1, <2>2
  <2>4. rows[s][<< c, i >>] = "COMPLETED" /\ rows[s][<< d, i >>] = "COMPLETED"
    BY <2>1, <2>2, <2>3 DEF CompletedRows
  <2> QED
    BY <2>1, <2>2, <2>3, <2>4 DEF SerialInv, RowsInv
<1> QED
  BY <1>1, <1>2, <1>3, PTL DEF SerialSpec

-----------------------------------------------------------------------------
(* The orchestrator implements the contract.                               *)

\* The primed form of CompletedStepsDef.
LEMMA CompletedStepsNext ==
    ASSUME NEW s \in Sagas
    PROVE  /\ CompletedSteps(s)' \subseteq Steps
           /\ \A j \in Steps : j \in CompletedSteps(s)' <=>
                 \E c \in Calls : rows'[s][<< c, j >>] = "COMPLETED"
<1>1. CompletedSteps(s)' \subseteq Steps
  BY DEF CompletedSteps, CompletedRows, StepId
<1>2. ASSUME NEW j \in Steps, j \in CompletedSteps(s)'
      PROVE  \E c \in Calls : rows'[s][<< c, j >>] = "COMPLETED"
  <2>1. PICK r \in StepId : rows'[s][r] = "COMPLETED" /\ j = r[2]
    BY <1>2 DEF CompletedSteps, CompletedRows
  <2>2. r[1] \in Calls /\ r = << r[1], j >>
    BY <2>1 DEF StepId
  <2> QED
    BY <2>1, <2>2
<1>3. ASSUME NEW j \in Steps, NEW c \in Calls, rows'[s][<< c, j >>] = "COMPLETED"
      PROVE  j \in CompletedSteps(s)'
  <2>1. << c, j >> \in CompletedRows(s)' /\ << c, j >>[2] = j
    BY <1>3 DEF CompletedRows, StepId
  <2> QED
    BY <2>1 DEF CompletedSteps
<1> QED
  BY <1>1, <1>2, <1>3

\* The same COMPLETED rows give the same completed steps.
LEMMA SameSteps ==
    ASSUME NEW s \in Sagas,
           \A c \in Calls, j \in Steps :
              rows'[s][<< c, j >>] = "COMPLETED" <=> rows[s][<< c, j >>] = "COMPLETED"
    PROVE  CompletedSteps(s)' = CompletedSteps(s)
BY CompletedStepsDef, CompletedStepsNext

\* The rows stay and one saga's state changes: a change of its phase.
LEMMA PhaseStep ==
    ASSUME TypeOK, NEW s \in Sagas, NEW st \in SagaState, SetSaga(s, st), rows' = rows
    PROVE  /\ Contract!SetPhase(s, PhaseOf(s)')
           /\ sagas'[s] = st
<1>1. \A t \in Sagas : sagas'[t] = IF t = s THEN st ELSE sagas[t]
  BY DEF SetSaga, TypeOK
<1>2. \A t \in Sagas : t # s => PhaseOf(t)' = PhaseOf(t)
  BY <1>1 DEF PhaseOf
<1>3. \A t \in Sagas : CompletedSteps(t)' = CompletedSteps(t)
  BY DEF CompletedSteps, CompletedRows
<1>4. [t \in Sagas |-> PhaseOf(t)]' = [[t \in Sagas |-> PhaseOf(t)] EXCEPT ![s] = PhaseOf(s)']
  BY <1>2
<1>5. [t \in Sagas |-> CompletedSteps(t)]' = [t \in Sagas |-> CompletedSteps(t)]
  BY <1>3
<1> QED
  BY <1>1, <1>4, <1>5 DEF Contract!SetPhase

\* A step completes: the contract's Forward.
LEMMA ForwardStep ==
    ASSUME SerialInv, TypeInv', NEW e \in Executors, NEW i \in Steps, StepSucceeds(e, i),
           NEW s \in Sagas, s = saga[e], NEW c \in Calls, c = call[e]
    PROVE  Contract!Forward(s)
<1> USE SagaAssumption
<1>1. pc[e] = "steps" /\ s \in Sagas /\ c \in Calls /\ sagas[s] = "PENDING"
  BY DEF StepSucceeds, AtStep, SerialInv, TypeInv, CallInv
<1>2. \A j \in Steps : j \in CompletedSteps(s) <=> (j < index[e] \/ j \in skip[e])
  BY <1>1, CompletedStepsDef DEF SerialInv, CallInv
<1>3. i \notin CompletedSteps(s)
  <2>1. i \notin skip[e] /\ ~ (i < index[e])
    BY DEF StepSucceeds, AtStep, SerialInv, TypeInv, TypeOK, Steps
  <2> QED
    BY <1>2, <2>1
<1>4. ASSUME NEW j \in 1..(i - 1)
      PROVE  j \in CompletedSteps(s)
  <2>1. j \in Steps /\ j < i
    BY DEF Steps
  <2>2. j < index[e] \/ j \in skip[e]
    BY <2>1 DEF StepSucceeds, AtStep, SerialInv, TypeInv, TypeOK, Steps
  <2> QED
    BY <1>2, <2>1, <2>2
<1>5. \A t \in Sagas, d \in Calls, j \in Steps :
         rows'[t][<< d, j >>] =
            IF t = s /\ d = c /\ j = i THEN "COMPLETED" ELSE rows[t][<< d, j >>]
  <2> SUFFICES ASSUME NEW t \in Sagas, NEW d \in Calls, NEW j \in Steps
               PROVE  rows'[t][<< d, j >>] =
                 IF t = s /\ d = c /\ j = i THEN "COMPLETED" ELSE rows[t][<< d, j >>]
    OBVIOUS
  <2>1. << d, j >> \in StepId /\ << c, i >> \in StepId
    BY <1>1 DEF StepId
  <2> QED
    BY <1>1, <2>1 DEF StepSucceeds, SerialInv, TypeInv, TypeOK
<1>6. \A t \in Sagas : t # s => CompletedSteps(t)' = CompletedSteps(t)
  BY <1>5, SameSteps
<1>7. CompletedSteps(s)' = CompletedSteps(s) \cup {i}
  <2>1. ASSUME NEW j \in Steps
        PROVE  j \in CompletedSteps(s)' <=> j \in CompletedSteps(s) \cup {i}
    <3>1. j \in CompletedSteps(s)' <=> \E d \in Calls : rows'[s][<< d, j >>] = "COMPLETED"
      BY CompletedStepsNext
    <3>2. j \in CompletedSteps(s) <=> \E d \in Calls : rows[s][<< d, j >>] = "COMPLETED"
      BY CompletedStepsDef
    <3>3. CASE j = i
      <4>1. rows'[s][<< c, j >>] = "COMPLETED"
        BY <1>5, <3>3
      <4> QED
        BY <3>1, <3>3, <4>1
    <3>4. CASE j # i
      <4>1. \A d \in Calls : rows'[s][<< d, j >>] = rows[s][<< d, j >>]
        BY <1>5, <3>4
      <4> QED
        BY <3>1, <3>2, <3>4, <4>1
    <3> QED
      BY <3>3, <3>4
  <2> QED
    BY <1>1, <2>1, CompletedStepsDef, CompletedStepsNext
<1>8. sagas' = sagas
  BY <1>1 DEF StepSucceeds, SetSaga, SerialInv, TypeInv, TypeOK
<1>9. [t \in Sagas |-> PhaseOf(t)]' = [t \in Sagas |-> PhaseOf(t)]
  BY <1>8 DEF PhaseOf
<1>10. [t \in Sagas |-> CompletedSteps(t)]' =
          [[t \in Sagas |-> CompletedSteps(t)] EXCEPT ![s] = @ \cup {i}]
  BY <1>1, <1>6, <1>7
<1>11. PhaseOf(s) = "forward"
  BY <1>1 DEF PhaseOf
<1>12. Contract!Steps = Steps
  BY DEF Contract!Steps, Steps
<1> QED
  BY <1>1, <1>3, <1>4, <1>9, <1>10, <1>11, <1>12 DEF Contract!Forward

\* A compensation is committed: the contract's Undo.
LEMMA UndoStep ==
    ASSUME SerialInv, TypeInv', NEW e \in Executors, NEW d \in Calls, NEW i \in Steps,
           CompensationSucceeds(e, << d, i >>), NEW s \in Sagas, s = saga[e]
    PROVE  Contract!Undo(s)
<1> USE SagaAssumption
<1>1. pc[e] = "compensate" /\ s \in Sagas /\ sagas[s] = "COMPENSATING"
  BY DEF CompensationSucceeds, AtCompensation, SerialInv, TypeInv, CallInv
<1>2. rows[s][<< d, i >>] = "COMPLETED" /\ rows' = [rows EXCEPT ![s][<< d, i >>] = "COMPENSATED"]
  BY CompensationKeeps
<1>r. ASSUME NEW t \in Sagas, NEW c \in Calls, NEW j \in Steps
      PROVE  rows'[t][<< c, j >>] = IF t = s /\ c = d /\ j = i
                                    THEN "COMPENSATED" ELSE rows[t][<< c, j >>]
  <2>1. << c, j >> \in StepId /\ << d, i >> \in StepId
    BY DEF StepId
  <2> QED
    BY <1>1, <1>2, <2>1 DEF SerialInv, TypeInv, TypeOK
<1>3. i \in CompletedSteps(s) \cap HasCompensation
  BY <1>1, <1>2, CompletedStepsDef DEF CompensationSucceeds, AtCompensation
<1>4. ASSUME NEW j \in CompletedSteps(s) \cap HasCompensation
      PROVE  j <= i
  <2>1. j \in Steps
    BY DEF Steps
  <2>2. PICK c \in Calls : rows[s][<< c, j >>] = "COMPLETED"
    BY <1>1, <2>1, CompletedStepsDef
  <2>3. << c, j >> \in loaded[e] /\ j <= index[e]
    BY <1>1, <2>1, <2>2 DEF SerialInv, CallInv
  <2>4. \A q \in loaded[e] : q[2] \in HasCompensation /\ q[2] <= index[e] => q[2] <= i
    BY DEF CompensationSucceeds, AtCompensation
  <2>5. << c, j >>[2] = j
    OBVIOUS
  <2> QED
    BY <2>3, <2>4, <2>5
<1>5. \A t \in Sagas : t # s => CompletedSteps(t)' = CompletedSteps(t)
  BY <1>r, SameSteps
<1>6. CompletedSteps(s)' = CompletedSteps(s) \ {i}
  <2>1. ASSUME NEW j \in Steps
        PROVE  j \in CompletedSteps(s)' <=> j \in CompletedSteps(s) \ {i}
    <3>1. CASE j = i
      <4>1. \A c \in Calls : rows'[s][<< c, i >>] # "COMPLETED"
        BY <1>1, <1>2, <1>r DEF SerialInv, RowsInv
      <4> QED
        BY <1>1, <3>1, <4>1, CompletedStepsNext
    <3>2. CASE j # i
      BY <1>1, <1>r, <3>2, CompletedStepsDef, CompletedStepsNext
    <3> QED
      BY <3>1, <3>2
  <2> QED
    BY <1>1, <2>1, CompletedStepsDef, CompletedStepsNext
<1>7. [t \in Sagas |-> PhaseOf(t)]' = [t \in Sagas |-> PhaseOf(t)]
  BY DEF PhaseOf, CompensationSucceeds
<1>8. [t \in Sagas |-> CompletedSteps(t)]' =
         [[t \in Sagas |-> CompletedSteps(t)] EXCEPT ![s] = @ \ {i}]
  BY <1>1, <1>5, <1>6
<1>9. PhaseOf(s) = "rollback"
  BY <1>1 DEF PhaseOf
<1> QED
  BY <1>1, <1>3, <1>4, <1>7, <1>8, <1>9 DEF Contract!Undo

\* The call may end with COMPLETED: everything is done, or undone.
LEMMA CompleteStep ==
    ASSUME SerialInv, NEW e \in Executors, AllStepsDone(e) \/ CompensationDone(e),
           NEW s \in Sagas, s = saga[e]
    PROVE  Contract!Complete(s)
<1> USE SagaAssumption
<1>1. TypeOK /\ CallInv(e)
  BY DEF SerialInv, TypeInv
<1>2. SetSaga(s, "COMPLETED") /\ rows' = rows
  BY DEF AllStepsDone, CompensationDone
<1>3. Contract!SetPhase(s, PhaseOf(s)') /\ sagas'[s] = "COMPLETED"
  BY <1>1, <1>2, PhaseStep DEF SagaState
<1>4. PhaseOf(s)' = "completed"
  BY <1>3 DEF PhaseOf
<1>5. CASE AllStepsDone(e)
  <2>1. pc[e] = "steps" /\ sagas[s] = "PENDING"
    BY <1>1, <1>5 DEF AllStepsDone, CallInv
  <2>2. \A j \in Steps : j < index[e] \/ j \in skip[e]
    BY <1>1, <1>5 DEF AllStepsDone, TypeOK, Steps
  <2>3. \A j \in Steps : \E c \in Calls : rows[s][<< c, j >>] = "COMPLETED"
    BY <1>1, <2>1, <2>2 DEF CallInv
  <2>4. CompletedSteps(s) = Steps
    BY <2>3, CompletedStepsDef
  <2>5. PhaseOf(s) = "forward" /\ Contract!Steps = Steps
    BY <2>1 DEF PhaseOf, Contract!Steps, Steps
  <2> QED
    BY <1>3, <1>4, <2>4, <2>5 DEF Contract!Complete
<1>6. CASE CompensationDone(e)
  <2>1. pc[e] = "compensate" /\ sagas[s] = "COMPENSATING"
    BY <1>1, <1>6 DEF CompensationDone, CallInv
  <2>2. ASSUME NEW j \in CompletedSteps(s) \cap HasCompensation
        PROVE  FALSE
    <3>1. j \in Steps
      BY DEF Steps
    <3>2. PICK c \in Calls : rows[s][<< c, j >>] = "COMPLETED"
      BY <3>1, CompletedStepsDef
    <3>3. << c, j >> \in loaded[e] /\ j <= index[e]
      BY <1>1, <2>1, <3>1, <3>2 DEF CallInv
    <3>4. << c, j >>[2] = j
      OBVIOUS
    <3> QED
      BY <1>6, <3>3, <3>4 DEF CompensationDone
  <2>3. PhaseOf(s) = "rollback"
    BY <2>1 DEF PhaseOf
  <2> QED
    BY <1>3, <1>4, <2>2, <2>3 DEF Contract!Complete
<1> QED
  BY <1>5, <1>6

\* The other steps of a call that write its saga's state.
LEMMA StateStep ==
    ASSUME SerialInv, NEW e \in Executors, NEW s \in Sagas, s = saga[e],
           \/ SaveContext(e)
           \/ \E i \in Steps : SagaTimesOut(e, i)
           \/ \E r \in StepId : CompensationFails(e, r)
    PROVE  Contract!Open(s) \/ Contract!GiveUp(s)
<1>1. TypeOK /\ CallInv(e)
  BY DEF SerialInv, TypeInv
<1>2. CASE SaveContext(e)
  <2>1. Contract!SetPhase(s, PhaseOf(s)') /\ sagas'[s] = "PENDING"
    BY <1>1, <1>2, PhaseStep DEF SaveContext, SagaState
  <2>2. PhaseOf(s)' = "forward"
    BY <2>1 DEF PhaseOf
  <2> QED
    BY <2>1, <2>2 DEF Contract!Open
<1>3. ASSUME SetSaga(s, "FAILED"), rows' = rows, sagas[s] \in {"PENDING", "COMPENSATING"}
      PROVE  Contract!GiveUp(s)
  <2>1. Contract!SetPhase(s, PhaseOf(s)') /\ sagas'[s] = "FAILED"
    BY <1>1, <1>3, PhaseStep DEF SagaState
  <2>2. PhaseOf(s)' = "failed" /\ PhaseOf(s) \in {"forward", "rollback"}
    BY <1>3, <2>1 DEF PhaseOf
  <2> QED
    BY <2>1, <2>2 DEF Contract!GiveUp
<1>4. CASE \E i \in Steps : SagaTimesOut(e, i)
  BY <1>1, <1>3, <1>4 DEF SagaTimesOut, AtStep, CallInv
<1>5. CASE \E r \in StepId : CompensationFails(e, r)
  BY <1>1, <1>3, <1>5 DEF CompensationFails, AtCompensation, CallInv
<1> QED
  BY <1>2, <1>4, <1>5

\* A step fails: the contract's BeginRollback.
LEMMA RollbackStep ==
    ASSUME SerialInv, TypeInv', NEW e \in Executors, NEW i \in Steps, StepFails(e, i),
           NEW s \in Sagas, s = saga[e]
    PROVE  Contract!BeginRollback(s)
<1>1. TypeOK /\ sagas[s] = "PENDING"
  BY DEF SerialInv, TypeInv, CallInv, StepFails, AtStep
<1>2. \A t \in Sagas, c \in Calls, j \in Steps :
         rows'[t][<< c, j >>] = "COMPLETED" <=> rows[t][<< c, j >>] = "COMPLETED"
  BY StepFailsKeeps
<1>3. \A t \in Sagas : CompletedSteps(t)' = CompletedSteps(t)
  BY <1>2, SameSteps
<1>4. \A t \in Sagas : sagas'[t] = IF t = s THEN "COMPENSATING" ELSE sagas[t]
  BY <1>1 DEF StepFails, SetSaga, TypeOK
<1>5. PhaseOf(s) = "forward" /\ PhaseOf(s)' = "rollback"
  BY <1>1, <1>4 DEF PhaseOf
<1>6. \A t \in Sagas : t # s => PhaseOf(t)' = PhaseOf(t)
  BY <1>4 DEF PhaseOf
<1>7. [t \in Sagas |-> PhaseOf(t)]' = [[t \in Sagas |-> PhaseOf(t)] EXCEPT ![s] = "rollback"]
  BY <1>5, <1>6
<1>8. [t \in Sagas |-> CompletedSteps(t)]' = [t \in Sagas |-> CompletedSteps(t)]
  BY <1>3
<1> QED
  BY <1>5, <1>7, <1>8 DEF Contract!BeginRollback, Contract!SetPhase

LEMMA ContractStep ==
    ASSUME SerialInv, TypeInv', [Next /\ OneHolder']_vars
    PROVE  [Contract!Next]_(Contract!vars)
<1>0. ASSUME UNCHANGED << sagas, rows >>
      PROVE  UNCHANGED Contract!vars
  BY <1>0 DEF Contract!vars, PhaseOf, CompletedSteps, CompletedRows
<1>s. ASSUME NEW e \in Executors, pc[e] # "idle"
      PROVE  saga[e] \in Sagas /\ call[e] \in Calls
  BY <1>s DEF SerialInv, TypeInv
<1>1. ASSUME NEW e \in Executors,
             \/ LoadSteps(e) \/ LoadCompleted(e) \/ Abort(e)
             \/ \E i \in Steps : StepTimesOut(e, i)
      PROVE  UNCHANGED Contract!vars
  BY <1>0, <1>1 DEF LoadSteps, LoadCompleted, Abort, StepTimesOut, tables
<1>2. ASSUME NEW e \in Executors, NEW s \in Sagas, ExecuteSaga(e, s) \/ PollerExecutes(e, s)
      PROVE  UNCHANGED Contract!vars
  BY <1>0, <1>2 DEF ExecuteSaga, PollerExecutes, Enter, tables
<1>3. ASSUME NEW p \in Pollers, ClaimSelect(p) \/ ClaimFails(p) \/ \E s \in Sagas : PollerSkips(p, s)
      PROVE  UNCHANGED Contract!vars
  BY <1>0, <1>3 DEF ClaimSelect, ClaimFails, PollerSkips, tables
<1>4. ASSUME NEW e \in Executors,
             \/ SaveContext(e)
             \/ \E i \in Steps : SagaTimesOut(e, i)
             \/ \E r \in StepId : CompensationFails(e, r)
      PROVE  Contract!Next
  <2>1. pc[e] # "idle"
    BY <1>4 DEF SaveContext, SagaTimesOut, CompensationFails, AtStep, AtCompensation
  <2>2. PICK s \in Sagas : s = saga[e]
    BY <1>s, <2>1
  <2> QED
    BY <1>4, <2>2, StateStep DEF Contract!Next
<1>5. ASSUME NEW e \in Executors, AllStepsDone(e) \/ CompensationDone(e)
      PROVE  Contract!Next
  <2>1. PICK s \in Sagas : s = saga[e]
    BY <1>s, <1>5 DEF AllStepsDone, CompensationDone
  <2> QED
    BY <1>5, <2>1, CompleteStep DEF Contract!Next
<1>6. ASSUME NEW e \in Executors, NEW i \in Steps, StepSucceeds(e, i)
      PROVE  Contract!Next
  <2>1. PICK s \in Sagas : s = saga[e]
    BY <1>s, <1>6 DEF StepSucceeds, AtStep
  <2>2. PICK c \in Calls : c = call[e]
    BY <1>s, <1>6 DEF StepSucceeds, AtStep
  <2> QED
    BY <1>6, <2>1, <2>2, ForwardStep DEF Contract!Next
<1>7. ASSUME NEW e \in Executors, NEW i \in Steps, StepFails(e, i)
      PROVE  Contract!Next
  <2>1. PICK s \in Sagas : s = saga[e]
    BY <1>s, <1>7 DEF StepFails, AtStep
  <2> QED
    BY <1>7, <2>1, RollbackStep DEF Contract!Next
<1>8. ASSUME NEW e \in Executors, NEW r \in StepId, CompensationSucceeds(e, r)
      PROVE  Contract!Next
  <2>1. PICK s \in Sagas : s = saga[e]
    BY <1>s, <1>8 DEF CompensationSucceeds, AtCompensation
  <2>2. PICK d \in Calls, i \in Steps : r = << d, i >>
    BY DEF StepId
  <2>3. CompensationSucceeds(e, << d, i >>)
    BY <1>8, <2>2
  <2> QED
    BY <2>1, <2>3, UndoStep DEF Contract!Next
<1>9. ASSUME NEW p \in Pollers, NEW s \in Sagas, ClaimUpdate(p, s)
      PROVE  Contract!Next
  <2>1. Contract!SetPhase(s, PhaseOf(s)') /\ sagas'[s] = "IN_PROGRESS"
    BY <1>9, PhaseStep DEF ClaimUpdate, SagaState, SerialInv, TypeInv
  <2>2. PhaseOf(s)' = "forward"
    BY <2>1 DEF PhaseOf
  <2> QED
    BY <2>1, <2>2 DEF Contract!Next, Contract!Open
<1>10. ASSUME Crash \/ UNCHANGED vars
       PROVE  UNCHANGED Contract!vars
  BY <1>0, <1>10 DEF Crash, tables, vars
<1>11. Consumers \subseteq Executors /\ Pollers \subseteq Executors
  BY DEF Executors
<1> QED
  BY <1>1, <1>2, <1>3, <1>4, <1>5, <1>6, <1>7, <1>8, <1>9, <1>10, <1>11
     DEF Next, Progress, Interrupted, PollerStep

\* When no saga is with two executors, execute_saga implements SagaContract
\* through any crash, timeout, early return and repeated call: steps complete in
\* order, are undone in reverse, and COMPLETED means all done or all undone.
THEOREM OrchestratorImplementsContract == SerialSpec => ContractSpec
<1>1. Init => SerialInv
  BY InitSerial
<1>2. SerialInv /\ [Next /\ OneHolder']_vars => SerialInv'
  BY NextSerial
<1>3. SerialInv /\ SerialInv' /\ [Next /\ OneHolder']_vars => [Contract!Next]_(Contract!vars)
  BY ContractStep DEF SerialInv
<1>4. Init => Contract!Init
  <2> SUFFICES ASSUME Init PROVE Contract!Init
    OBVIOUS
  <2>1. \A s \in Sagas : PhaseOf(s) = "absent"
    BY DEF Init, PhaseOf
  <2>2. \A s \in Sagas : CompletedSteps(s) = {}
    BY DEF Init, CompletedSteps, CompletedRows
  <2> QED
    BY <2>1, <2>2 DEF Contract!Init
<1> QED
  BY <1>1, <1>2, <1>3, <1>4, PTL DEF SerialSpec, ContractSpec, Contract!Spec

=============================================================================
