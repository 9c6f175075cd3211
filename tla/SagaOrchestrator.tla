-------------------------- MODULE SagaOrchestrator --------------------------
(***************************************************************************)
(* PostgresSagaOrchestrator::execute_saga, the saga tables it writes, and  *)
(* the pollers: SagaPoller (crates/server/infrastructure/src/persistence/  *)
(* postgres/saga_repository.rs) and the safety poll of the                 *)
(* ReactiveSagaProcessor (persistence/saga/reactive_processor.rs).         *)
(*                                                                         *)
(* Every caller of execute_saga runs it in its own task.  The dispatcher   *)
(* derives the saga id from the job and the worker, so that the same saga  *)
(* can be called again, after or during an earlier call; the poller calls  *)
(* it for the sagas it claims.  A call is split at its transactions: what  *)
(* a transaction writes appears at its commit, and a call that returns     *)
(* early, is dropped by its caller's timeout or dies with the server leaves*)
(* what it committed before.                                               *)
(*                                                                         *)
(* A step row is named by the call that wrote it and its step_order: the   *)
(* step_id is a fresh uuid, and a call starts a step at most once.  What a *)
(* step does to jobs and workers is the matter of JobExecution.            *)
(***************************************************************************)
EXTENDS Naturals, FiniteSets

CONSTANTS
    Sagas,            \* saga ids
    Provisioning,     \* the sagas of type PROVISIONING
    NSteps,           \* number of steps of a saga
    HasCompensation,  \* the steps with has_compensation()
    Consumers,        \* tasks that call execute_saga
    Pollers,          \* SagaPoller loops and ReactiveSagaProcessor safety polls
    Reactive,         \* of them, the safety polls, which execute nothing
    MaxConcurrent,    \* max_concurrent_sagas
    MaxCalls,         \* bound: calls of execute_saga in a behaviour
    NoSaga

Steps == 1..NSteps
Calls == 1..MaxCalls
StepId == Calls \X Steps
Executors == Consumers \cup Pollers

ASSUME SagaAssumption ==
    /\ NSteps \in Nat
    /\ HasCompensation \subseteq 1..NSteps
    /\ Provisioning \subseteq Sagas
    /\ Reactive \subseteq Pollers
    /\ MaxConcurrent \in Nat \ {0}
    /\ MaxCalls \in Nat
    /\ NoSaga \notin Sagas
    /\ IsFiniteSet(Executors)

VARIABLES
    sagas,      \* [Sagas -> SagaState or "ABSENT"]: the state column of sagas
    rows,       \* [Sagas -> [StepId -> StepState or "ABSENT"]]: saga_steps
    active,     \* active_sagas
    permits,    \* available permits of concurrency_semaphore
    lastCall,   \* number of calls so far
    pc,         \* [Executors -> Pc]: where the executor's call is
    saga,       \* [Executors -> Sagas \cup {NoSaga}]: the saga it executes
    call,       \* [Executors -> Nat]: which call it is
    index,      \* [Executors -> Nat]: the loop variable, forward or reversed
    skip,       \* [Executors -> SUBSET Steps]: completed_step_indices
    loaded,     \* [Executors -> SUBSET StepId]: completed_steps_data
    claimed,    \* [Executors -> SUBSET Sagas]: a poller's unprocessed batch
    marked      \* [Executors -> SUBSET Sagas]: of it, already IN_PROGRESS

tables == << sagas, rows >>
limits == << active, permits >>
locals == << saga, call, index, skip, loaded >>
batches == << claimed, marked >>
vars == << sagas, rows, active, permits, lastCall, pc, saga, call, index, skip,
           loaded, claimed, marked >>

SagaState == { "PENDING", "IN_PROGRESS", "COMPENSATING", "COMPLETED", "FAILED" }
StepState == { "COMPLETED", "FAILED", "COMPENSATED" }
SagaTerminal == { "COMPLETED", "FAILED" }
Pc == { "idle", "save", "load", "steps", "load_completed", "compensate" }

Init ==
    /\ sagas    = [s \in Sagas |-> "ABSENT"]
    /\ rows     = [s \in Sagas |-> [r \in StepId |-> "ABSENT"]]
    /\ active   = 0
    /\ permits  = MaxConcurrent
    /\ lastCall = 0
    /\ pc       = [e \in Executors |-> "idle"]
    /\ saga     = [e \in Executors |-> NoSaga]
    /\ call     = [e \in Executors |-> 0]
    /\ index    = [e \in Executors |-> 0]
    /\ skip     = [e \in Executors |-> {}]
    /\ loaded   = [e \in Executors |-> {}]
    /\ claimed  = [e \in Executors |-> {}]
    /\ marked   = [e \in Executors |-> {}]

-----------------------------------------------------------------------------
(* The repository.                                                         *)

\* The UPDATEs of a saga row's state: no version and no old state is checked.
SetSaga(s, st) == sagas' = [sagas EXCEPT ![s] = st]

\* update_step_state_with_tx: an UPDATE by id; no row, no effect.
UpdatedStep(s, r, st) ==
    IF rows[s][r] = "ABSENT" THEN rows ELSE [rows EXCEPT ![s][r] = st]

\* find_steps_by_saga_id, filtered on COMPLETED.
CompletedRows(s) == { r \in StepId : rows[s][r] = "COMPLETED" }
CompletedSteps(s) == { r[2] : r \in CompletedRows(s) }

-----------------------------------------------------------------------------
(* One call of execute_saga.                                               *)

\* The call returns; DropGuard gives back a permit nobody holds any more.
Return(e) ==
    /\ pc'      = [pc EXCEPT ![e] = "idle"]
    /\ saga'    = [saga EXCEPT ![e] = NoSaga]
    /\ call'    = [call EXCEPT ![e] = 0]
    /\ index'   = [index EXCEPT ![e] = 0]
    /\ skip'    = [skip EXCEPT ![e] = {}]
    /\ loaded'  = [loaded EXCEPT ![e] = {}]
    /\ active'  = active - 1
    /\ permits' = permits + 1
    /\ UNCHANGED << lastCall, batches >>

\* try_acquire: the permit is dropped at the end of the match arm, so that it
\* is available again before the call does anything.
Enter(e, s) ==
    /\ pc[e] = "idle"
    /\ lastCall < MaxCalls
    /\ permits > 0
    /\ active' = active + 1
    /\ lastCall' = lastCall + 1
    /\ pc'   = [pc EXCEPT ![e] = "save"]
    /\ saga' = [saga EXCEPT ![e] = s]
    /\ call' = [call EXCEPT ![e] = lastCall + 1]
    /\ UNCHANGED << tables, permits, index, skip, loaded >>

\* A consumer or the dispatcher calls execute_saga for a new or a known saga.
ExecuteSaga(e, s) ==
    /\ e \in Consumers
    /\ Enter(e, s)
    /\ UNCHANGED batches

\* The initial save; every caller passes a context in state Pending.
SaveContext(e) ==
    /\ pc[e] = "save"
    /\ SetSaga(saga[e], "PENDING")
    /\ pc' = [pc EXCEPT ![e] = "load"]
    /\ UNCHANGED << rows, limits, lastCall, locals, batches >>

\* Mutated form of LoadSteps: a resumed saga starts from the first step.
LoadStepsFromScratch(e) ==
    /\ pc[e] = "load"
    /\ skip'  = [skip EXCEPT ![e] = {}]
    /\ index' = [index EXCEPT ![e] = 1]
    /\ pc'    = [pc EXCEPT ![e] = "steps"]
    /\ UNCHANGED << tables, limits, lastCall, saga, call, loaded, batches >>

\* Resume logic: completed steps are skipped.
LoadSteps(e) ==
    /\ pc[e] = "load"
    /\ skip'  = [skip EXCEPT ![e] = CompletedSteps(saga[e])]
    /\ index' = [index EXCEPT ![e] = 1]
    /\ pc'    = [pc EXCEPT ![e] = "steps"]
    /\ UNCHANGED << tables, limits, lastCall, saga, call, loaded, batches >>

\* The loop has come to step i, the next one that is not skipped.
AtStep(e, i) ==
    /\ pc[e] = "steps"
    /\ i \in Steps
    /\ i >= index[e]
    /\ i \notin skip[e]
    /\ \A j \in Steps : index[e] <= j /\ j < i => j \in skip[e]

\* The step succeeds: its row and the context are committed together.
StepSucceeds(e, i) ==
    /\ AtStep(e, i)
    /\ rows'  = [rows EXCEPT ![saga[e]][<< call[e], i >>] = "COMPLETED"]
    /\ SetSaga(saga[e], "PENDING")
    /\ index' = [index EXCEPT ![e] = i + 1]
    /\ UNCHANGED << limits, lastCall, pc, saga, call, skip, loaded, batches >>

\* The step fails: its transaction, with the step's row in it, is rolled back,
\* and a new one marks that row FAILED and the saga COMPENSATING.
StepFails(e, i) ==
    /\ AtStep(e, i)
    /\ rows' = UpdatedStep(saga[e], << call[e], i >>, "FAILED")
    /\ SetSaga(saga[e], "COMPENSATING")
    /\ pc' = [pc EXCEPT ![e] = "load_completed"]
    /\ UNCHANGED << limits, lastCall, locals, batches >>

\* step_timeout passes: rollback and Err, the saga row stays as it is.
StepTimesOut(e, i) ==
    /\ AtStep(e, i)
    /\ Return(e)
    /\ UNCHANGED tables

\* saga_timeout has passed before a step is started.
SagaTimesOut(e, i) ==
    /\ AtStep(e, i)
    /\ SetSaga(saga[e], "FAILED")
    /\ Return(e)
    /\ UNCHANGED rows

\* The loop ends: every step is completed.
AllStepsDone(e) ==
    /\ pc[e] = "steps"
    /\ \A j \in Steps : j >= index[e] => j \in skip[e]
    /\ SetSaga(saga[e], "COMPLETED")
    /\ Return(e)
    /\ UNCHANGED rows

\* The completed steps are read again before the first compensation.
LoadCompleted(e) ==
    /\ pc[e] = "load_completed"
    /\ loaded' = [loaded EXCEPT ![e] = CompletedRows(saga[e])]
    /\ index'  = [index EXCEPT ![e] = NSteps]
    /\ pc'     = [pc EXCEPT ![e] = "compensate"]
    /\ UNCHANGED << tables, limits, lastCall, saga, call, skip, batches >>

\* Mutated form of AtCompensation: the loop is not reversed.
AtCompensationForward(e, r) ==
    /\ pc[e] = "compensate"
    /\ r \in loaded[e]
    /\ r[2] \in HasCompensation
    /\ r[2] <= index[e]
    /\ \A q \in loaded[e] : q[2] \in HasCompensation => q[2] >= r[2]

\* The reversed loop has come to row r of a loaded step with a compensation.
\* With several rows of that step_order, find() takes any one of them.
AtCompensation(e, r) ==
    /\ pc[e] = "compensate"
    /\ r \in loaded[e]
    /\ r[2] \in HasCompensation
    /\ r[2] <= index[e]
    /\ \A q \in loaded[e] : q[2] \in HasCompensation /\ q[2] <= index[e] => q[2] <= r[2]

\* One compensation is committed with the row it undoes.
CompensationSucceeds(e, r) ==
    /\ AtCompensation(e, r)
    /\ rows' = UpdatedStep(saga[e], r, "COMPENSATED")
    /\ index' = [index EXCEPT ![e] = r[2] - 1]
    /\ UNCHANGED << sagas, limits, lastCall, pc, saga, call, skip, loaded, batches >>

\* A compensation fails: it is rolled back and the saga gives up.
CompensationFails(e, r) ==
    /\ AtCompensation(e, r)
    /\ SetSaga(saga[e], "FAILED")
    /\ Return(e)
    /\ UNCHANGED rows

\* The reversed loop ends: "successful compensation = complete rollback".
CompensationDone(e) ==
    /\ pc[e] = "compensate"
    /\ \A q \in loaded[e] : ~ (q[2] \in HasCompensation /\ q[2] <= index[e])
    /\ SetSaga(saga[e], "COMPLETED")
    /\ Return(e)
    /\ UNCHANGED rows

\* Mutated form of Abort: an early return without the DropGuard.
AbortLeaks(e) ==
    /\ pc[e] # "idle"
    /\ pc'   = [pc EXCEPT ![e] = "idle"]
    /\ saga' = [saga EXCEPT ![e] = NoSaga]
    /\ call' = [call EXCEPT ![e] = 0]
    /\ index' = [index EXCEPT ![e] = 0]
    /\ skip' = [skip EXCEPT ![e] = {}]
    /\ loaded' = [loaded EXCEPT ![e] = {}]
    /\ UNCHANGED << tables, limits, lastCall, batches >>

\* Mutated form of Abort: the error path counts the call out, and then the
\* DropGuard does.
AbortCountsTwice(e) ==
    /\ pc[e] # "idle"
    /\ pc'   = [pc EXCEPT ![e] = "idle"]
    /\ saga' = [saga EXCEPT ![e] = NoSaga]
    /\ call' = [call EXCEPT ![e] = 0]
    /\ index' = [index EXCEPT ![e] = 0]
    /\ skip' = [skip EXCEPT ![e] = {}]
    /\ loaded' = [loaded EXCEPT ![e] = {}]
    /\ active' = active - 2
    /\ permits' = permits + 1
    /\ UNCHANGED << tables, lastCall, batches >>

\* A database error returns early, or the caller's own timeout drops the call.
Abort(e) ==
    /\ pc[e] # "idle"
    /\ Return(e)
    /\ UNCHANGED tables

-----------------------------------------------------------------------------
(* The poller.                                                             *)

\* The first SELECT of claim_pending_sagas.  It runs in its own transaction:
\* its row locks are gone when it returns.  An IN_PROGRESS saga is old enough
\* or not, depending on clocks.
Claimable(s) == sagas[s] \in { "PENDING", "IN_PROGRESS", "COMPENSATING" }

ClaimSelect(p) ==
    /\ p \in Pollers
    /\ pc[p] = "idle"
    /\ claimed[p] = {}
    /\ \E S \in SUBSET { s \in Sagas : Claimable(s) } :
         /\ S # {}
         /\ claimed' = [claimed EXCEPT ![p] = S]
    /\ UNCHANGED << tables, limits, lastCall, pc, locals, marked >>

\* The UPDATEs that follow, one per row and by id only.
ClaimUpdate(p, s) ==
    /\ s \in claimed[p] \ marked[p]
    /\ pc[p] = "idle"
    /\ SetSaga(s, "IN_PROGRESS")
    /\ marked' = [marked EXCEPT ![p] = @ \cup {s}]
    /\ UNCHANGED << rows, limits, lastCall, pc, locals, claimed >>

\* An UPDATE is refused (it binds the uuid column as text) or the connection
\* fails: the whole batch is given up, with the rows marked so far.
ClaimFails(p) ==
    /\ claimed[p] \ marked[p] # {}
    /\ pc[p] = "idle"
    /\ claimed' = [claimed EXCEPT ![p] = {}]
    /\ marked'  = [marked EXCEPT ![p] = {}]
    /\ UNCHANGED << tables, limits, lastCall, pc, locals >>

\* process_pending_sagas takes the next saga of the batch.
Taken(p, s) ==
    /\ s \in claimed[p]
    /\ pc[p] = "idle"
    /\ claimed[p] \subseteq marked[p]
    /\ claimed' = [claimed EXCEPT ![p] = @ \ {s}]
    /\ marked'  = [marked EXCEPT ![p] = @ \ {s}]

PollerExecutes(p, s) ==
    /\ p \notin Reactive
    /\ s \notin Provisioning
    /\ Taken(p, s)
    /\ Enter(p, s)

\* The poller's saga_factory has no saga of type PROVISIONING, and the safety poll
\* only counts the sagas it claimed: they stay IN_PROGRESS.
PollerSkips(p, s) ==
    /\ p \in Reactive \/ s \in Provisioning
    /\ Taken(p, s)
    /\ UNCHANGED << tables, limits, lastCall, pc, locals >>

\* The server process dies: calls and counters are gone, the tables stay.
Crash ==
    /\ pc'      = [e \in Executors |-> "idle"]
    /\ saga'    = [e \in Executors |-> NoSaga]
    /\ call'    = [e \in Executors |-> 0]
    /\ index'   = [e \in Executors |-> 0]
    /\ skip'    = [e \in Executors |-> {}]
    /\ loaded'  = [e \in Executors |-> {}]
    /\ claimed' = [e \in Executors |-> {}]
    /\ marked'  = [e \in Executors |-> {}]
    /\ active'  = 0
    /\ permits' = MaxConcurrent
    /\ UNCHANGED << tables, lastCall >>

-----------------------------------------------------------------------------
\* What a call does once its current await returns.
Progress(e) ==
    \/ SaveContext(e)
    \/ LoadSteps(e)
    \/ LoadCompleted(e)
    \/ AllStepsDone(e)
    \/ CompensationDone(e)
    \/ \E i \in Steps : StepSucceeds(e, i) \/ StepFails(e, i)
    \/ \E r \in StepId : CompensationSucceeds(e, r) \/ CompensationFails(e, r)

Interrupted(e) ==
    \/ Abort(e)
    \/ \E i \in Steps : StepTimesOut(e, i) \/ SagaTimesOut(e, i)

PollerStep(p) ==
    \/ ClaimSelect(p)
    \/ \E s \in Sagas : ClaimUpdate(p, s) \/ PollerExecutes(p, s) \/ PollerSkips(p, s)

Next ==
    \/ \E e \in Consumers, s \in Sagas : ExecuteSaga(e, s)
    \/ \E e \in Executors : Progress(e) \/ Interrupted(e)
    \/ \E p \in Pollers : PollerStep(p) \/ ClaimFails(p)
    \/ Crash

Spec == Init /\ [][Next]_vars

\* The executors that are in a call.
Busy == { e \in Executors : pc[e] # "idle" }

\* The sagas executor e executes or has claimed.
Holds(e) == claimed[e] \cup ({saga[e]} \ {NoSaga})

\* No saga is with two executors.
OneHolder ==
    \A e1, e2 \in Executors : e1 # e2 => Holds(e1) \cap Holds(e2) = {}

\* Behaviours in which callers and pollers never take a saga that somebody has.
SerialSpec == Init /\ [][Next /\ OneHolder']_vars

-----------------------------------------------------------------------------
(* Properties.                                                             *)

\* Every column and local variable keeps to the values the code gives it; a
\* call's position stays within the loop bounds of execute_saga.
TypeOK ==
    /\ sagas \in [Sagas -> SagaState \cup {"ABSENT"}]
    /\ rows \in [Sagas -> [StepId -> StepState \cup {"ABSENT"}]]
    /\ active \in Nat
    /\ permits \in Nat
    /\ lastCall \in 0..MaxCalls
    /\ pc \in [Executors -> Pc]
    /\ saga \in [Executors -> Sagas \cup {NoSaga}]
    /\ call \in [Executors -> 0..MaxCalls]
    /\ index \in [Executors -> 0..(NSteps + 1)]
    /\ skip \in [Executors -> SUBSET Steps]
    /\ loaded \in [Executors -> SUBSET StepId]
    /\ claimed \in [Executors -> SUBSET Sagas]
    /\ marked \in [Executors -> SUBSET Sagas]

\* active_sagas counts the calls that are running, through every early return,
\* dropped call and restart: the DropGuard of execute_saga runs exactly once.
ActiveIsExact == active = Cardinality(Busy)

\* A step of a saga has at most one row in state COMPLETED: resuming a saga
\* never completes a step again that is completed and not compensated.  Holds
\* when no saga is with two executors (SerialSpec).
StepCompletedOnce ==
    \A s \in Sagas : \A q, r \in CompletedRows(s) : q[2] = r[2] => q = r

\* The promise of SagaContract, of the tables alone: whatever is interrupted
\* and called again, steps complete in order, are compensated in reverse order,
\* and COMPLETED means all done or all compensated.
PhaseOf(s) ==
    CASE sagas[s] \in {"PENDING", "IN_PROGRESS"} -> "forward"
      [] sagas[s] = "COMPENSATING" -> "rollback"
      [] sagas[s] = "COMPLETED" -> "completed"
      [] sagas[s] = "FAILED" -> "failed"
      [] OTHER -> "absent"

Contract == INSTANCE SagaContract WITH
    phase <- [s \in Sagas |-> PhaseOf(s)],
    done  <- [s \in Sagas |-> CompletedSteps(s)]

ContractSpec == Contract!Spec

\* "If we are compensating, we should jump directly to compensation logic": a
\* saga that is being compensated goes on to a terminal state.
RollbackGoesOn ==
    [][\A s \in Sagas : sagas[s] = "COMPENSATING" =>
           sagas'[s] \in {"COMPENSATING"} \cup SagaTerminal]_sagas

=============================================================================
