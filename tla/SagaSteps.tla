------------------------------ MODULE SagaSteps ------------------------------
(***************************************************************************)
(* What the steps and the compensations of the six sagas do to jobs,       *)
(* workers and containers (crates/server/domain/src/saga/*.rs, the command *)
(* handlers under saga/commands/, and the consumers and coordinators that  *)
(* start sagas).                                                           *)
(*                                                                         *)
(* The orchestrator is the one of SagaOrchestrator, reduced to what a step *)
(* can see of it: the next step of a run, its failure, the reversed loop   *)
(* over completed steps, a call that is cut off and resumed.  A command    *)
(* that writes a job on the strength of what it has read is several        *)
(* actions, with its copy in call: the mutex of the in-memory bus only     *)
(* keeps the commands of execution sagas apart, and not the other sagas,   *)
(* the compensations or the gRPC handlers.  A command that writes without  *)
(* looking is one action; what fails half-way leaves what it wrote before, *)
(* as separate outcomes.  AssignJob and JobResult, here one action each,   *)
(* are taken apart in JobExecution.                                        *)
(***************************************************************************)
EXTENDS JobStates, Naturals, Sequences, FiniteSets

CONSTANTS
    Jobs, Workers,
    Registered,   \* the workers that are registered and READY at the start
    Runs,         \* saga executions
    May,          \* [Runs -> SUBSET Kinds]: bound, which sagas a run may be of
    Services,     \* the kinds whose starter gives the context SagaServices
    NoJob, NoWorker,
    MaxFaults     \* bound: failed database, provider and network calls, and
                  \* calls of execute_saga cut off half-way

VARIABLES
    job,       \* [Jobs -> JobState]
    row,       \* [Workers -> WorkerState or "Absent"]: state column of workers
    current,   \* [Workers -> Jobs \cup {NoJob}]: current_job_id
    infra,     \* containers that exist
    issued,    \* worker ids that were given out
    refused,   \* containers a provider refused to destroy
    stray,     \* containers that were made and that no step has on record
    sent,      \* [Jobs -> Nat]: RUN_JOB messages sent for the job
    reported,  \* jobs whose worker reported a result
    saga,      \* [Runs -> Saga]
    ctx,       \* [Runs -> Ctx]: metadata of the context, as last committed
    call,      \* [Runs -> Call]: how far the step's command has come
    faults

vars == << job, row, current, infra, issued, refused, stray, sent, reported, saga, ctx,
           call, faults >>
places == << infra, issued, refused, stray >>
outside == << sent, reported >>

\* Saga::steps of the six sagas.  The two steps named ReleaseWorker differ.
StepsOf ==
    [ execution    |-> << "ValidateJob", "AssignWorker", "ExecuteJob", "CompleteJob" >>,
      provisioning |-> << "ValidateProviderCapacity", "CreateInfrastructure",
                          "PublishProvisionedEvent" >>,
      cancellation |-> << "ValidateCancellation", "NotifyWorker", "UpdateJobState",
                          "ReleaseWorker" >>,
      timeout      |-> << "ValidateTimeout", "TerminateWorker", "MarkJobFailed",
                          "ReleaseTimedOutWorker" >>,
      recovery     |-> << "CheckWorkerConnectivity", "ProvisionNewWorker", "TransferJob",
                          "TerminateOldWorker", "CancelOldWorker" >>,
      cleanup      |-> << "IdentifyUnhealthyWorkers", "IdentifyOrphanedJobs",
                          "CleanupUnhealthyWorkers", "ResetOrphanedJobs",
                          "PublishCleanupMetrics" >> ]

Kinds == DOMAIN StepsOf

ASSUME StepsAssumption ==
    /\ NoJob \notin Jobs
    /\ NoWorker \notin Workers
    /\ Registered \subseteq Workers
    /\ May \in [Runs -> SUBSET Kinds]
    /\ MaxFaults \in Nat

\* has_compensation(); the steps of recovery.rs keep the trait's default, true.
HasCompensation ==
    { "AssignWorker", "ExecuteJob", "CreateInfrastructure", "UpdateJobState",
      "TerminateWorker", "MarkJobFailed", "ReleaseTimedOutWorker", "ResetOrphanedJobs" }
    \cup { StepsOf.recovery[i] : i \in 1..5 }

Phase == { "none", "forward", "rollback", "completed", "rolled_back", "failed", "cut" }

\* worker: execution_worker_id, worker_id, cancelled_worker_id, timed_out_worker_id
\* or new_worker_id, by kind; skipped: timeout_skipped; transferred:
\* job_transfer_done; orphans: orphaned_job_ids; unhealthy: unhealthy_worker_ids.
NewCtx == [ worker |-> NoWorker, skipped |-> FALSE, transferred |-> FALSE,
            orphans |-> {}, unhealthy |-> {} ]

\* job and worker are the arguments of the saga; spec is the worker id of the
\* WorkerSpec that provisioning and recovery create a worker from.
NoSaga == [ kind |-> "execution", job |-> NoJob, worker |-> NoWorker, spec |-> NoWorker,
            services |-> FALSE, st |-> "none", at |-> 1, done |-> {} ]

\* seen: the state of the job the command has read; worker: the worker it has
\* found; job, taken: the orphan it is at, and the ones it is through with.
NoCall == [ pc |-> "none", seen |-> "none", worker |-> NoWorker, job |-> NoJob,
            taken |-> {} ]

\* A worker registers with the job it was made for, or with a job id of nobody.
Init ==
    /\ job = [j \in Jobs |-> "Pending"]
    /\ row = [w \in Workers |-> IF w \in Registered THEN "Ready" ELSE "Absent"]
    /\ infra = Registered
    /\ issued = Registered
    /\ current \in { f \in [Workers -> Jobs \cup {NoJob}] :
                       \A w \in Workers \ Registered : f[w] = NoJob }
    /\ refused = {}
    /\ stray = {}
    /\ sent = [j \in Jobs |-> 0]
    /\ reported = {}
    /\ saga = [r \in Runs |-> NoSaga]
    /\ ctx = [r \in Runs |-> NewCtx]
    /\ call = [r \in Runs |-> NoCall]
    /\ faults = 0

-----------------------------------------------------------------------------
(* The orchestrator, as a step sees it.                                    *)

StepAt(r) == StepsOf[saga[r].kind][saga[r].at]
Arg(r) == saga[r].job

\* The loop has come to the step of this name.
At(r, name) ==
    /\ saga[r].st = "forward"
    /\ saga[r].at <= Len(StepsOf[saga[r].kind])
    /\ StepAt(r) = name

Ready(r, name) == At(r, name) /\ saga[r].services

\* The command of the step goes on, or has returned.
Calls(r, c) == call' = [call EXCEPT ![r] = c] /\ UNCHANGED << saga, ctx >>
Returned(r) == call' = [call EXCEPT ![r] = NoCall]

\* The step returns Ok: its row and the context are committed.
StepOk(r, c) ==
    /\ saga' = [saga EXCEPT ![r].at = @ + 1, ![r].done = @ \cup {saga[r].at}]
    /\ ctx' = [ctx EXCEPT ![r] = c]
    /\ Returned(r)

\* The step returns Err: the completed steps are compensated.
StepErr(r) ==
    /\ saga' = [saga EXCEPT ![r].st = "rollback", ![r].at = @ - 1]
    /\ Returned(r)
    /\ UNCHANGED ctx

\* The reversed loop has come to a completed step with a compensation.
AtComp(r, name) ==
    /\ saga[r].st = "rollback"
    /\ saga[r].at > 0
    /\ saga[r].at \in saga[r].done
    /\ StepAt(r) = name

ReadyComp(r, name) == AtComp(r, name) /\ saga[r].services

CompOk(r) ==
    /\ saga' = [saga EXCEPT ![r].at = @ - 1, ![r].done = @ \ {saga[r].at}]
    /\ Returned(r)
    /\ UNCHANGED ctx

CompErr(r) ==
    /\ saga' = [saga EXCEPT ![r].st = "failed"]
    /\ Returned(r)
    /\ UNCHANGED ctx

NoFault == UNCHANGED faults
Fault == faults < MaxFaults /\ faults' = faults + 1

\* dispatch_erased returns Err and nothing is done: the bus has no handler for
\* the command, or the handler's first call to database or provider fails.
Undispatched == Fault

SetJob(j, s) == job' = [job EXCEPT ![j] = s]

\* update_state of the registry: an UPDATE by id; no row, no effect.
RowSet(w, s) == IF row[w] = "Absent" THEN row ELSE [row EXCEPT ![w] = s]
SetRow(w, s) == row' = RowSet(w, s)

\* unregister: the row is deleted.
DropRow(w) ==
    /\ row' = [row EXCEPT ![w] = "Absent"]
    /\ current' = [current EXCEPT ![w] = NoJob]

\* get_by_job_id: LIMIT 1 without an order, hence any of them.
WorkersOf(j) == { w \in Workers : row[w] # "Absent" /\ current[w] = j }

KeepJobs == UNCHANGED << job, outside >>
KeepWorkers == UNCHANGED << row, current, places >>
KeepWorld == KeepJobs /\ KeepWorkers

\* What set_state(t), its error dropped, leaves in a copy: can_transition decides.
SetStateResult(s, t) == IF CanTransition(s, t) THEN t ELSE s

\* The bus runs one command at a time; execution sagas have one bus.
InCommand(r) == saga[r].kind = "execution" /\ saga[r].st = "forward" /\ call[r].pc # "none"

\* The command of an execution step is at this point.
Command(r, name, pc) ==
    /\ Ready(r, name)
    /\ call[r].pc = pc
    /\ pc = "none" => \A q \in Runs : ~ InCommand(q)

\* A write of the job that may fail, with or without effect.
MaySetJob(j, s) == job' \in { job, [job EXCEPT ![j] = s] }

-----------------------------------------------------------------------------
(* Execution.                                                              *)

ValidateJob(r) ==
    LET valid == job[Arg(r)] \in {"Pending", "Running", "Assigned", "Scheduled"} IN
    /\ Ready(r, "ValidateJob")
    /\ \/ valid /\ NoFault /\ StepOk(r, ctx[r])
       \/ ~ valid /\ NoFault /\ StepErr(r)
       \/ Fault /\ StepErr(r)
    /\ KeepWorld

\* A pre-assigned worker must be READY or BUSY; else the first READY one.
Candidates(r) ==
    IF saga[r].worker # NoWorker
      THEN { w \in {saga[r].worker} : row[w] \in {"Ready", "Busy"} }
      ELSE { w \in Workers : row[w] = "Ready" }

\* AssignWorkerHandler finds the worker first.
AssignWorkerFinds(r) ==
    /\ Command(r, "AssignWorker", "none")
    /\ KeepWorld
    /\ \/ Undispatched /\ StepErr(r)
       \/ NoFault /\ Candidates(r) = {} /\ StepErr(r)
       \/ NoFault /\ \E w \in Candidates(r) :
            Calls(r, [NoCall EXCEPT !.pc = "worker", !.worker = w])

AssignWorkerReads(r) ==
    LET s == job[Arg(r)] IN
    /\ Command(r, "AssignWorker", "worker")
    /\ KeepWorld
    /\ \/ Fault /\ StepErr(r)
       \/ NoFault /\ ~ CanTransition(s, "Assigned") /\ StepErr(r)
       \/ /\ NoFault /\ CanTransition(s, "Assigned")
          /\ Calls(r, [call[r] EXCEPT !.pc = "job", !.seen = s])

\* The job is saved before the worker is touched: a failure in between leaves
\* the job ASSIGNED.
AssignWorkerSaves(r) ==
    /\ Command(r, "AssignWorker", "job")
    /\ KeepWorkers
    /\ UNCHANGED outside
    /\ \/ NoFault /\ SetJob(Arg(r), "Assigned") /\ Calls(r, [call[r] EXCEPT !.pc = "saved"])
       \/ Fault /\ MaySetJob(Arg(r), "Assigned") /\ StepErr(r)

\* The worker is looked up again for the result.  current_job_id is not set.
AssignWorkerTakes(r) ==
    LET w == call[r].worker IN
    /\ Command(r, "AssignWorker", "saved")
    /\ UNCHANGED << job, current, places, outside >>
    /\ \/ NoFault /\ row[w] # "Absent" /\ SetRow(w, "Busy") /\ StepOk(r, [ctx[r] EXCEPT !.worker = w])
       \/ NoFault /\ row[w] = "Absent" /\ UNCHANGED row /\ StepErr(r)
       \/ Fault /\ row' \in {row, RowSet(w, "Busy")} /\ StepErr(r)

\* ExecuteJobHandler verifies that job and worker exist; JobExecutorImpl then
\* takes the copy of the job it works with.
ExecuteJobReads(r) ==
    /\ Command(r, "ExecuteJob", "none")
    /\ KeepWorld
    /\ \/ Undispatched /\ StepErr(r)
       \/ NoFault /\ row[ctx[r].worker] = "Absent" /\ StepErr(r)
       \/ /\ NoFault /\ row[ctx[r].worker] # "Absent"
          /\ Calls(r, [NoCall EXCEPT !.pc = "job", !.seen = job[Arg(r)]])

\* RUN_JOB is sent whatever the state of the copy.
RunJobSent(j) == sent' = [sent EXCEPT ![j] = @ + 1]

\* Mutated form of ExecuteJobSends: the handler built without a JobExecutor,
\* which only marks the job RUNNING.
ExecuteJobUnsent(r) ==
    /\ Command(r, "ExecuteJob", "job")
    /\ KeepWorkers
    /\ UNCHANGED outside
    /\ NoFault
    /\ SetJob(Arg(r), "Running")
    /\ StepOk(r, ctx[r])

ExecuteJobSends(r) ==
    LET reachable == ctx[r].worker \in infra IN
    /\ Command(r, "ExecuteJob", "job")
    /\ KeepWorkers
    /\ UNCHANGED << job, reported >>
    /\ \/ (Fault \/ (NoFault /\ ~ reachable)) /\ UNCHANGED sent /\ StepErr(r)
       \/ NoFault /\ reachable /\ RunJobSent(Arg(r)) /\ Calls(r, [call[r] EXCEPT !.pc = "sent"])

\* mark_running is tried on the copy, and the copy is saved over the row; the
\* JobStarted event comes last.
ExecuteJobSaves(r) ==
    LET started == IsScheduled(call[r].seen) IN
    /\ Command(r, "ExecuteJob", "sent")
    /\ KeepWorkers
    /\ UNCHANGED outside
    /\ \/ ~ started /\ NoFault /\ UNCHANGED job /\ StepErr(r)
       \/ started /\ NoFault /\ SetJob(Arg(r), "Running") /\ StepOk(r, ctx[r])
       \/ started /\ Fault /\ MaySetJob(Arg(r), "Running") /\ StepErr(r)

\* Mutated form of CompleteJobReads: the transition is not checked.
CompleteJobUnchecked(r) ==
    /\ Command(r, "CompleteJob", "none")
    /\ KeepWorld
    /\ \/ Undispatched /\ StepErr(r)
       \/ NoFault /\ Calls(r, [NoCall EXCEPT !.pc = "job", !.seen = job[Arg(r)]])

\* The step runs right after ExecuteJob and always reports success.
CompleteJobReads(r) ==
    LET s == job[Arg(r)] IN
    /\ Command(r, "CompleteJob", "none")
    /\ KeepWorld
    /\ \/ Undispatched /\ StepErr(r)
       \/ NoFault /\ ~ CanTransition(s, "Succeeded") /\ StepErr(r)
       \/ /\ NoFault /\ CanTransition(s, "Succeeded")
          /\ Calls(r, [NoCall EXCEPT !.pc = "job", !.seen = s])

\* update_state of the repository: an UPDATE by id, whatever the row says by now.
CompleteJobSaves(r) ==
    /\ Command(r, "CompleteJob", "job")
    /\ KeepWorkers
    /\ UNCHANGED outside
    /\ \/ NoFault /\ SetJob(Arg(r), "Succeeded") /\ Calls(r, [call[r] EXCEPT !.pc = "saved"])
       \/ Fault /\ MaySetJob(Arg(r), "Succeeded") /\ StepErr(r)

\* The worker that is terminated is the one whose current_job_id is the job; a
\* failed lookup is dropped, a failed update is not.
CompleteJobReleases(r) ==
    LET ws == WorkersOf(Arg(r)) IN
    /\ Command(r, "CompleteJob", "saved")
    /\ UNCHANGED << job, current, places, outside >>
    /\ \/ ws = {} /\ NoFault /\ UNCHANGED row /\ StepOk(r, ctx[r])
       \/ \E w \in ws : NoFault /\ SetRow(w, "Terminated") /\ StepOk(r, ctx[r])
       \/ Fault /\ UNCHANGED row /\ (StepOk(r, ctx[r]) \/ (ws # {} /\ StepErr(r)))

\* The compensations look first, on the connection of the saga or of the pool,
\* and write in the saga's transaction.
CompAssignWorkerReads(r) ==
    LET w == ctx[r].worker IN
    /\ ReadyComp(r, "AssignWorker") /\ call[r].pc = "none"
    /\ KeepWorld
    /\ \E found \in {w, NoWorker} :
         /\ \/ NoFault /\ found = (IF row[w] = "Busy" THEN w ELSE NoWorker)
            \/ Fault /\ found = NoWorker
         /\ Calls(r, [NoCall EXCEPT !.pc = "job", !.seen = job[Arg(r)], !.worker = found])

\* Mutated form of CompAssignWorkerSaves: the job goes back to PENDING, as the
\* log line of the compensation says.
CompAssignWorkerReverts(r) ==
    LET w == call[r].worker IN
    /\ ReadyComp(r, "AssignWorker") /\ call[r].pc = "job"
    /\ job' = [job EXCEPT ![Arg(r)] =
                  IF call[r].seen \in {"Assigned", "Running"} THEN "Pending" ELSE @]
    /\ row' = (IF w # NoWorker THEN RowSet(w, "Ready") ELSE row)
    /\ NoFault
    /\ CompOk(r)
    /\ UNCHANGED << current, places, outside >>

\* A worker that was BUSY becomes READY again.  set_state(Pending) is refused
\* from both states it is tried in, its error is dropped, and the copy is saved.
CompAssignWorkerSaves(r) ==
    LET w == call[r].worker
        s == call[r].seen
    IN
    /\ ReadyComp(r, "AssignWorker") /\ call[r].pc = "job"
    /\ UNCHANGED << current, places, outside >>
    /\ \/ /\ NoFault
          /\ row' = (IF w # NoWorker THEN RowSet(w, "Ready") ELSE row)
          /\ job' = [job EXCEPT ![Arg(r)] =
                        IF s \in {"Assigned", "Running"} THEN SetStateResult(s, "Pending") ELSE @]
          /\ CompOk(r)
       \/ Fault /\ UNCHANGED << job, row >> /\ (CompOk(r) \/ (w # NoWorker /\ CompErr(r)))

CompExecuteJobReads(r) ==
    /\ ReadyComp(r, "ExecuteJob") /\ call[r].pc = "none"
    /\ KeepWorld
    /\ NoFault
    /\ Calls(r, [NoCall EXCEPT !.pc = "job", !.seen = job[Arg(r)]])

\* set_state(Assigned) is refused from RUNNING, and its error is dropped.
CompExecuteJobSaves(r) ==
    LET s == call[r].seen IN
    /\ ReadyComp(r, "ExecuteJob") /\ call[r].pc = "job"
    /\ KeepWorkers
    /\ UNCHANGED outside
    /\ CompOk(r)
    /\ \/ NoFault /\ job' = [job EXCEPT ![Arg(r)] =
                               IF s = "Running" THEN SetStateResult(s, "Assigned") ELSE @]
       \/ Fault /\ UNCHANGED job

-----------------------------------------------------------------------------
(* Provisioning.                                                           *)

\* The capacity check is left to the caller.
ValidateProviderCapacity(r) ==
    /\ At(r, "ValidateProviderCapacity")
    /\ NoFault
    /\ StepOk(r, ctx[r])
    /\ KeepWorld

\* provision_worker: the provider is asked last; nothing registers the worker.
MakesContainer(w) ==
    /\ infra' = infra \cup {w}
    /\ UNCHANGED << issued, refused, row, current >>

\* The command ends before or after the provider has made the container, or it
\* fails with the container made: Docker's start_container, or an answer lost.
CreateWorker(r) ==
    /\ call[r].pc = "none"
    /\ \/ Undispatched /\ KeepWorkers /\ StepErr(r)
       \/ /\ Fault /\ MakesContainer(saga[r].spec) /\ StepErr(r)
          /\ stray' = stray \cup {saga[r].spec}
       \/ /\ NoFault /\ MakesContainer(saga[r].spec) /\ UNCHANGED stray
          /\ Calls(r, [NoCall EXCEPT !.pc = "created"])

\* The step is committed, with the worker in the context.
RecordWorker(r) ==
    /\ call[r].pc = "created"
    /\ NoFault
    /\ KeepWorkers
    /\ StepOk(r, [ctx[r] EXCEPT !.worker = saga[r].spec])

CreateInfrastructure(r) ==
    /\ Ready(r, "CreateInfrastructure")
    /\ KeepJobs
    /\ CreateWorker(r) \/ RecordWorker(r)

PublishProvisionedEvent(r) ==
    /\ Ready(r, "PublishProvisionedEvent")
    /\ \/ NoFault /\ StepOk(r, ctx[r])
       \/ Fault /\ StepErr(r)
    /\ KeepWorld

\* destroy_worker: the row must exist; a provider's refusal is only logged; the
\* row goes last.  Each is one way a DestroyWorker command can end.
Destroyed(w) ==
    /\ row[w] # "Absent"
    /\ NoFault
    /\ infra' = infra \ {w}
    /\ DropRow(w)
    /\ UNCHANGED << issued, refused, stray >>

ProviderRefuses(w) ==
    /\ row[w] # "Absent"
    /\ Fault
    /\ refused' = refused \cup {w}
    /\ DropRow(w)
    /\ UNCHANGED << issued, infra, stray >>

UnregisterFails(w) ==
    /\ row[w] # "Absent"
    /\ Fault
    /\ infra' = infra \ {w}
    /\ UNCHANGED << issued, refused, stray, row, current >>

\* Mutated form of CompCreateInfrastructure: a failed command is only logged, as
\* the compensation of ProvisionNewWorker does.
CompCreateInfrastructureLogged(r) ==
    LET w == ctx[r].worker IN
    /\ ReadyComp(r, "CreateInfrastructure")
    /\ KeepJobs
    /\ CompOk(r)
    /\ \/ Destroyed(w)
       \/ (Undispatched \/ (row[w] = "Absent" /\ NoFault)) /\ KeepWorkers

CompCreateInfrastructure(r) ==
    LET w == ctx[r].worker IN
    /\ ReadyComp(r, "CreateInfrastructure")
    /\ KeepJobs
    /\ \/ (Destroyed(w) \/ ProviderRefuses(w)) /\ CompOk(r)
       \/ UnregisterFails(w) /\ CompErr(r)
       \/ (Undispatched \/ (row[w] = "Absent" /\ NoFault)) /\ KeepWorkers /\ CompErr(r)

-----------------------------------------------------------------------------
(* Cancellation.  With services ReleaseWorker cannot fail, so that the     *)
(* compensation of UpdateJobState is only reached without them.            *)

Cancellable == {"Pending", "Assigned", "Running", "Scheduled"}

ValidateCancellation(r) ==
    /\ Ready(r, "ValidateCancellation")
    /\ \/ job[Arg(r)] \in Cancellable /\ NoFault /\ StepOk(r, ctx[r])
       \/ job[Arg(r)] \notin Cancellable /\ NoFault /\ StepErr(r)
       \/ Fault /\ StepErr(r)
    /\ KeepWorld

\* NotifyWorkerHandler takes the worker id it is given and sends nothing.
Notified(w) == NoFault /\ w # NoWorker

NotifyWorker(r) ==
    /\ Ready(r, "NotifyWorker")
    /\ \/ WorkersOf(Arg(r)) = {} /\ NoFault /\ StepOk(r, ctx[r])
       \/ \E w \in WorkersOf(Arg(r)) : Notified(w) /\ StepOk(r, [ctx[r] EXCEPT !.worker = w])
       \/ Fault /\ StepErr(r)
    /\ KeepWorld

\* UpdateJobStateHandler checks no transition.
StateUpdated(j) == SetJob(j, "Cancelled")

\* JobCancelled is published by the step, after the job is written.
UpdateJobState(r) ==
    LET j == Arg(r) IN
    /\ Ready(r, "UpdateJobState")
    /\ KeepWorkers
    /\ UNCHANGED outside
    /\ \/ Undispatched /\ StepErr(r) /\ UNCHANGED job
       \/ NoFault /\ StateUpdated(j) /\ StepOk(r, ctx[r])
       \/ job[j] # "Cancelled" /\ Fault /\ StateUpdated(j) /\ StepErr(r)

\* ReleaseWorkerCommand: READY whatever the row says, if there is one.
Released(w) == NoFault /\ SetRow(w, "Ready")
NotReleased == Undispatched /\ UNCHANGED row

\* An error of the command is dropped.
ReleaseWorker(r) ==
    LET w == ctx[r].worker IN
    /\ Ready(r, "ReleaseWorker")
    /\ StepOk(r, ctx[r])
    /\ UNCHANGED << job, current, places, outside >>
    /\ \/ w = NoWorker /\ NoFault /\ UNCHANGED row
       \/ w # NoWorker /\ (Released(w) \/ NotReleased)

-----------------------------------------------------------------------------
(* Timeout.  With services only the registry lookup of ReleaseWorker can   *)
(* fail, when TerminateWorker found no worker either.                      *)

ValidateTimeout(r) ==
    /\ Ready(r, "ValidateTimeout")
    /\ \/ NoFault /\ StepOk(r, [ctx[r] EXCEPT !.skipped = job[Arg(r)] # "Running"])
       \/ Fault /\ StepErr(r)
    /\ KeepWorld

\* TerminateWorkerHandler; unregister is not done.
TerminatedByCommand(w) == NoFault /\ SetRow(w, "Terminated")

TerminateWorker(r) ==
    /\ Ready(r, "TerminateWorker")
    /\ UNCHANGED << job, current, places, outside >>
    /\ \/ /\ ctx[r].skipped \/ WorkersOf(Arg(r)) = {}
          /\ NoFault /\ UNCHANGED row /\ StepOk(r, ctx[r])
       \/ /\ ~ ctx[r].skipped
          /\ \E w \in WorkersOf(Arg(r)) :
               /\ StepOk(r, [ctx[r] EXCEPT !.worker = w])
               /\ \/ TerminatedByCommand(w)
                  \/ Undispatched /\ UNCHANGED row
       \/ ~ ctx[r].skipped /\ Fault /\ UNCHANGED row /\ StepErr(r)

\* MarkJobTimedOutHandler checks no transition.
JobTimedOut(j) == NoFault /\ SetJob(j, "Failed")

\* An error of the command is dropped.
MarkJobFailed(r) ==
    /\ Ready(r, "MarkJobFailed")
    /\ StepOk(r, ctx[r])
    /\ KeepWorkers
    /\ UNCHANGED outside
    /\ \/ ctx[r].skipped /\ NoFault /\ UNCHANGED job
       \/ ~ ctx[r].skipped /\ JobTimedOut(Arg(r))
       \/ ~ ctx[r].skipped /\ Undispatched /\ UNCHANGED job

ReleaseTimedOutWorker(r) ==
    LET ws == IF ctx[r].worker # NoWorker THEN {ctx[r].worker} ELSE WorkersOf(Arg(r)) IN
    /\ Ready(r, "ReleaseTimedOutWorker")
    /\ UNCHANGED << job, current, places, outside >>
    /\ \/ /\ ctx[r].skipped \/ ws = {}
          /\ NoFault /\ UNCHANGED row /\ StepOk(r, ctx[r])
       \/ /\ ~ ctx[r].skipped
          /\ \E w \in ws : (Released(w) \/ NotReleased) /\ StepOk(r, ctx[r])
       \/ ~ ctx[r].skipped /\ ctx[r].worker = NoWorker /\ Fault /\ UNCHANGED row /\ StepErr(r)

\* MarkJobFailed's compensation only logs; TerminateWorker's has no worker here.
CompTimeout(r) ==
    /\ ReadyComp(r, "MarkJobFailed") \/ ReadyComp(r, "TerminateWorker")
    /\ ctx[r].worker = NoWorker
    /\ NoFault
    /\ CompOk(r)
    /\ KeepWorld

-----------------------------------------------------------------------------
(* Recovery.  With services the last two steps cannot fail.                *)

\* It contacts nobody: the status is a constant.
CheckWorkerConnectivity(r) ==
    /\ At(r, "CheckWorkerConnectivity")
    /\ NoFault
    /\ StepOk(r, ctx[r])
    /\ KeepWorld

\* recovery_provisioning_done is looked at before the services are.
ProvisionNewWorker(r) ==
    /\ At(r, "ProvisionNewWorker")
    /\ KeepJobs
    /\ \/ ctx[r].worker # NoWorker /\ NoFault /\ KeepWorkers /\ StepOk(r, ctx[r])
       \/ /\ ctx[r].worker = NoWorker
          /\ saga[r].services
          /\ CreateWorker(r) \/ RecordWorker(r)

\* TransferJobHandler: BUSY on a worker that may not have registered yet, then
\* RUNNING on a job in whatever state.  No RUN_JOB is sent.
Transferred(j, w) == SetRow(w, "Busy") /\ NoFault /\ SetJob(j, "Running")
HalfTransferred(w) == SetRow(w, "Busy") /\ Fault /\ UNCHANGED job

TransferJob(r) ==
    LET j == Arg(r)
        w == ctx[r].worker
    IN
    /\ At(r, "TransferJob")
    /\ UNCHANGED << current, places, outside >>
    /\ \/ ctx[r].transferred /\ NoFault /\ UNCHANGED << job, row >> /\ StepOk(r, ctx[r])
       \/ /\ ~ ctx[r].transferred /\ saga[r].services
          /\ \/ /\ Undispatched \/ (NoFault /\ j = NoJob)
                /\ UNCHANGED << job, row >> /\ StepErr(r)
             \/ j # NoJob /\ Transferred(j, w) /\ StepOk(r, [ctx[r] EXCEPT !.transferred = TRUE])
             \/ j # NoJob /\ HalfTransferred(w) /\ StepErr(r)

\* A failed DestroyOldWorker command is logged.
TerminateOldWorker(r) ==
    LET w == saga[r].worker IN
    /\ Ready(r, "TerminateOldWorker")
    /\ StepOk(r, ctx[r])
    /\ KeepJobs
    /\ \/ Destroyed(w) \/ ProviderRefuses(w) \/ UnregisterFails(w)
       \/ (Undispatched \/ (row[w] = "Absent" /\ NoFault)) /\ KeepWorkers

\* A failed unregister is logged.
CancelOldWorker(r) ==
    /\ Ready(r, "CancelOldWorker")
    /\ StepOk(r, ctx[r])
    /\ KeepJobs
    /\ UNCHANGED places
    /\ \/ NoFault /\ DropRow(saga[r].worker)
       \/ Fault /\ UNCHANGED << row, current >>

\* A failed DestroyWorker command is logged and the compensation succeeds.
CompProvisionNewWorker(r) ==
    LET w == ctx[r].worker IN
    /\ ReadyComp(r, "ProvisionNewWorker")
    /\ CompOk(r)
    /\ KeepJobs
    /\ \/ Destroyed(w) \/ ProviderRefuses(w) \/ UnregisterFails(w)
       \/ (Undispatched \/ (row[w] = "Absent" /\ NoFault)) /\ KeepWorkers

\* CheckWorkerConnectivity keeps the trait's compensation, which does nothing.
CompCheckConnectivity(r) ==
    /\ AtComp(r, "CheckWorkerConnectivity")
    /\ NoFault
    /\ CompOk(r)
    /\ KeepWorld

-----------------------------------------------------------------------------
(* Cleanup.                                                                *)

\* find_available gives READY workers without a job; whose heartbeat is stale
\* depends on clocks.
IdentifyUnhealthyWorkers(r) ==
    /\ Ready(r, "IdentifyUnhealthyWorkers")
    /\ \/ /\ NoFault
          /\ \E ws \in SUBSET { w \in Workers : row[w] = "Ready" /\ current[w] = NoJob } :
               StepOk(r, [ctx[r] EXCEPT !.unhealthy = ws])
       \/ Fault /\ StepErr(r)
    /\ KeepWorld

\* Every RUNNING job: the threshold is not used.
IdentifyOrphanedJobs(r) ==
    /\ Ready(r, "IdentifyOrphanedJobs")
    /\ \/ NoFault /\ StepOk(r, [ctx[r] EXCEPT !.orphans = { j \in Jobs : job[j] = "Running" }])
       \/ Fault /\ StepErr(r)
    /\ KeepWorld

\* X are the commands that get through, of one per element of S; a failure is
\* logged.
GetThrough(X, S) ==
    \/ NoFault /\ X = S
    \/ Fault

\* The rows go, the containers stay.
CleanupUnhealthyWorkers(r) ==
    /\ Ready(r, "CleanupUnhealthyWorkers")
    /\ StepOk(r, ctx[r])
    /\ KeepJobs
    /\ UNCHANGED places
    /\ \E ws \in SUBSET ctx[r].unhealthy :
         /\ GetThrough(ws, ctx[r].unhealthy)
         /\ row' = [w \in Workers |-> IF w \in ws THEN "Absent" ELSE row[w]]
         /\ current' = [w \in Workers |-> IF w \in ws THEN NoJob ELSE current[w]]

\* MarkJobFailedHandler, for one orphan after the other: it reads the job and
\* leaves a terminal one alone, then writes without another look; a failure is
\* logged.
OrphanReads(r) ==
    /\ Ready(r, "ResetOrphanedJobs") /\ call[r].pc = "none"
    /\ KeepWorld
    /\ \E j \in ctx[r].orphans \ call[r].taken :
         \/ /\ NoFault /\ CanTransition(job[j], "Failed")
            /\ Calls(r, [call[r] EXCEPT !.pc = "job", !.job = j, !.seen = job[j]])
         \/ /\ Fault \/ (NoFault /\ ~ CanTransition(job[j], "Failed"))
            /\ Calls(r, [call[r] EXCEPT !.taken = @ \cup {j}])

OrphanSaves(r) ==
    LET j == call[r].job IN
    /\ Ready(r, "ResetOrphanedJobs") /\ call[r].pc = "job"
    /\ KeepWorkers
    /\ UNCHANGED outside
    /\ \/ NoFault /\ SetJob(j, "Failed")
       \/ Fault /\ MaySetJob(j, "Failed")
    /\ Calls(r, [NoCall EXCEPT !.taken = call[r].taken \cup {j}])

ResetOrphanedJobs(r) ==
    /\ Ready(r, "ResetOrphanedJobs") /\ call[r].pc = "none"
    /\ ctx[r].orphans \subseteq call[r].taken
    /\ NoFault
    /\ StepOk(r, ctx[r])
    /\ KeepWorld

PublishCleanupMetrics(r) ==
    /\ Ready(r, "PublishCleanupMetrics")
    /\ \/ NoFault /\ StepOk(r, ctx[r])
       \/ Fault /\ StepErr(r)
    /\ KeepWorld

\* Every job of the list becomes RUNNING, the ones the step left alone too.
CompResetOrphanedJobs(r) ==
    /\ ReadyComp(r, "ResetOrphanedJobs")
    /\ job' = [j \in Jobs |-> IF j \in ctx[r].orphans THEN "Running" ELSE job[j]]
    /\ NoFault
    /\ CompOk(r)
    /\ KeepWorkers
    /\ UNCHANGED outside

-----------------------------------------------------------------------------
(* Contexts without services, and the ends of a run.                       *)

\* Every other step asks for its services first and fails without them.
StepWithoutServices(r) ==
    /\ saga[r].st = "forward"
    /\ ~ saga[r].services
    /\ saga[r].at <= Len(StepsOf[saga[r].kind])
    /\ StepAt(r) \notin {"ValidateProviderCapacity", "CheckWorkerConnectivity"}
    /\ ~ (StepAt(r) = "ProvisionNewWorker" /\ ctx[r].worker # NoWorker)
    /\ ~ (StepAt(r) = "TransferJob" /\ ctx[r].transferred)
    /\ NoFault
    /\ StepErr(r)
    /\ KeepWorld

\* The compensations that need services; the ones that undo something about a
\* worker first look whether the context names one.
NeedsServices(r) ==
    \/ StepAt(r) \in {"ExecuteJob", "UpdateJobState", "MarkJobFailed", "ResetOrphanedJobs"}
    \/ /\ StepAt(r) \in {"AssignWorker", "CreateInfrastructure", "TerminateWorker", "ProvisionNewWorker"}
       /\ ctx[r].worker # NoWorker

CompWithoutServices(r) ==
    /\ saga[r].st = "rollback"
    /\ ~ saga[r].services
    /\ saga[r].at \in saga[r].done
    /\ StepAt(r) \in HasCompensation \ {"CheckWorkerConnectivity"}
    /\ \/ NeedsServices(r) /\ CompErr(r)
       \/ ~ NeedsServices(r) /\ CompOk(r)
    /\ NoFault
    /\ KeepWorld

\* Mutated form of PassStep: the reversed loop runs past the first step.
PassStepBelow(r) ==
    /\ saga[r].st = "rollback"
    /\ saga[r].at >= 0
    /\ saga[r].at \in saga[r].done => StepAt(r) \notin HasCompensation
    /\ saga' = [saga EXCEPT ![r].at = @ - 1]
    /\ NoFault
    /\ Returned(r)
    /\ UNCHANGED ctx
    /\ KeepWorld

\* The reversed loop passes a step that is not completed or has no compensation.
PassStep(r) ==
    /\ saga[r].st = "rollback"
    /\ saga[r].at > 0
    /\ saga[r].at \in saga[r].done => StepAt(r) \notin HasCompensation
    /\ saga' = [saga EXCEPT ![r].at = @ - 1]
    /\ NoFault
    /\ Returned(r)
    /\ UNCHANGED ctx
    /\ KeepWorld

Complete(r) ==
    /\ saga[r].st = "forward"
    /\ saga[r].at > Len(StepsOf[saga[r].kind])
    /\ saga' = [saga EXCEPT ![r].st = "completed"]
    /\ NoFault
    /\ Returned(r)
    /\ UNCHANGED ctx
    /\ KeepWorld

\* Mutated form of RollbackEnds: the steps without a compensation are waited for.
RollbackEndsEmpty(r) ==
    /\ saga[r].st = "rollback"
    /\ saga[r].at = 0
    /\ saga[r].done = {}
    /\ saga' = [saga EXCEPT ![r].st = "rolled_back"]
    /\ NoFault
    /\ Returned(r)
    /\ UNCHANGED ctx
    /\ KeepWorld

\* COMPLETED in the table, like a saga that went through.
RollbackEnds(r) ==
    /\ saga[r].st = "rollback"
    /\ saga[r].at = 0
    /\ saga' = [saga EXCEPT ![r].st = "rolled_back"]
    /\ NoFault
    /\ Returned(r)
    /\ UNCHANGED ctx
    /\ KeepWorld

\* The call is cut off: a timeout, a database error or the end of the server.
\* What its command was about to do is not done.
Cut(r) ==
    /\ saga[r].st \in {"forward", "rollback"}
    /\ saga' = [saga EXCEPT ![r].st = "cut"]
    /\ Returned(r)
    /\ stray' = stray \cup { w \in {saga[r].spec} : call[r].pc = "created" }
    /\ Fault
    /\ UNCHANGED << ctx, row, current, infra, issued, refused >>
    /\ KeepJobs

\* The poller or execute(context) takes the saga up from its tables: completed
\* steps are skipped, and nobody gives the context its services.
Resume(r) ==
    /\ saga[r].st = "cut"
    /\ saga' = [saga EXCEPT ![r].st = "forward", ![r].services = FALSE,
                            ![r].at = CHOOSE i \in 1..6 : /\ i \notin saga[r].done
                                                          /\ \A k \in 1..(i - 1) : k \in saga[r].done]
    /\ NoFault
    /\ UNCHANGED << ctx, call >>
    /\ KeepWorld

-----------------------------------------------------------------------------
(* Who starts sagas, and what happens around them.                         *)

Start(r, k, j, w, spec) ==
    /\ saga[r].st = "none"
    /\ k \in May[r]
    /\ saga' = [saga EXCEPT ![r] = [ kind |-> k, job |-> j, worker |-> w, spec |-> spec,
                                     services |-> k \in Services, st |-> "forward",
                                     at |-> 1, done |-> {} ]]
    /\ NoFault
    /\ UNCHANGED << ctx, call, infra, refused, stray, row, current >>
    /\ KeepJobs

Available(w) == row[w] = "Ready" /\ current[w] = NoJob

\* handle_job_queued, handle_worker_ready, handle_job_assigned.
StartExecution(r, j, w) ==
    /\ \/ job[j] = "Pending" /\ Available(w)
       \/ row[w] # "Absent" /\ current[w] = j
       \/ row[w] # "Absent" /\ current[w] = NoJob /\ job[j] = "Pending"
       \/ job[j] = "Assigned" /\ row[w] # "Absent"
    /\ Start(r, "execution", j, w, NoWorker)
    /\ UNCHANGED issued

\* DynExecutionSagaDispatcher: the saga chooses the worker.
StartExecutionAny(r, j) ==
    /\ job[j] = "Pending"
    /\ Start(r, "execution", j, NoWorker, NoWorker)
    /\ UNCHANGED issued

\* The provisioning coordinator; the spec carries a new worker id.
StartProvisioning(r, j, spec) ==
    /\ spec \notin issued
    /\ issued' = issued \cup {spec}
    /\ Start(r, "provisioning", j, NoWorker, spec)

\* The cancellation consumer.
StartCancellation(r, j) ==
    /\ job[j] \in Cancellable
    /\ Start(r, "cancellation", j, NoWorker, NoWorker)
    /\ UNCHANGED issued

\* The timeout checker.
StartTimeout(r, j) ==
    /\ job[j] = "Running"
    /\ Start(r, "timeout", j, NoWorker, NoWorker)
    /\ UNCHANGED issued

\* The disconnection handler for a worker with a job; the orphan detector makes
\* up a job id, here NoJob.
StartRecovery(r, w, spec) ==
    /\ row[w] # "Absent"
    /\ spec \notin issued
    /\ issued' = issued \cup {spec}
    /\ Start(r, "recovery", current[w], w, spec)

StartCleanup(r) ==
    /\ Start(r, "cleanup", NoJob, NoWorker, NoWorker)
    /\ UNCHANGED issued

Around == UNCHANGED << places, saga, ctx, call, faults >>

\* The worker in a new container registers with the job it was made for.
WorkerRegisters(w) ==
    /\ w \in infra
    /\ row[w] = "Absent"
    /\ \E r \in Runs : /\ saga[r].spec = w
                       /\ current' = [current EXCEPT ![w] = saga[r].job]
    /\ row' = [row EXCEPT ![w] = "Creating"]
    /\ KeepJobs
    /\ Around

\* The second statement of the registration; heartbeats repeat it.
WorkerReady(w) ==
    /\ w \in infra
    /\ row[w] = "Creating"
    /\ SetRow(w, "Ready")
    /\ UNCHANGED current
    /\ KeepJobs
    /\ Around

\* JobAssignmentService::assign_job.
AssignJob(j, w) ==
    /\ CanTransition(job[j], "Assigned")
    /\ row[w] = "Ready"
    /\ SetJob(j, "Assigned")
    /\ SetRow(w, "Busy")
    /\ UNCHANGED << current, outside >>
    /\ Around

\* A worker that was sent the job reports how it ended.
JobResult(j, s) ==
    /\ sent[j] > 0
    /\ job[j] = "Running"
    /\ SetJob(j, s)
    /\ reported' = reported \cup {j}
    /\ UNCHANGED << row, current, sent >>
    /\ Around

-----------------------------------------------------------------------------
ExecutionStep(r) ==
    \/ ValidateJob(r)
    \/ AssignWorkerFinds(r) \/ AssignWorkerReads(r) \/ AssignWorkerSaves(r) \/ AssignWorkerTakes(r)
    \/ ExecuteJobReads(r) \/ ExecuteJobSends(r) \/ ExecuteJobSaves(r)
    \/ CompleteJobReads(r) \/ CompleteJobSaves(r) \/ CompleteJobReleases(r)
    \/ CompAssignWorkerReads(r) \/ CompAssignWorkerSaves(r)
    \/ CompExecuteJobReads(r) \/ CompExecuteJobSaves(r)

OtherStep(r) ==
    \/ ValidateProviderCapacity(r) \/ CreateInfrastructure(r) \/ PublishProvisionedEvent(r)
    \/ CompCreateInfrastructure(r)
    \/ ValidateCancellation(r) \/ NotifyWorker(r) \/ UpdateJobState(r) \/ ReleaseWorker(r)
    \/ ValidateTimeout(r) \/ TerminateWorker(r) \/ MarkJobFailed(r) \/ ReleaseTimedOutWorker(r)
    \/ CompTimeout(r)
    \/ CheckWorkerConnectivity(r) \/ ProvisionNewWorker(r) \/ TransferJob(r)
    \/ TerminateOldWorker(r) \/ CancelOldWorker(r)
    \/ CompProvisionNewWorker(r) \/ CompCheckConnectivity(r)
    \/ IdentifyUnhealthyWorkers(r) \/ IdentifyOrphanedJobs(r) \/ CleanupUnhealthyWorkers(r)
    \/ OrphanReads(r) \/ OrphanSaves(r) \/ ResetOrphanedJobs(r)
    \/ PublishCleanupMetrics(r) \/ CompResetOrphanedJobs(r)

Progress(r) ==
    \/ ExecutionStep(r) \/ OtherStep(r)
    \/ StepWithoutServices(r) \/ CompWithoutServices(r)
    \/ PassStep(r) \/ Complete(r) \/ RollbackEnds(r)

Starts(r) ==
    \/ \E j \in Jobs, w \in Workers : StartExecution(r, j, w) \/ StartProvisioning(r, j, w)
    \/ \E j \in Jobs : StartExecutionAny(r, j) \/ StartCancellation(r, j) \/ StartTimeout(r, j)
    \/ \E w, spec \in Workers : StartRecovery(r, w, spec)
    \/ StartCleanup(r)

Next ==
    \/ \E r \in Runs : Progress(r) \/ Starts(r) \/ Cut(r) \/ Resume(r)
    \/ \E w \in Workers : WorkerRegisters(w) \/ WorkerReady(w)
    \/ \E j \in Jobs, w \in Workers : AssignJob(j, w)
    \/ \E j \in Jobs, s \in {"Succeeded", "Failed"} : JobResult(j, s)

Spec == Init /\ [][Next]_vars

\* The task that called execute_saga is polled until the call returns.
FairSpec == Spec /\ \A r \in Runs : WF_vars(Progress(r))

-----------------------------------------------------------------------------
(* Properties.                                                             *)

Saga == [ kind : Kinds, job : Jobs \cup {NoJob}, worker : Workers \cup {NoWorker},
          spec : Workers \cup {NoWorker}, services : BOOLEAN, st : Phase,
          at : 0..6, done : SUBSET (1..5) ]
Ctx == [ worker : Workers \cup {NoWorker}, skipped : BOOLEAN, transferred : BOOLEAN,
         orphans : SUBSET Jobs, unhealthy : SUBSET Workers ]
Call == [ pc : {"none", "worker", "job", "sent", "saved", "created"},
          seen : JobState \cup {"none"}, worker : Workers \cup {NoWorker},
          job : Jobs \cup {NoJob}, taken : SUBSET Jobs ]

\* Columns, contexts and positions keep to the values the code gives them; a
\* row without a worker has no job, and only a given-out id has a container.
TypeOK ==
    /\ job \in [Jobs -> JobState]
    /\ row \in [Workers -> WorkerState \cup {"Absent"}]
    /\ current \in [Workers -> Jobs \cup {NoJob}]
    /\ infra \subseteq issued /\ issued \subseteq Workers
    /\ refused \subseteq issued /\ stray \subseteq issued
    /\ sent \in [Jobs -> Nat]
    /\ reported \subseteq Jobs
    /\ saga \in [Runs -> Saga]
    /\ ctx \in [Runs -> Ctx]
    /\ call \in [Runs -> Call]
    /\ faults \in 0..MaxFaults

\* RUN_JOB is sent at most once for a job, whatever sagas run for it, fail
\* half-way, roll back, are cut off and resumed: no step or compensation puts a
\* job back where another execution saga would take it.
RunJobOnce == \A j \in Jobs : sent[j] <= 1

\* A job that succeeded was sent to a worker: no sequence of sagas completes a
\* job nobody was asked to run.
SucceededWasSent == \A j \in Jobs : job[j] = "Succeeded" => sent[j] > 0

\* An execution saga overwrites a terminal state only if the job became terminal
\* while the very command that writes had its copy in hand: a job that was
\* cancelled, timed out or finished before that, between any two steps of the
\* saga or of its rollback, is left alone.  The window itself is real: no write
\* looks at the row again, and the bus keeps only execution sagas apart.
ExecutionRespectsTerminal ==
    [][\A r \in Runs : ExecutionStep(r) =>
         \A j \in Jobs : IsTerminal(job[j]) /\ job'[j] # job[j] =>
           call[r].seen \in JobState /\ ~ IsTerminal(call[r].seen)]_vars

\* A provisioning saga that ends as rolled back has left no container behind but
\* one that the provider refused to remove, or that no step had on record: made
\* by a command that failed all the same, or that was cut off before its commit.
\* In particular a compensation that could not destroy the worker makes the
\* saga FAILED, whatever was cut off and resumed before.
RollbackIsHonest ==
    \A r \in Runs : saga[r].kind = "provisioning" /\ saga[r].st = "rolled_back"
                       => saga[r].spec \notin infra \ (refused \cup stray)

\* Every call ends, or is cut off: no combination of missing services, failed
\* steps and failed compensations leaves it without a way on.
SagaEnds ==
    \A r \in Runs : saga[r].st \in {"forward", "rollback"}
        ~> saga[r].st \in {"completed", "rolled_back", "failed", "cut"}

\* "Complete the job when worker reports result": a job that succeeded has a
\* result some worker reported.
SuccessIsReported == \A j \in Jobs : job[j] = "Succeeded" => j \in reported
=============================================================================
