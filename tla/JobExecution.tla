---------------------------- MODULE JobExecution ----------------------------
(***************************************************************************)
(* The jobs table, the job queue and the server handlers that write them:  *)
(* the job, execution and scheduler services, the saga commands, the       *)
(* monitors, the stream of each worker and the dispatcher.                 *)
(*                                                                         *)
(* PostgresJobRepository::save writes the whole row of the copy a handler  *)
(* read earlier; update_state and enqueue write the state column without   *)
(* looking at it.  No row carries a version.  A handler is therefore split *)
(* where another one can get in between: the read that takes the copy (and *)
(* runs the aggregate method on it), the write, and what follows it.       *)
(*                                                                         *)
(* Transactions are modelled at the granularity of their statements where  *)
(* that matters.  save holds the lock of the jobs row from its first       *)
(* statement on, so it is one step; dequeue picks its queue row from a     *)
(* snapshot before it gets that lock, and enqueue inserts the queue row    *)
(* before it gets it, so each is two steps.                                *)
(***************************************************************************)
EXTENDS Naturals, Sequences, SequencesExt, FiniteSets, JobAggregate

CONSTANTS
    Jobs,          \* job ids
    Workers,       \* worker ids; also the server's stream task of that worker
    Tasks,         \* slots for concurrent requests, saga commands and monitors
    Dispatchers,   \* dispatcher loops (one per server process)
    NoJob, NoWorker,
    MaxInFlight,   \* bound: handlers that are between their read and their end
    AttemptsBound, \* bound on the attempts column
    StreamBound    \* bound on unprocessed messages of one worker

ASSUME JobExecutionAssumption ==
    /\ NoJob \notin Jobs \cup Job
    /\ NoWorker \notin Workers
    /\ MaxInFlight \in Nat
    /\ AttemptsBound \in Nat
    /\ StreamBound \in Nat

Threads == Tasks \cup Dispatchers \cup Workers

VARIABLES
    jobs,        \* [Jobs -> Job \cup {NoJob}]: the jobs table
    queue,       \* the job_queue table in enqueued_at order
    workers,     \* [Workers -> [state, job]]: the workers table
    tasks,       \* [Threads -> Task]: the handler each thread is in
    running,     \* [Workers -> SUBSET Jobs]: what the agent executes
    stream,      \* [Workers -> Seq(Message)]: agent to server, in order
    terminating  \* workers with a WorkerEphemeralTerminating event in the outbox

vars == << jobs, queue, workers, tasks, running, stream, terminating >>
tables == << jobs, queue, workers >>
agents == << running, stream >>

-----------------------------------------------------------------------------
(* Handlers in flight.                                                     *)

\* Handlers whose write is job_repository.save of their copy.
SaveOps == { "request_worker_provisioning", "assign_worker", "execute_job",
             "on_job_acknowledged", "on_job_result", "cancel_job", "retry_job",
             "assign_job", "start_job", "update_progress", "complete_job",
             "fail_job", "timeout_job", "schedule_job", "enqueue_job" }

\* Where a handler is in PostgresJobQueue: it has locked a row, it has taken the
\* row and is about to put it back, it has inserted the row.
QueuePcs == {"dequeue", "dispatch", "enqueue"}

\* job, worker and copy are what the handler works on; row is the queue row it
\* takes or puts back, queued that its insert made a row, left what remains of
\* the rows remove_job_from_queue goes through.
Task == [ op : SaveOps \cup {"idle", "complete_job_command", "on_worker_heartbeat",
                           "dispatch_once", "schedule_read", "make_decision"},
          pc : {"idle", "before", "count", "remove", "write", "after"} \cup QueuePcs,
          job : Jobs \cup {NoJob}, worker : Workers \cup {NoWorker}, copy : Job,
          row : Jobs \cup {NoJob}, queued : BOOLEAN, left : Nat ]

Idle == [ op |-> "idle", pc |-> "idle", job |-> NoJob, worker |-> NoWorker, copy |-> NewJob,
          row |-> NoJob, queued |-> FALSE, left |-> 0 ]

InFlight == { t \in Threads : tasks[t].op # "idle" }

\* MaxInFlight bounds how many threads are in a handler.
MayStart(t) == tasks[t] = Idle /\ Cardinality(InFlight) < MaxInFlight

\* Thread t enters a handler.
Start(t, op, pc, j, w, copy) ==
    /\ MayStart(t)
    /\ copy.attempts <= AttemptsBound
    /\ tasks' = [tasks EXCEPT ![t] = [ op |-> op, pc |-> pc, job |-> j, worker |-> w, copy |-> copy,
                                       row |-> NoJob, queued |-> FALSE, left |-> 0 ]]

Goto(t, pc) == tasks' = [tasks EXCEPT ![t].pc = pc]
Finish(t)   == tasks' = [tasks EXCEPT ![t] = Idle]
At(t, op, pc) == tasks[t].op = op /\ tasks[t].pc = pc

\* A handler that reads job j, applies a method and is now about to write.
ReadModify(t, op, pc, j, w, results) ==
    /\ jobs[j] # NoJob
    /\ \E copy \in results : Start(t, op, pc, j, w, copy)
    /\ UNCHANGED << tables, agents, terminating >>

-----------------------------------------------------------------------------
(* The repository and the queue.                                           *)

\* Mutated form of Queued: the newest row first.
QueuedInFront(q, j) == IF Contains(q, j) THEN q ELSE << j >> \o q

\* INSERT INTO job_queue ... ON CONFLICT (job_id) DO NOTHING
Queued(q, j) == IF Contains(q, j) THEN q ELSE Append(q, j)

\* enqueue has inserted the key and not committed: another insert of it waits.
InsertPending(j) ==
    \E t \in Threads : tasks[t].pc = "enqueue" /\ tasks[t].row = j /\ tasks[t].queued

\* Mutated form of SaveRow: the row is written, the queue forgotten.
SaveRowOnly(j, copy) == jobs' = [jobs EXCEPT ![j] = copy] /\ UNCHANGED queue

\* PostgresJobRepository::save
SaveRow(j, copy) ==
    /\ copy.state = "Pending" => ~InsertPending(j)
    /\ jobs' = [jobs EXCEPT ![j] = copy]
    /\ queue' = IF copy.state = "Pending" THEN Queued(queue, j) ELSE queue

\* PostgresJobRepository::update_state
UpdateState(j, s) == jobs' = [jobs EXCEPT ![j].state = s]

\* WorkerRegistry::get
Registered(w) == workers[w].state # "None"

\* WorkerRegistry::register, update_state, assign_to_job and release_from_job.
\* None of the updates looks at the row it changes.
Register(w, j)    == workers' = [workers EXCEPT ![w] = [state |-> "Creating", job |-> j]]
SetWorker(w, s)   == workers' = [workers EXCEPT ![w].state = s]
AssignToJob(w, j) == workers' = [workers EXCEPT ![w] = [state |-> "Busy", job |-> j]]
ReleaseFromJob(w) == workers' = [workers EXCEPT ![w] = [state |-> "Terminated", job |-> NoJob]]

-----------------------------------------------------------------------------
(* The write that ends a handler, and what follows it.                     *)

\* Handlers with work left after the save.
AfterSave(op) == op \in {"request_worker_provisioning", "assign_worker",
                        "on_job_result", "complete_job", "fail_job"}

Save(t) ==
    LET task == tasks[t] IN
    /\ task.pc = "write"
    /\ task.op \in SaveOps
    /\ SaveRow(task.job, task.copy)
    /\ \/ AfterSave(task.op) /\ Goto(t, "after")
       \/ task.op = "enqueue_job" /\ tasks' = [tasks EXCEPT ![t].pc = "dispatch", ![t].row = task.job]
       \/ ~AfterSave(task.op) /\ task.op # "enqueue_job" /\ Finish(t)
    /\ UNCHANGED << workers, agents, terminating >>

\* A database error, a panic or a restart of the server ends a handler early;
\* an open transaction is rolled back.  A stream's message is not redelivered.
Abort(t) ==
    /\ tasks[t].op # "idle"
    /\ Finish(t)
    /\ UNCHANGED << tables, agents, terminating >>

-----------------------------------------------------------------------------
(* Requests of clients.                                                    *)

\* CreateJobUseCase::execute: the id may be the client's, and the save is an
\* upsert, so a second request with the same id replaces the row.
CreateJob(t, j) ==
    /\ tasks[t] = Idle
    /\ SaveRow(j, NewJob)
    /\ UNCHANGED << workers, tasks, agents, terminating >>

\* CancelJobUseCase::execute_with_context
CancelJob(t, j) == ReadModify(t, "cancel_job", "write", j, NoWorker, Cancel(jobs[j]))

\* RetryJobUseCase::execute_with_context
RetryJob(t, j) == ReadModify(t, "retry_job", "write", j, NoWorker, PrepareRetry(jobs[j]))

\* JobExecutionService::assign_job
AssignJob(t, j, w) ==
    /\ Registered(w)
    /\ ReadModify(t, "assign_job", "before", j, w, SubmitToProvider(jobs[j]))

\* ... assigns the worker, then saves the job.
AssignJobWorker(t, w) ==
    /\ At(t, "assign_job", "before")
    /\ tasks[t].worker = w
    /\ IF Registered(w) THEN AssignToJob(w, tasks[t].job) ELSE UNCHANGED workers
    /\ Goto(t, "write")
    /\ UNCHANGED << jobs, queue, agents, terminating >>

\* The execution_id of the request matches the job's execution context.
WithContext(j, results) == IF jobs[j].ctx THEN results ELSE {}

\* JobExecutionService::start_job, update_progress, complete_job, fail_job
StartJob(t, j) ==
    ReadModify(t, "start_job", "write", j, NoWorker, WithContext(j, MarkRunning(jobs[j])))
UpdateProgress(t, j) ==
    ReadModify(t, "update_progress", "write", j, NoWorker, WithContext(j, {jobs[j]}))
CompleteJob(t, j) ==
    ReadModify(t, "complete_job", "write", j, NoWorker,
               WithContext(j, Complete(jobs[j], "Succeeded")))
FailJob(t, j) ==
    ReadModify(t, "fail_job", "write", j, NoWorker, WithContext(j, Fail(jobs[j])))

\* complete_job and fail_job ask for the job's worker to be destroyed.
\* complete_job falls back to any worker that terminated in the last minute.
WorkersOf(j) == { w \in Workers : Registered(w) /\ workers[w].job = j }
Terminated == { w \in Workers : workers[w].state = "Terminated" }

CleanUpWorker(t) ==
    LET op == tasks[t].op
        own == WorkersOf(tasks[t].job)
        candidates == IF own = {} /\ op = "complete_job" THEN Terminated ELSE own
    IN  /\ op \in {"complete_job", "fail_job"}
        /\ tasks[t].pc = "after"
        /\ \/ \E w \in candidates : terminating' = terminating \cup {w}
           \/ own = {} /\ UNCHANGED terminating
        /\ Finish(t)
        /\ UNCHANGED << tables, agents >>

-----------------------------------------------------------------------------
(* Commands of the execution, cancellation and recovery sagas.             *)

\* AssignWorkerHandler::handle, with a given or a found worker.
AssignWorker(t, j, w) ==
    /\ workers[w].state \in {"Ready", "Busy"}
    /\ ReadModify(t, "assign_worker", "write", j, w, SetState(jobs[j], "Assigned"))

MarkWorkerBusy(t, w) ==
    /\ At(t, "assign_worker", "after")
    /\ tasks[t].worker = w
    /\ IF Registered(w) THEN SetWorker(w, "Busy") ELSE UNCHANGED workers
    /\ Finish(t)
    /\ UNCHANGED << jobs, queue, agents, terminating >>

\* ExecuteJobHandler::handle and JobExecutorImpl::execute_job: RUN_JOB goes out
\* before mark_running is tried on the copy, and before the row is saved.  The
\* agent spawns the job and acknowledges it (crates/worker/bin/src/main.rs).
ExecuteJob(t, j, w) ==
    /\ jobs[j] # NoJob
    /\ Registered(w)
    /\ Len(stream[w]) < StreamBound
    /\ running' = [running EXCEPT ![w] = @ \cup {j}]
    /\ stream' = [stream EXCEPT ![w] = Append(@, [type |-> "ack", job |-> j])]
    /\ \/ \E copy \in MarkRunning(jobs[j]) : Start(t, "execute_job", "write", j, w, copy)
       \/ MarkRunning(jobs[j]) = {} /\ tasks[t] = Idle /\ UNCHANGED tasks
    /\ UNCHANGED << tables, terminating >>

\* CompleteJobHandler::handle checks the transition on its copy ...
CompleteJobCommand(t, j, s) ==
    ReadModify(t, "complete_job_command", "write", j, NoWorker, SetState(jobs[j], s))

\* ... and sets the column afterwards.
CompleteJobSetState(t) ==
    /\ At(t, "complete_job_command", "write")
    /\ UpdateState(tasks[t].job, tasks[t].copy.state)
    /\ IF IsTerminal(tasks[t].copy.state) THEN Goto(t, "after") ELSE Finish(t)
    /\ UNCHANGED << queue, workers, agents, terminating >>

CompleteJobReleaseWorker(t) ==
    LET own == WorkersOf(tasks[t].job) IN
    /\ At(t, "complete_job_command", "after")
    /\ \/ \E w \in own : SetWorker(w, "Terminated")
       \/ own = {} /\ UNCHANGED workers
    /\ Finish(t)
    /\ UNCHANGED << jobs, queue, agents, terminating >>

\* UpdateJobStateHandler::handle of the cancellation saga.
UpdateJobState(t, j) ==
    /\ tasks[t] = Idle
    /\ jobs[j] # NoJob
    /\ UpdateState(j, "Cancelled")
    /\ UNCHANGED << queue, workers, tasks, agents, terminating >>

\* ReleaseWorkerHandler::handle of the cancellation saga.
ReleaseWorker(t, w) ==
    /\ tasks[t] = Idle
    /\ Registered(w)
    /\ SetWorker(w, "Ready")
    /\ UNCHANGED << jobs, queue, tasks, agents, terminating >>

\* MarkJobForRecoveryHandler::handle of the recovery saga.
MarkJobForRecovery(t, j) ==
    /\ tasks[t] = Idle
    /\ jobs[j] # NoJob
    /\ UpdateState(j, "Pending")
    /\ UNCHANGED << queue, workers, tasks, agents, terminating >>

-----------------------------------------------------------------------------
(* Monitors and failure handlers.                                          *)

\* JobStateTimeoutMonitor::timeout_job on a job found too long in its state.
TimeoutJob(t, j) ==
    /\ jobs[j] # NoJob
    /\ IsScheduled(jobs[j].state)
    /\ ReadModify(t, "timeout_job", "write", j, NoWorker, Fail(jobs[j]))

\* mark_job_failed of the dispatch, scheduling and provisioning failure handlers.
MarkJobFailed(t, j) ==
    /\ tasks[t] = Idle
    /\ jobs[j] # NoJob
    /\ UpdateState(j, "Failed")
    /\ UNCHANGED << queue, workers, tasks, agents, terminating >>

-----------------------------------------------------------------------------
(* The worker agent and the server's end of its stream.                    *)

\* The agent's job task ends; its result is sent after the acknowledgement.
AgentFinishes(w, j, type) ==
    /\ j \in running[w]
    /\ Len(stream[w]) < StreamBound
    /\ running' = [running EXCEPT ![w] = @ \ {j}]
    /\ stream' = [stream EXCEPT ![w] = Append(@, [type |-> type, job |-> j])]
    /\ UNCHANGED << tables, tasks, terminating >>

\* The worker process dies with what it runs and what it has not delivered.
AgentCrashes(w) ==
    /\ running[w] # {} \/ stream[w] # << >>
    /\ running' = [running EXCEPT ![w] = {}]
    /\ stream' = [stream EXCEPT ![w] = << >>]
    /\ UNCHANGED << tables, tasks, terminating >>

\* The stream task takes the next message; a method that fails drops it.
Receive(w, op, results) ==
    /\ \/ \E copy \in results : Start(w, op, "write", Head(stream[w]).job, w, copy)
       \/ results = {} /\ tasks[w] = Idle /\ UNCHANGED tasks
    /\ stream' = [stream EXCEPT ![w] = Tail(@)]
    /\ UNCHANGED << tables, running, terminating >>

\* WorkerAgentServiceImpl::on_job_acknowledged
OnJobAcknowledged(w) ==
    /\ stream[w] # << >>
    /\ Head(stream[w]).type = "ack"
    /\ Receive(w, "on_job_acknowledged", MarkRunning(jobs[Head(stream[w]).job]))

\* The aggregate method on_job_result applies.  A Pending job goes through
\* mark_running first, which a Pending job never passes.
ResultOf(job, type) ==
    CASE job.state = "Pending" -> {}
      [] job.state # "Pending" /\ type = "success" -> Complete(job, "Succeeded")
      [] job.state # "Pending" /\ type = "timeout" -> TimeOut(job)
      [] job.state # "Pending" /\ type = "failure" -> Fail(job)

\* WorkerAgentServiceImpl::on_job_result
OnJobResult(w) ==
    /\ stream[w] # << >>
    /\ Head(stream[w]).type # "ack"
    /\ Receive(w, "on_job_result", ResultOf(jobs[Head(stream[w]).job], Head(stream[w]).type))

\* ... then announces the worker for destruction and releases it.
ReleaseAfterResult(w) ==
    /\ At(w, "on_job_result", "after")
    /\ IF Registered(w)
       THEN ReleaseFromJob(w) /\ terminating' = terminating \cup {w}
       ELSE UNCHANGED << workers, terminating >>
    /\ Finish(w)
    /\ UNCHANGED << jobs, queue, agents >>

\* on_worker_heartbeat (legacy path): a worker read as Creating becomes Ready.
OnWorkerHeartbeat(w) ==
    /\ workers[w].state = "Creating"
    /\ Start(w, "on_worker_heartbeat", "write", NoJob, w, NewJob)
    /\ UNCHANGED << tables, agents, terminating >>

HeartbeatSetsReady(w) ==
    /\ At(w, "on_worker_heartbeat", "write")
    /\ IF Registered(w) THEN SetWorker(w, "Ready") ELSE UNCHANGED workers
    /\ Finish(w)
    /\ UNCHANGED << jobs, queue, agents, terminating >>

-----------------------------------------------------------------------------
(* Provisioning by the dispatcher.                                         *)

\* trigger_provisioning: a worker row for the job appears.
Provision(j) == \E w \in Workers : workers[w].state = "None" /\ Register(w, j)

\* JobDispatcher::request_worker_provisioning, on a JobCreated event.
RequestWorkerProvisioning(t, j) ==
    ReadModify(t, "request_worker_provisioning", "write", j, NoWorker,
               AssignToProvider(jobs[j]))

ProvisionAfterAssign(t) ==
    /\ At(t, "request_worker_provisioning", "after")
    /\ Provision(tasks[t].job) \/ UNCHANGED workers
    /\ Finish(t)
    /\ UNCHANGED << jobs, queue, agents, terminating >>

-----------------------------------------------------------------------------
(* PostgresJobQueue, as the dispatcher and the scheduler service call it.  *)

\* Queue rows a dequeue has locked.
Locked == { tasks[t].row : t \in {u \in Threads : tasks[u].pc = "dequeue"} }

Waiting(i) == jobs[queue[i]] # NoJob /\ jobs[queue[i]].state = "Pending"
Claimable(i) == queue[i] \notin Locked /\ Waiting(i)

\* PostgresJobQueue::dequeue, the claimed_job query: the oldest row that is not
\* locked and whose job was Pending in the statement's snapshot ...
Oldest(i) == Claimable(i) /\ \A k \in 1 .. (i - 1) : ~Claimable(k)

\* The scheduler has dealt with one row and goes on to the next.
NextRow(task) == [task EXCEPT !.pc = "remove", !.row = NoJob, !.queued = FALSE]

\* Mutated form of Dequeue: the column gets a name the domain does not know.
DequeueUnknownState(t) ==
    /\ tasks[t].pc = "dequeue"
    /\ UpdateState(tasks[t].row, "Claimed")
    /\ \E i \in DOMAIN queue :
         /\ queue[i] = tasks[t].row
         /\ queue' = RemoveAt(queue, i)
    /\ tasks' = [tasks EXCEPT ![t].pc = "dispatch"]
    /\ UNCHANGED << workers, agents, terminating >>

\* ... then the update, which no longer asks for the state, and the delete.
\* remove_job_from_queue keeps the job it looks for.
Dequeue(t) ==
    /\ tasks[t].pc = "dequeue"
    /\ UpdateState(tasks[t].row, "Assigned")
    /\ \E i \in DOMAIN queue :
         /\ queue[i] = tasks[t].row
         /\ queue' = RemoveAt(queue, i)
    /\ tasks' = [tasks EXCEPT ![t] = IF tasks[t].row = tasks[t].job THEN NextRow(tasks[t])
                                     ELSE [tasks[t] EXCEPT !.pc = "dispatch"]]
    /\ UNCHANGED << workers, agents, terminating >>

\* PostgresJobQueue::enqueue: the insert is dropped when the key is there already.
\* dispatch_once comes here when it found no worker or decided to wait, and may
\* have provisioned one.
EnqueueInsert(t) ==
    LET j == tasks[t].row IN
    /\ tasks[t].pc = "dispatch"
    /\ ~InsertPending(j)
    /\ tasks' = [tasks EXCEPT ![t].pc = "enqueue", ![t].queued = ~Contains(queue, j)]
    /\ \/ tasks[t].op = "dispatch_once" /\ Provision(j)
       \/ UNCHANGED workers
    /\ UNCHANGED << jobs, queue, agents, terminating >>

\* The second statement of PostgresJobQueue::enqueue, and the commit.
EnqueueSetPending(t) ==
    LET j == tasks[t].row IN
    /\ tasks[t].pc = "enqueue"
    /\ UpdateState(j, "Pending")
    /\ queue' = IF tasks[t].queued THEN Append(queue, j) ELSE queue
    /\ IF tasks[t].op = "schedule_job" THEN tasks' = [tasks EXCEPT ![t] = NextRow(tasks[t])] ELSE Finish(t)
    /\ UNCHANGED << workers, agents, terminating >>

QueueCall(t) == Dequeue(t) \/ EnqueueInsert(t) \/ EnqueueSetPending(t)

-----------------------------------------------------------------------------
(* The dispatcher.                                                         *)

\* dispatch_once dequeues a job.
ClaimQueueRow(d) ==
    /\ MayStart(d)
    /\ \E i \in DOMAIN queue :
         /\ Oldest(i)
         /\ tasks' = [tasks EXCEPT ![d] = [Idle EXCEPT !.op = "dispatch_once", !.pc = "dequeue",
                                                       !.row = queue[i]]]
    /\ UNCHANGED << tables, agents, terminating >>

\* dispatch_job_to_worker without an execution saga dispatcher, which is how the
\* server wires it: an error, and the job remains Assigned.
DispatchFails(d) ==
    /\ At(d, "dispatch_once", "dispatch")
    /\ Finish(d)
    /\ UNCHANGED << tables, agents, terminating >>

-----------------------------------------------------------------------------
(* SchedulerServiceImpl::schedule_job.                                     *)

\* It creates the job as CreateJob does, and goes on with it ...
ScheduleJob(t, j) ==
    /\ SaveRow(j, NewJob)
    /\ Start(t, "schedule_read", "before", j, NoWorker, NewJob)
    /\ UNCHANGED << workers, agents, terminating >>

\* The handler goes on as op, with worker w and a copy.
Proceed(t, op, pc, w, copy) ==
    /\ copy.attempts <= AttemptsBound
    /\ tasks' = [tasks EXCEPT ![t].op = op, ![t].pc = pc, ![t].worker = w, ![t].copy = copy]

\* ... reads it back ...
ScheduleReads(t) ==
    /\ At(t, "schedule_read", "before")
    /\ Proceed(t, "make_decision", "before", NoWorker, jobs[tasks[t].job])
    /\ UNCHANGED << tables, agents, terminating >>

\* ... and decides.  AssignToWorker: a worker that is READY in the registry.
ScheduleAssigns(t, w) ==
    LET results == SubmitToProvider(tasks[t].copy) IN
    /\ At(t, "make_decision", "before")
    /\ workers[w].state = "Ready"
    /\ \/ \E copy \in results : Proceed(t, "schedule_job", "before", w, copy)
       \/ results = {} /\ Finish(t)
    /\ UNCHANGED << tables, agents, terminating >>

\* Enqueue and ProvisionWorker: the copy is saved as it was read, then enqueued.
ScheduleEnqueues(t) ==
    /\ At(t, "make_decision", "before")
    /\ Proceed(t, "enqueue_job", "write", NoWorker, tasks[t].copy)
    /\ UNCHANGED << tables, agents, terminating >>

\* Reject: the copy fails and is saved; the unwrap of a refused fail panics.
ScheduleRejects(t) ==
    LET results == Fail(tasks[t].copy) IN
    /\ At(t, "make_decision", "before")
    /\ \/ \E copy \in results : Proceed(t, "schedule_job", "write", NoWorker, copy)
       \/ results = {} /\ Finish(t)
    /\ UNCHANGED << tables, agents, terminating >>

\* AssignToWorker: assign_to_job, then remove_job_from_queue, then the save.
ScheduleTakesWorker(t) ==
    LET w == tasks[t].worker IN
    /\ At(t, "schedule_job", "before")
    /\ IF Registered(w) THEN AssignToJob(w, tasks[t].job) ELSE UNCHANGED workers
    /\ Goto(t, "count")
    /\ UNCHANGED << jobs, queue, agents, terminating >>

\* remove_job_from_queue takes as many rows as there are now; the ones that are
\* not the job's it puts back at the end.
CountRows(t) ==
    /\ At(t, "schedule_job", "count")
    /\ tasks' = [tasks EXCEPT ![t].pc = "remove", ![t].left = Cardinality({i \in DOMAIN queue : Waiting(i)})]
    /\ UNCHANGED << tables, agents, terminating >>

RemoveClaims(t) ==
    /\ At(t, "schedule_job", "remove")
    /\ tasks[t].left > 0
    /\ \E i \in DOMAIN queue :
         /\ Oldest(i)
         /\ tasks' = [tasks EXCEPT ![t].pc = "dequeue", ![t].row = queue[i], ![t].left = @ - 1]
    /\ UNCHANGED << tables, agents, terminating >>

\* No row left to look at, or none that dequeue finds.
RemoveEnds(t) ==
    /\ At(t, "schedule_job", "remove")
    /\ tasks[t].left = 0 \/ \A i \in DOMAIN queue : ~Claimable(i)
    /\ tasks' = [tasks EXCEPT ![t].pc = "write", ![t].left = 0]
    /\ UNCHANGED << tables, agents, terminating >>

-----------------------------------------------------------------------------
Init ==
    /\ jobs = [j \in Jobs |-> NoJob]
    /\ queue = << >>
    /\ workers = [w \in Workers |-> [state |-> "None", job |-> NoJob]]
    /\ tasks = [t \in Threads |-> Idle]
    /\ running = [w \in Workers |-> {}]
    /\ stream = [w \in Workers |-> << >>]
    /\ terminating = {}

\* Handlers that pass through the aggregate's state machine.
Request(t) ==
    \E j \in Jobs :
        \/ CreateJob(t, j) \/ ScheduleJob(t, j) \/ CancelJob(t, j) \/ RetryJob(t, j)
        \/ StartJob(t, j) \/ UpdateProgress(t, j) \/ CompleteJob(t, j) \/ FailJob(t, j)
        \/ TimeoutJob(t, j) \/ RequestWorkerProvisioning(t, j)
        \/ \E s \in {"Succeeded", "Failed"} : CompleteJobCommand(t, j, s)
        \/ \E w \in Workers : AssignJob(t, j, w) \/ AssignWorker(t, j, w) \/ ExecuteJob(t, j, w)

Continue(t) ==
    \/ \E w \in Workers : AssignJobWorker(t, w) \/ MarkWorkerBusy(t, w)
    \/ CleanUpWorker(t) \/ CompleteJobSetState(t) \/ CompleteJobReleaseWorker(t) \/ ProvisionAfterAssign(t)

Schedule(t) ==
    \/ ScheduleReads(t) \/ ScheduleEnqueues(t) \/ ScheduleRejects(t)
    \/ \E w \in Workers : ScheduleAssigns(t, w)
    \/ ScheduleTakesWorker(t) \/ CountRows(t) \/ RemoveClaims(t) \/ RemoveEnds(t)

Agent(w) ==
    \/ \E j \in Jobs, type \in {"success", "failure", "timeout"} : AgentFinishes(w, j, type)
    \/ AgentCrashes(w)

Stream(w) ==
    \/ OnJobAcknowledged(w) \/ OnJobResult(w) \/ ReleaseAfterResult(w)
    \/ OnWorkerHeartbeat(w) \/ HeartbeatSetsReady(w)

Dispatch(d) == ClaimQueueRow(d) \/ DispatchFails(d) \/ QueueCall(d)

CheckedNext ==
    \/ \E t \in Tasks : Request(t) \/ Continue(t) \/ Schedule(t) \/ QueueCall(t)
    \/ \E w \in Workers : Agent(w) \/ Stream(w)
    \/ \E d \in Dispatchers : Dispatch(d)
    \/ \E t \in Threads : Save(t) \/ Abort(t)
    \/ \E t \in Tasks, w \in Workers : ReleaseWorker(t, w)

\* Handlers that write a job's state column without looking at it.  UpdateJobState
\* and MarkJobFailed never write Pending, MarkJobForRecovery does.
BlindNext == \E t \in Tasks, j \in Jobs : UpdateJobState(t, j) \/ MarkJobFailed(t, j)

RecoveryNext == \E t \in Tasks, j \in Jobs : MarkJobForRecovery(t, j)

Next == CheckedNext \/ BlindNext
FullNext == Next \/ RecoveryNext

CheckedSpec == Init /\ [][CheckedNext]_vars
Spec == Init /\ [][Next]_vars
FullSpec == Init /\ [][FullNext]_vars

\* The polling dispatch loop logs an error and goes on: it always takes its next
\* step.  A database call ends, and a row that is claimed over and over is taken
\* at last.
FairSpec ==
    /\ Spec
    /\ \A d \in Dispatchers : WF_vars(Dispatch(d))
    /\ \A t \in Tasks \cup Dispatchers, j \in Jobs : SF_vars(tasks[t].row = j /\ Dequeue(t))

-----------------------------------------------------------------------------
(* Properties.                                                             *)

WorkerRow == [ state : WorkerState \cup {"None"}, job : Jobs \cup {NoJob} ]
Message == [ type : {"ack", "success", "failure", "timeout"}, job : Jobs ]

\* Every variable holds a value of its type (rows, queue, handlers, streams).
TypeOK ==
    /\ jobs \in [Jobs -> Job \cup {NoJob}]
    /\ queue \in Seq(Jobs)
    /\ workers \in [Workers -> WorkerRow]
    /\ tasks \in [Threads -> Task]
    /\ running \in [Workers -> SUBSET Jobs]
    /\ stream \in [Workers -> Seq(Message)]
    /\ terminating \in SUBSET Workers

\* A PENDING job without a row in job_queue: no dequeue will ever pick it up.
Stranded(j) == jobs[j] # NoJob /\ jobs[j].state = "Pending" /\ ~Contains(queue, j)

\* The save of job_repository.rs and the enqueue and dequeue of job_queue.rs keep
\* jobs and job_queue together whatever copies are in flight, the dispatcher and
\* the scheduler's remove_job_from_queue included, with one exception: an enqueue
\* whose insert found the key and whose update comes after another handler's
\* dequeue has deleted it.
PendingIsQueued ==
    [][ \A j \in Jobs : ~Stranded(j) /\ Stranded(j)' =>
           \E t \in Threads : /\ tasks[t].pc = "enqueue" /\ tasks'[t].pc # "enqueue"
                              /\ tasks[t].row = j /\ ~tasks[t].queued ]_vars

\* job_id is the key of job_queue, and a queue row refers to an existing job.
Keyed(q) == \A i, k \in 1 .. Len(q) : q[i] = q[k] => i = k

QueueIsKeyed ==
    /\ Keyed(queue)
    /\ \A i \in 1 .. Len(queue) : jobs[queue[i]] # NoJob

\* What states.rs says of Succeeded, Failed, Cancelled and Timeout (no outgoing
\* transitions): a row leaves them only as a fresh Pending job, which is what a
\* retry and a re-submission write.
TerminalIsFinal ==
    [][ \A j \in Jobs : jobs[j] # NoJob /\ IsTerminal(jobs[j].state) =>
           \/ jobs'[j].state = jobs[j].state
           \/ jobs'[j].state = "Pending" /\ ~jobs'[j].done /\ ~jobs'[j].ctx ]_jobs

\* The retry budget: can_retry is checked before prepare_retry and the following
\* failure each add one, so a job never counts more than max_attempts + 1.
AttemptsBudget ==
    \A j \in Jobs : jobs[j] # NoJob => jobs[j].attempts <= MaxAttempts + 1

\* No starvation: dequeue takes the oldest claimable row and a re-enqueued job goes
\* to the end, so every queued PENDING job is taken in the end whatever requests
\* re-submit, schedule, retry or cancel the others.
PendingIsTaken ==
    \A j \in Jobs : LET pending == jobs[j] # NoJob /\ jobs[j].state = "Pending"
                    IN  (pending /\ Contains(queue, j)) ~> ~pending

-----------------------------------------------------------------------------
(* The inductive invariants.                                               *)

\* A handler works on a job that exists, and moves a queue row of one; a completion
\* command completes.
HandlersHaveJobs ==
    \A t \in Threads :
        /\ tasks[t].op \notin {"idle", "on_worker_heartbeat", "dispatch_once"} =>
              tasks[t].job \in Jobs /\ jobs[tasks[t].job] # NoJob
        /\ tasks[t].pc \in QueuePcs => tasks[t].row \in Jobs /\ jobs[tasks[t].row] # NoJob
        /\ tasks[t].op = "complete_job_command" => tasks[t].copy.state # "Pending"

\* An agent runs, and reports on, jobs that exist.
AgentsHaveJobs ==
    \A w \in Workers :
        /\ \A j \in running[w] : jobs[j] # NoJob
        /\ \A i \in 1 .. Len(stream[w]) : jobs[stream[w][i].job] # NoJob

\* A queue row is claimed by one dequeue and stays until that one deletes it; an
\* insert in flight is the only one of its key, which is not in the table.
RowsInFlight ==
    /\ \A t \in Threads :
         /\ tasks[t].pc = "dequeue" => Contains(queue, tasks[t].row)
         /\ tasks[t].pc = "enqueue" /\ tasks[t].queued => ~Contains(queue, tasks[t].row)
    /\ \A t, u \in Threads :
         /\ tasks[t].row = tasks[u].row
         /\ \/ tasks[t].pc = "dequeue" /\ tasks[u].pc = "dequeue"
            \/ tasks[t].pc = "enqueue" /\ tasks[u].pc = "enqueue" /\ tasks[t].queued /\ tasks[u].queued
         => t = u

\* What a handler needs of the tables to keep them well typed.
TypeInv ==
    /\ TypeOK
    /\ HandlersHaveJobs
    /\ AgentsHaveJobs

\* The jobs a handler has for itself: the queue row it moves, and the job that
\* schedule_job has created and not read back.
Owned(task) ==
    {j \in Jobs : \/ task.pc \in QueuePcs /\ task.row = j
                  \/ task.op = "schedule_read" /\ task.job = j}

\* While a handler has a job for itself, no other one holds a copy of it to save.
DispatchIsExclusive ==
    \A t, u \in Threads :
        t # u /\ tasks[u].op \in SaveOps => tasks[u].job \notin Owned(tasks[t])

\* The handlers of a job run one after the other.
OneHandlerPerJob ==
    \A t, u \in Threads :
        t # u => {tasks[t].job, tasks[t].row} \cap {tasks[u].job, tasks[u].row} \subseteq {NoJob}

TablesInv == TypeInv /\ QueueIsKeyed /\ RowsInFlight

=============================================================================
