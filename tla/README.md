# Specification of the hodei-jobs server

hodei-jobs is a job server. Clients submit jobs over gRPC; the server provisions
ephemeral workers (containers, pods, microVMs), hands each job to a worker agent
over a bidirectional stream and follows it to a terminal state. All state that
survives a restart is in PostgreSQL. Components talk through tables, an event
outbox and a command outbox that are relayed to NATS JetStream, and sagas whose
steps issue commands.

The specification models the parts where handlers, processes and crashes meet:
the tables of jobs, queue and workers with the handlers that write them; the saga
orchestrator with its poller, and what the steps of the six sagas do; the event
outbox and the command outbox with their relays; the consumers that start sagas
from JetStream messages; the life of a worker from its
container to the end of its row; the worker process with its streams; and a job's
output on its way to the clients that follow it. Paths below are relative to
`src/crates/server/` unless they start with `crates/`.

## 1. Inventory

| component | state | operations | interacts with |
|---|---|---|---|
| Job state machine (`crates/shared/src/states.rs`) | – | transitions, terminal states | everything |
| Job aggregate (`domain/src/jobs/aggregate.rs`) | state, attempts, execution context, completed_at | submit, assign, mark_running, complete, fail, cancel, timeout, prepare_retry | copied by handlers |
| Job repository (`infrastructure/.../job_repository.rs`) | table `jobs` | save (upsert of the whole row, queue row when PENDING), update_state | queue |
| Job queue (`.../job_queue.rs`) | table `job_queue` | enqueue, dequeue (FOR UPDATE SKIP LOCKED) | jobs table, dispatcher |
| Worker registry (`.../worker_registry.rs`) | table `workers` | register, unregister, update_state, heartbeat, assign_to_job, release_from_job | handlers, dispatcher, lifecycle |
| Use cases (`application/src/jobs/create.rs`, `cancel.rs`) | – | create, cancel, retry | repository |
| gRPC job execution service (`interface/src/grpc/job_execution.rs`) | a copy of a job | assign, start, progress, complete, fail | repository, registry, outbox |
| gRPC scheduler service (`interface/src/grpc/scheduler.rs`) | a copy of a job, the rows it goes through | schedule_job, remove_job_from_queue | create use case, queue, registry |
| gRPC worker service (`interface/src/grpc/worker.rs`) | sessions, channels, per-stream task | register, stream, acknowledgement, result, heartbeat, logs | repository, registry, log service |
| Worker agent (`crates/worker`) | running jobs, undelivered results, log batches | register, run, acknowledge, report, reconnect, terminate | worker service |
| Dispatcher (`application/src/jobs/dispatcher.rs`) | a dequeued job | dispatch_once, request_worker_provisioning | queue, registry, sagas |
| Coordinator (`application/src/jobs/coordinator.rs`) | – | reaction to WorkerReady, JobStatusChanged | dispatcher, bus |
| Timeout monitor, failure handlers (`application/src/jobs`) | – | timeout_job, mark_job_failed | repository, outbox |
| Saga orchestrator (`infrastructure/.../saga_repository.rs`) | tables `sagas`, `saga_steps`; active counter, semaphore | execute_saga: resume, steps, compensation | consumers, poller |
| Saga poller (same file, `bin/src/startup/services_init.rs`, `infrastructure/src/persistence/saga/reactive_processor.rs`) | a claimed batch | claim_pending_sagas, process_pending_sagas, process_stuck_sagas | orchestrator |
| Saga consumers (`.../messaging/*_saga_consumer.rs`, `worker_ephemeral_terminating_consumer.rs`) | a durable consumer, a breaker, the message in hand | start, receive, handle, execute a saga, acknowledge, drain | JetStream, orchestrator |
| Saga definitions and commands (`domain/src/saga`, `domain/src/saga/commands`) | metadata of a context | the steps and compensations of execution, provisioning, cancellation, timeout, recovery, cleanup | jobs, registry, providers |
| Event outbox (`.../outbox/postgres.rs`) | table `outbox_events` | insert, fetch pending, mark published | every emitter |
| NATS outbox relay (`.../messaging/nats_outbox_relay.rs`) | a batch of concurrent tasks, a breaker | fetch, publish with retries, dead-letter | outbox, JetStream |
| Circuit breaker (`domain/src/saga/circuit_breaker.rs`) | state, counters, ring of results | allow_request, record_success, record_failure | relay, saga consumers |
| Command bus and outbox (`domain/src/command`) | table `hodei_commands` | insert and run in memory | saga steps |
| Command relay and consumers (`.../messaging/hybrid/command_relay.rs`, `consumer_utils.rs`) | a batch, the listener | publish, retry, watchdog; check the key, handle, acknowledge | commands, JetStream |
| Worker lifecycle manager (`application/src/workers`) | heartbeats, worker rows | provision, health check, clean-up, orphan scan, reaction to events | registry, providers, bus |
| Log service (`interface/src/grpc/log_stream.rs`, `crates/worker/infrastructure`) | batcher, circular buffer, subscribers | batch, flush, append, subscribe, finalize | worker stream, clients |
| Providers, selection, scheduling, templates, credentials, reconcilers, CLI, console | – | adapters, scoring, lookup | – |

What is hard about this system, and what has to hold:

* **Copies.** A handler reads a job, changes the copy and writes the whole row.
  No row has a version. A terminal state must stay; a row that says PENDING must
  be in the queue; the retry budget must hold. The dispatcher is not alone with the
  queue: the scheduler service takes rows out and puts them back beside it.
* **Statements that are not one transaction**, or whose transaction takes its
  lock late: enqueue, dequeue, claim_pending_sagas, get_pending_events.
* **Interruptions.** A saga call fails, times out, is dropped by its caller, or
  dies with the server, and is called again. Each step must be completed once,
  compensated in reverse, and COMPLETED must mean all done or all undone; and what
  the steps do to a job must make sense beside other sagas of that job.
* **Calls that may have happened.** A publish can time out after the message was
  stored; a mark can fail after it; a message is delivered again while its first
  copy is being handled. No event may be lost, and in the end every
  event must get out, through an open circuit and exhausted retries. A command's
  row and its execution are two steps.
* **Several cleaners.** A clean-up loop, an event and a saga destroy the same
  worker while it registers, beats or is dispatched, and other steps drop its row and
  leave the container. No container may be forgotten by those who answer for it,
  no row stay for a container that is gone.
* **Streams that break.** A worker keeps running while it reconnects. A result may
  be applied once, must not be left behind, and should not be lost.
* **Shared buffers and guards.** Three flushers share a batcher; a follower copies
  and registers in two steps while lines arrive; sends wait with guards held.

`PROJECT.json` lists the hazards at their lines with the properties that catch them.
Further ones that were met and have no property of their own: a relay on the same
rows as another (`outbox/postgres.rs`; the proof of `PublishedIsStored` covers it); a
task that removes its handle before main has stored it (`crates/worker/bin/src/main.rs:483`);
a graceful shutdown that ends with results unsent (`main.rs:548`); a guard of
worker_channels held across a send (`interface/src/grpc/worker.rs:1277`); a timeout
below a second becomes zero (`main.rs:451`); a follower that registers after the job
was finalized never ends (`log_stream.rs:186`); one slow follower holds up the worker's
stream (`log_stream.rs:135`); sequence labels are read when a line is
forwarded (`log_stream.rs:372`); with include_history the buffer is sent twice
(`log_stream.rs:339`); a PENDING job passed over for ever (`job_queue.rs:163`; the run
`fair` checks `PendingIsTaken`).

## 2. Modules

| module | what it models |
|---|---|
| `JobStates` | the states of jobs and workers, valid transitions |
| `JobAggregate` | the Job aggregate: a method is an operator from a job to the set of jobs it may leave (empty: `Err`) |
| `JobExecution` | the tables `jobs`, `job_queue`, `workers`, the agents and their streams, and one action for every step of the handlers of the job, execution and scheduler services, of the saga commands, monitors, streams and dispatcher |
| `JobLogs` | a job's output: batcher, worker's channel, ingestion, circular buffer, followers |
| `SagaContract` | what the engine promises of one saga: the abstract specification |
| `SagaOrchestrator` | `execute_saga` and the poller, statement by statement where it matters; refines `SagaContract` |
| `SagaSteps` | what the steps and compensations of the six sagas do to jobs, workers and containers |
| `CircuitBreaker` | the breaker as operators on its state |
| `EventRelay` | the outbox table and any number of relays, each with its batch of concurrent tasks and its breaker |
| `CommandOutbox` | `hodei_commands`, the bus that writes it, its relay and the command consumers |
| `SagaConsumers` | the loop of a saga consumer and the JetStream delivery it is configured with |
| `WorkerLifecycle` | a worker's row, container, registration and job, with the handlers, loops and sagas that write, clean or drop them |
| `WorkerStream` | the worker process and the server's end of its streams |
| `JobExecution_proofs`, `JobLogs_proofs`, `SagaOrchestrator_proofs`, `SagaSteps_proofs`, `CommandOutbox_proofs`, `WorkerLifecycle_proofs`, `WorkerStream_proofs` | theorems about the module each extends |
| `Messaging_proofs` | theorems about `CircuitBreaker`, `EventRelay` and `SagaConsumers` |
| `MCJobExecution`, `MCSagaOrchestrator`, `MCSagaSteps`, `MCEventRelay` | model values for TLC |
| `MCJobs`, `MCMessaging`, `MCWorkers` | two components, or three, side by side |

The last three explore modules that share no variable: every behaviour chooses
one of them (`part`) and leaves the others in their initial state. The reachable states
are the union, not the product, and each part has exactly the fairness of
its own specification.

**JobExecution.** `jobs`, `queue` and `workers` are the tables; `tasks` holds, for
each thread (request slots, dispatchers, one stream task per worker), the handler
it is in, its program counter and its copy. A handler is cut where another one can
come between: the read with the aggregate method, the write, what follows it.
`save` locks the jobs row first and is one step. `dequeue` chooses its queue row
from a snapshot before it has that lock, and `enqueue` inserts the queue row
before it; each is two steps. `Abort` ends any handler anywhere (database error,
panic, restart). `CheckedNext` are the handlers that go through the aggregate,
`BlindNext` those that write a state column without reading it, `RecoveryNext`
the recovery command. Worker selection, scoring and the provisioning cooldown are
nondeterministic choices; a provisioned worker is a row that appears.

`schedule_job` creates its job, reads it back, decides (a choice) and then assigns a
READY worker, enqueues or rejects. Before it saves an assignment it calls
`remove_job_from_queue`, which counts the waiting rows, dequeues that many and puts the
ones of other jobs back at the end: these dequeues and enqueues are the same two-step
operations the dispatcher uses (`QueueCall`), and what a task has in hand is its `row`,
what it still has to look at its `left`. An abort in between leaves the row it
had taken out ASSIGNED, as the code does.

**SagaOrchestrator.** `sagas` and `rows` are the tables (a step row is a call number
and a step), `active` and `permits` the counters, the rest the locals of each call
and of the poller. A step's transaction is one action, since its row and the
context are committed together; the reads before the loops are actions of their
own. `SerialSpec` restricts callers to sagas that nobody else executes or has
claimed; `Spec` does not. `claim_pending_sagas` is a SELECT whose locks end with it,
then one UPDATE per row, each of which may be refused (it binds a uuid as text).
`Reactive` are the pollers that claim and execute nothing: the safety poll of
`ReactiveSagaProcessor`, which the server starts beside the poller and which only counts
the sagas it claimed.

**SagaSteps.** One operator per step and per compensation, with its early returns,
the command it dispatches and what each failure half-way has already written. The
orchestrator is reduced to what steps can see of it: next step, failure, reversed
compensation, a call that is cut off and resumed with the metadata last committed.
A command that writes a job on what it has read (AssignWorker, ExecuteJob, CompleteJob,
the two compensations of the execution saga, the orphans of cleanup) is one action per
await, and `call` holds its copy: the mutex of the in-memory bus keeps the commands of
execution sagas apart (`InCommand`), and nobody else, neither the gRPC handlers nor the
other sagas nor the compensations. Commands that write without looking are one action.
`AssignJob` and `JobResult`, the requests that compete for the job, are one action here
and are taken apart in `JobExecution`. A create may fail with its container made
(`start_container`, `providers/docker.rs:390`, or a lost answer), or be cut off after it;
such a container is on nobody's record (`stray`). A command without a
registered handler is a dispatch that fails. RUN_JOB is sent by a sender that
reaches the workers. The deployed server builds the saga's sender from a placeholder
`WorkerAgentServiceImpl::new()` with an empty channel map
(`bin/src/startup/services_init.rs:554-556`, and `837` for the command consumers), so
that there every ExecuteJob ends in the branch where the send fails, and no saga
delivers a job; the module, and the run `saga_success`, are about the wiring the comment
beside it announces. `Services` are the kinds of saga whose
starter puts services into the context; the deployed server does it for execution,
provisioning and recovery only, and a step without them takes the branch the code
takes. Compensations that cannot be reached with services (those of UpdateJobState,
TransferJob, ReleaseTimedOutWorker, and of TerminateWorker with a worker) are their
early returns only.

**EventRelay.** A row is its status and its rank in `created_at` order. A relay is
idle or works on a batch; every event of the batch is a task of its own, because
`FuturesUnordered` interleaves them at each await. Results are recorded by the
breaker twice, in `execute` and in `process_event`, and rejected calls once, as in
the code. The relay runs on one thread, so the breaker's methods are atomic.
JetStream is external: a failed publish may or may not have stored the message.

**CommandOutbox.** `dispatch_erased` inserts a row and runs the command in memory:
a crash can come between the two, and between the handler's effect and its return. The
row of a bus command carries neither the command nor its key; `Carried` are rows that
do, as the repository allows. No statement of the repository notifies `outbox_work`,
so a relay whose listener works is never woken by a row; the watchdog and the loss of
the listener are. The clean-up task's `DELETE ... LIMIT` is not valid SQL and has no
effect.

**SagaConsumers.** The four consumers share one loop and differ in three things: two of
them drain on shutdown (`Draining`), one makes a durable with a new name at each start
(`FreshNamed`) and announces the worker's end after its saga. A behaviour follows one of
them. `deliveries` and `acked` are JetStream's account of the current durable, `copies`
what the client has fetched, `current` and `stage` the iteration. ack_wait (30 s) is shorter
than call_timeout (60 s), and a fetched message waits behind the others, so `Deliver` may
come at any time for a message that is not acknowledged. The handler's reads of job and
worker are a choice between its outcomes: skip, fail, start a saga. An open circuit and a
drain acknowledge messages that nobody handled, as the code does.

**WorkerLifecycle.** Per worker: the columns of its row, its container, its
registration, the execution saga of its job, the agent, the events in flight, and
the next step of each of the four that may clean it up: the manager's loop, its reaction
to WorkerEphemeralTerminating, `destroy_worker`, and `WorkerTerminationService`. The
first two answer for the container (`Answering`): they delete a row only once the
provider has destroyed it. The others do not. `destroy_worker` ignores a refusal, the
termination service only announces the end (`termination.rs:99-113`), and
`UnregisterOnly` stands for those that drop the row and nothing else: CancelOldWorker
after a failed TerminateOldWorker (`saga/recovery.rs:637-652`), UnregisterWorker for
CleanupUnhealthyWorkers (`saga/cleanup.rs:450-468`, `commands/provisioning.rs:323-331`)
and `cleanup_failed_worker` (`provisioning_failure_handler.rs:360-371`). `excused` remembers
that. Nothing but tests constructs the termination service and the failure handler.
`Loops` are the loops that
are scheduled: the deployed wiring starts the event monitoring only
(`bin/src/startup/mod.rs:393`); health check and clean-up run through
`JobOrchestrator::run_maintenance`, the orphan scan and reconciliation are called by
nobody. `Named` are workers that register under an id their provider can destroy
(pods; the handle rebuilt for a Docker worker names no container). `Listed` are those
whose provider implements `list_workers`, which none does (`provider_api.rs:326`).
`reconciler.rs` and `garbage_collector.rs` repeat the manager's loops.

**WorkerStream.** The process is main's `select!` loop plus a task per job; the server
has a task per stream. Connections break at any point, with (`Lossy`) or without
losing what was sent on them. `send_to_worker` asks for a channel and for nothing else,
so that a worker which the registry shows free while its agent still has a job is given
a second one; `shared` are the jobs that were on the worker together.
Acknowledgements, the job ids of heartbeats, log lines, token expiry and channel
capacities are left out; no code sends CancelJob.

**JobLogs.** The reader, the periodic flush task and the last flush share the batcher
and its mutex; a flush takes the lines and may then fail, time out or be aborted.
`append_log` is cut at its awaits: store, look up the subscribers, send to each in
turn. `subscribe` copies the buffer, replays it and registers in separate steps, with
the guard it holds. Who waits for a guard of a DashMap waits with its OS thread, not
as a task (`log_stream.rs:133-135`, `170-190`); that the other tasks are polled meanwhile
takes a runtime with a thread to spare, which the fairness presumes. Sequence labels,
the log file, persistent storage (not configured) and the truncation of batches over
1000 lines are left out.

## 3. Runs

| run | question | result |
|---|---|---|
| `jobs` | one handler at a time: terminal states final, retry budget; a job's output in order, before the result, to every registered follower, and finalized in the end? | holds, 480 thousand states |
| `fair` | a handler, the scheduler's among them, and the dispatcher interleaved and aborted: is a torn enqueue the only step that leaves a PENDING row unqueued, and is a queued one taken in the end? | holds, 342 thousand states |
| `lost_update` | terminal states final with two handlers in flight? | violated: the later save wins (`job_repository.rs:78`) |
| `saga_contract` | does the orchestrator implement `SagaContract` when no saga is with two executors; each step completed once; counter exact? | holds, 1 million states |
| `saga_resumed_rollback` | does an interrupted rollback go on? | violated: the saga is saved PENDING and runs forward |
| `saga_steps` | an execution saga beside one of any kind, failures and cut-offs anywhere: RUN_JOB at most once, no success without it, terminal states overwritten only inside a command's own window, honest rollback, every run ends? | holds |
| `saga_success` | does SUCCEEDED mean that a worker reported it? | violated without a fault: CompleteJob follows ExecuteJob at once |
| `messaging` | relay: nothing lost, thresholds act, good events published; commands: a bus command at most once, COMPLETED only when handed over, every row settled; saga consumers: a bounded number of sagas for a message, every message settled? | holds, 116 thousand states |
| `relay_starved` | … with a batch full of poisonous rows? | violated: dead-lettered rows stay PENDING and oldest |
| `command_lost` | is a command in its row executed in the end, as the outbox promises? | violated: the row of a bus command holds a placeholder |
| `workers` | containers, ghost rows and BUSY workers cleared, nothing forgotten by the manager before it is destroyed; results applied once, left behind only of jobs that shared the worker, channels read, reconnection, every job answered? | holds, 178 thousand states |
| `result_lost` | does a result survive a broken connection? | violated: it is sent before the heartbeat that names the stream |

The findings in `PROJECT.json` quote the comment or documentation each violated
run contradicts. Further disagreements were met and have no run of their own:

* A dequeue that comes between the two statements of an enqueue leaves a PENDING row
  without a queue row, which no dequeue ever finds. One process suffices: `schedule_job`
  saves a PENDING job, which queues it, and then enqueues it, while the dispatcher takes
  it. The run `fair` reaches this, and `PendingIsQueued` names it as the one exception.
  The recovery command sets PENDING without enqueueing, which is why it is in
  `FullSpec` only.
* `remove_job_from_queue` moves all other jobs to the end of the queue and marks each
  ASSIGNED meanwhile; a handler that dies half-way leaves that job ASSIGNED and unqueued.
* The saga's ExecuteJob and CompleteJob overwrite a state that another handler wrote
  after their read, a cancellation for instance; `ExecutionRespectsTerminal` bounds the window
  to the one command.
* A create that fails after Docker has made the container leaves it, and the saga
  reports itself rolled back; so does a provisioning that was cut off before its commit
  and could not be resumed with services. `RollbackIsHonest` excepts them by name.
* Four places drop a worker's row and leave its container (section 2, WorkerLifecycle).
  Only the orphan scan would find it, with a provider that lists its workers.
* A worker with two jobs may terminate itself between the end of the second job and its
  result: `idle_since` was set for the first. `LeavesEmptyHanded` excepts such jobs.
* The deployed saga sender has no channels, so that no saga delivers RUN_JOB (section 2,
  SagaSteps).
* The permit of `max_concurrent_sagas` is dropped in its match arm, so the limit acts
  for an instant only; two calls with the same saga id execute the same step
  (`StepCompletedOnce` holds of `SerialSpec`).
* The row of a failed step is rolled back before it is marked FAILED
  (`saga_repository.rs:1304`); the poller's factory refuses PROVISIONING sagas
  (`services_init.rs:452`), so an interrupted one is only ever claimed.
* The breaker opens and closes after about half the calls its thresholds name, since
  results are recorded twice; half-open lets every request through.
* `assign_to_job` makes a TERMINATED worker BUSY again. `CompleteJob` ends a worker's
  row without an event, so in the deployed wiring nothing destroys its container;
  `JobReassignmentRequired` is never emitted in practice. The cancellation consumer
  gives no services, so its saga never notifies the worker.
* "No workers available ... will retry" of the execution consumer is followed by the
  acknowledgement, so that nothing retries but the dispatcher. The consumer of
  terminating workers starts its sagas again after every restart, up to max_deliver
  times each, for messages that are still in the stream, and its abandoned durables
  keep them there until max_age. It announces WorkerEphemeralTerminated after a saga
  that failed, too.
* `subscribe` of a job with more buffered lines than its channel holds never returns
  and keeps a guard (`Stuck` in `JobLogs`); the log properties except that state.

### Bounds

* Jobs, workers: the properties are about one row at a time and the handlers never
  read two jobs, so one job suffices for `jobs`; `fair` has two, since starvation needs
  a second, and two handlers in flight: any more are covered by `PendingStaysQueued`. It
  has two parts (`QueueSpec`): every handler while no worker is there, and, with a READY
  worker, the requests that create, schedule or cancel beside the dispatcher, where
  `remove_job_from_queue` runs.
* `MaxAttempts` is 3 in `jobs`, as in the code, with `AttemptsBound` 5 above the
  budget, so that the budget and not the bound stops the counter; elsewhere attempts
  do not matter and the bound is 1. `StreamBound` 2: an acknowledgement and a result
  are in flight together.
* Logs: capacities are scaled and keep their order (buffer 2 above channel 1, as 1000
  is above 100). Three lines and one follower with timeouts and broken connections, or
  two lines (`PairLines`) and two followers without: more do not finish in minutes.
* Sagas: four steps, two of them with a compensation, make the orders forward and
  back distinguishable and leave steps without compensation at both ends; three
  calls allow a call, a resumption and a resumption of the resumption; two sagas
  let the poller have a batch, one of them of a type it refuses. `saga_contract` has
  a poller of each kind.
* Saga steps: one job, one worker registered and one to be provisioned; an execution
  saga with one of any kind (`MCMay`). A saga that runs alone meets two failures or
  cut-offs, two that run side by side meet one (`MCSpec`).
* Relay: one good and one poisonous event. `MaxRetries` 2, thresholds 3 and 2 and a
  ring of 6 with 50 percent let the circuit open through either condition, reject,
  become half-open, fail again and close. One crash at every possible point.
* Commands: one of the bus and one carried, batches of one so that a row can hold up
  another, two retries, three failures, lost messages or crashes.
* Saga consumers: one message, since the loop never relates two and copies of one are
  taken in any order; two deliveries (first and again), three starts of the server and
  two faults, so that a copy and an acknowledgement can both be lost.
* Workers: one of three kinds at a time (`focus`), since no operation relates two;
  one failing call, lost event or restart. Process: one job, three streams and two faults,
  or two jobs at a time and one fault.

### Fairness

* `fair`: weak fairness of the dispatcher's next step (the loop logs errors and goes
  on) and strong fairness of `Dequeue`, per row and thread: a row that is claimed again
  and again is taken. This is the polling loop of `start_dispatch_loop`, which runs every 20
  seconds when the coordinator is not started; requests and workers get no fairness.
* Relay: weak fairness of the loop, of each task and of time; strong fairness of
  a publish that is tried for ever and of the row's UPDATE. Without them NATS or the
  database may simply stay down.
* Commands: the relay's task, its watchdog and the in-memory dispatch are polled.
  Faults are bounded, so no strong fairness is needed.
* Saga consumers: the server is started again, JetStream delivers what is due, the loop
  takes what was fetched and a handler ends, at the latest by its timeout; a server told
  to stop stops. `MessagesAreSettled` is about consumers whose loop goes on: one that
  failed to start, or whose stream ended, is not restarted by anything.
* Saga steps: a run that is in a step goes on, and one that was cut off is called
  again, as the poller and redelivery do.
* Workers: tasks and scheduled loops are polled and heartbeats age; of the cleaners only
  the manager's go on, a saga or the termination service may stop half-way. Process: tasks are
  polled, `select!` picks a ready branch in the end, jobs end (they have a timeout).
* Logs: the server's and the subscription's tasks are polled and a client that stays
  reads. A client that leaves is noticed at some send, never before. Since DashMap blocks
  the thread that waits for a guard, this presumes a spare thread of the runtime.

`CHECK_DEADLOCK FALSE` where the bounds, or a table with nothing pending, may stop
the system; the saga runs check deadlock.

## 4. Proofs

The following is proved by TLAPS for every value of the constants.

* **JobExecution.** `TypeCorrect`: the types need that a handler works on a job that
  exists and that agents run and report on existing jobs (`TypeInv`); it holds of
  `FullSpec`. `QueueStaysKeyed` (of `FullSpec`) and `PendingStaysQueued` (of `Spec`) have no
  hypothesis on the schedule: any number of dispatchers, scheduler requests and other
  handlers. `PendingIsQueued` does not follow from the key alone, because
  `EnqueueSetPending` relies on a decision made one step earlier and `Dequeue` on a row
  claimed earlier. `TablesInv` adds `RowsInFlight`: a claimed row stays until the one
  dequeue that has it deletes it, and an insert in flight is the only one of its key,
  which is not in the table. What is left is the enqueue whose insert found the key.

  `BudgetIsKept` and `TerminalStaysFinal` prove `AttemptsBudget` and `TerminalIsFinal`, each from
  what it really needs of the schedule, because neither holds of every interleaving:
  the run `lost_update` refutes `TerminalIsFinal` with two handlers of one job, and an
  enqueue, which sets the state column of its job without reading it, revives a
  job that has spent its last attempt meanwhile. The budget needs only that no
  handler holds a copy of a job whose queue row another one moves, or which schedule_job
  has created and not yet read back (`DispatchIsExclusive`); stale
  saves and blind completions may race. Terminal states need that the handlers of one
  job come one after the other (`OneHandlerPerJob`), those of different jobs interleaving
  freely. `StepShape` first sorts every step into four kinds (a handler's turn, its write,
  a creation, a write of one column); `BudgetInv` then says that rows and saved copies are
  within the budget and that a job whose row is being moved can still fail once more, and
  `FinalInv` that a handler about to write over a terminal row leaves its state or starts
  it afresh. The hypotheses are not vacuous: `SerialHandlersAreSafe` proves both from
  `MaxInFlight <= 1`, so that it generalises the run `jobs` from its instance to any jobs,
  workers and threads.
* **SagaOrchestrator.** `SagaTypeCorrect` and `ActiveStaysExact` hold of `Spec`, with
  any concurrency. `StepCompletesOnce` and `OrchestratorImplementsContract` hold of
  `SerialSpec`: the invariant says what a call knows of its saga's rows at each
  program point – the steps it skips are exactly those completed when it loaded
  them, and its own rows are those of the steps behind it – which survives because
  nobody else has the saga. Each action then maps to a step of `SagaContract` or
  to a stutter; there is one lemma per kind of step.
* **EventRelay.** One inductive invariant: a task about to mark its row has its event
  in the stream; a task that is not yet exhausted has an attempt left; every breaker
  is below the threshold that would change its state. The last part rests on lemmas
  about `record_success`, `record_failure` and `state`. `PublishedStaysStored` covers
  any number of relays on the same rows, which the run does not.
* **CircuitBreaker.** The lemmas about the breaker's operators that `EventRelay` and
  `SagaConsumers` share: types, and that each operator leaves it below its thresholds.
* **CommandOutbox.** `CmdInv`: a future that is alive has an attempt left; the row of a bus
  command keeps the placeholder it was inserted with, so only the bus can run the
  command; what is past its publish, in the stream or COMPLETED was published. From it
  `CommandTypeCorrect`, `BusCommandRunsOnce` and `CompletedStaysHanded`, for any commands,
  batches and number of faults.
* **SagaSteps.** `Inv` has four parts besides the types: what a run and its context look
  like (`RunsOk`), whose a worker id is (`IdsOk`), which runs may still send a job
  (`SendOk`) and that a container which is neither refused nor stray is on record
  (`HonestOk`). `JobIsSentOnce` and `SuccessComesAfterSend` rest on AssignWorker being the only
  way to the step that sends, on the bus keeping the commands of two execution sagas
  apart, and on no step making a job PENDING again; `RollbackStaysHonest` on the reversed
  loop not passing a completed step that has a compensation. `ExecutionLeavesTerminalJobs` is the
  action property `ExecutionRespectsTerminal`, over all interleavings of the commands'
  awaits. All hold for any kinds of runs side by side, and any number of cuts and
  resumptions.
* **SagaConsumers.** `ConsumerInv` accounts for deliveries: the sagas started for a message,
  the copies waiting and the one in hand before its saga are at most the deliveries
  of the current durable plus max_deliver for each earlier one; a stopped consumer
  holds no copy; only the fresh-named one has more than one durable. From it
  `ConsumerTypeCorrect` and `ConsumerSagasBounded`, for any messages, starts and faults.
* **WorkerLifecycle.** `LifeInv` adds two facts to the types: `RowsFit` (what a row may
  hold given its registration and its container) and `DeletionIsDue` (a cleaner of the
  manager that is about to unregister has destroyed the container). From it
  `LifeTypeCorrect` and `ForgottenDestroyed`, for any workers, scheduled loops and
  number of faults.
* **WorkerStream.** `StreamInv` says where the result of a job is: in exactly one of its
  task, the result channel, the pending list, the streams and `applied`, or nowhere;
  that jobs the worker has at the same time are `shared`, as are those it has while it is
  idle or leaves (`ShareInv`); that a running job's handle is in the map (`HandleInv`); and
  which streams the server reads. From it
  `StreamTypeCorrect`, `ResultStaysOnce`, `LeavesNothing` and `ChannelStaysRead`, for any
  jobs and any number of broken connections and restarts.
* **JobLogs.** `LogInv` follows the lines through the places they pass, from the server
  back to the reader: every place holds increasing numbers, each place is ahead of
  the next (`OrderInv`), the batcher's mutex is with one flusher (`MutexInv`), every
  line is stored, given up or in one of the places (`CoverInv`), and the result is
  behind them (`LastInv`). From it `LogTypeCorrect`, `LinesStayInOrder` and `ResultIsLast`,
  for any number of lines and any capacities. `NoFollowerMisses` has an invariant of its
  own, `FollowInv`: the lines a follower had since its registration are consecutive lines
  of the log, and while it is registered they end at the last stored one, or one before
  it when the line in hand is still to be sent to it. It needs that nobody is
  registered or served twice, that only subscribers of the moment are served, and that
  the line in hand is the last one stored. TLC had checked `FollowInv` on the
  394 thousand states of the logs' instances before it was proved.

Assumptions are those of the `ASSUME`s: thresholds, window, batch sizes, capacities
and retry limits are positive naturals, and the placeholders for "no job", "no worker"
and "no saga" are not members of the sets.

Only proved: the type invariants `LifeTypeOK`, `StreamTypeOK` and `ConsumerTypeOK`; no run lists
them.

Every invariant and every action property of the passing runs is stated by a theorem.
Some are proved of less than all behaviours, and the runs check them there:
`TerminalIsFinal` and `AttemptsBudget` as said above, `PendingIsQueued` without the recovery command,
`StepCompletedOnce` and the refinement of `SagaContract` when calls for one saga do not overlap.

Only model-checked: all liveness (`PendingIsTaken`, `EventsArePublished`, `RowsAreSettled`,
`MessagesAreSettled`, `SagaEnds`, `ContainersAreReclaimed`, `GhostRowsLeave`, `BusyEnds`, `WorkerReconnects`,
`JobsAreAnswered`, `LogsAreFinalized`, `FollowersEnd`): liveness under fairness is outside
what the prover handles.

## 5. Not modelled, and the plan

In the order in which they are worth doing:

1. Safety facts behind the liveness properties, which the prover can reach: that a step
   which a fair action waits for stays possible until it is taken (a queued row stays
   claimable, a pending result stays with a worker that reconnects).
2. **Composition** of `JobExecution`, `EventRelay` and `SagaConsumers`: the events handlers
   insert and the handlers and sagas they trigger.
3. Components the server binary does not start: the in-memory saga orchestrator, the
   generic outbox relay, worker actors and their supervisor, the disconnection and
   orphan consumers, reconcilers, the global
   log buffer.

The models stand for about a tenth of the repository's lines. What is left is for the
most part not behaviour: protocol code generated from the `.proto` files, data types
with their conversions (events, templates, specifications, configuration, errors),
provider adapters and the pod specification they render, metrics and telemetry,
migrations, credentials, the CLI and the web console, and unit tests kept inside the
source files.
