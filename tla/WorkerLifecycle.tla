--------------------------- MODULE WorkerLifecycle ---------------------------
(***************************************************************************)
(* The life of a worker, from the container a provider makes to the row    *)
(* that leaves the registry: WorkerLifecycleManager and its loops          *)
(* (application/src/workers/lifecycle.rs, reconciler.rs,                   *)
(* garbage_collector.rs), the registry (postgres/worker_registry.rs), the  *)
(* worker service that registers workers and takes their results           *)
(* (grpc/worker.rs), JobCoordinator (jobs/coordinator.rs), and who else    *)
(* writes or deletes the same rows: the execution saga, destroy_worker,    *)
(* the steps and handlers that only unregister a worker, and               *)
(* WorkerTerminationService.                                               *)
(*                                                                         *)
(* Every worker is made for one job.  No operation relates two workers, so *)
(* a loop over workers is an independent task per worker.                  *)
(***************************************************************************)
EXTENDS Naturals, Sequences

CONSTANTS
    Workers,
    Named,          \* workers that register under the id of their container
    Listed,         \* workers whose provider implements list_workers
    Dispatched,     \* workers whose WorkerReady reaches the dispatcher
    Called,         \* workers that a saga may destroy or unregister
    Ephemeral,      \* workers that WorkerTerminationService may be asked to end
    Loops,          \* the maintenance loops that are scheduled
    LifeMaxFaults   \* bound: failing calls, lost events, restarts, assign_job requests

AllLoops == { "health", "cleanup", "sweep" }
Cleaners == { "gc", "event", "saga", "service" }

\* The cleaners of the manager, which delete a row once its container is gone.
Answering == { "gc", "event" }

ASSUME LifeAssumption ==
    /\ Named \subseteq Workers
    /\ Listed \subseteq Workers
    /\ Dispatched \subseteq Workers
    /\ Called \subseteq Workers
    /\ Ephemeral \subseteq Workers
    /\ Loops \subseteq AllLoops
    /\ LifeMaxFaults \in Nat

VARIABLES
    wState,      \* [Workers -> WRow]: state column, or no row
    wJob,        \* [Workers -> BOOLEAN]: current_job_id is set
    wAge,        \* [Workers -> WAge]: last_heartbeat: NULL, fresh, past
                 \* heartbeat_timeout, past idle_timeout
    wOld,        \* [Workers -> BOOLEAN]: max_lifetime has passed
    box,         \* [Workers -> Box]: the container
    join,        \* [Workers -> Join]: the worker's registration
    dispatch,    \* [Workers -> Dispatch]: the execution saga of its job
    running,     \* [Workers -> BOOLEAN]: the agent has the job
    ended,       \* [Workers -> BOOLEAN]: the job's row is terminal
    result,      \* [Workers -> Result]: on_job_result in progress
    statusEvent, \* [Workers -> BOOLEAN]: JobStatusChanged for the coordinator
    notice,      \* [Workers -> BOOLEAN]: WorkerEphemeralTerminating for the manager
    infra,       \* [Workers -> Seq(Infra)]: events of the provider
    clean,       \* [Cleaners -> [Workers -> Clean]]: next step of a clean-up
    excused,     \* [Workers -> BOOLEAN]: the row was given up by one who does not
                 \* answer for the container
    overdue,     \* [Workers -> BOOLEAN]: find_unhealthy returned the worker
    sweep,       \* [Workers -> Sweep]: the orphan scan
    lifeFaults

rows == << wState, wJob, wAge, wOld >>
agents == << join, running >>
job == << dispatch, ended, result, statusEvent, notice >>
tasks == << clean, excused, overdue, sweep >>
lifeVars == << rows, box, agents, job, infra, tasks, lifeFaults >>

WRow == { "Absent", "Creating", "Ready", "Busy", "Terminated" }
WAge == { "null", "fresh", "late", "idle" }
Box == { "none", "up", "exited", "gone" }
Join == { "no", "insert", "ready", "in", "failed" }
Dispatch == { "wait", "assign", "send", "complete", "over" }
Result == { "none", "announce", "release" }
Infra == { "started", "stopped" }
Clean == { "idle", "mark", "destroy", "announce", "unregister" }
Sweep == { "idle", "listed", "orphan" }

LifeFine == UNCHANGED lifeFaults
LifeFault == lifeFaults < LifeMaxFaults /\ lifeFaults' = lifeFaults + 1

LifeInit ==
    /\ wState = [w \in Workers |-> "Absent"]
    /\ wJob = [w \in Workers |-> FALSE]
    /\ wAge = [w \in Workers |-> "null"]
    /\ wOld = [w \in Workers |-> FALSE]
    /\ box = [w \in Workers |-> "none"]
    /\ join = [w \in Workers |-> "no"]
    /\ dispatch = [w \in Workers |-> "wait"]
    /\ running = [w \in Workers |-> FALSE]
    /\ ended = [w \in Workers |-> FALSE]
    /\ result = [w \in Workers |-> "none"]
    /\ statusEvent = [w \in Workers |-> FALSE]
    /\ notice = [w \in Workers |-> FALSE]
    /\ infra = [w \in Workers |-> << >>]
    /\ clean = [c \in Cleaners |-> [w \in Workers |-> "idle"]]
    /\ excused = [w \in Workers |-> FALSE]
    /\ overdue = [w \in Workers |-> FALSE]
    /\ sweep = [w \in Workers |-> "idle"]
    /\ lifeFaults = 0

-----------------------------------------------------------------------------
(* The registry.                                                           *)

HasRow(w) == wState[w] # "Absent"
HasBox(w) == box[w] \in {"up", "exited"}

\* An UPDATE changes nothing where there is no row.
UpdateState(w, s) ==
    /\ wState' = [wState EXCEPT ![w] = IF @ = "Absent" THEN @ ELSE s]
    /\ UNCHANGED << wJob, wAge, wOld >>

\* INSERT ... ON CONFLICT DO UPDATE: CREATING, no heartbeat yet.
RegisterRow(w) ==
    /\ wState' = [wState EXCEPT ![w] = "Creating"]
    /\ wJob' = [wJob EXCEPT ![w] = TRUE]
    /\ UNCHANGED << wAge, wOld >>

UnregisterRow(w) ==
    /\ wState' = [wState EXCEPT ![w] = "Absent"]
    /\ wJob' = [wJob EXCEPT ![w] = FALSE]
    /\ wAge' = [wAge EXCEPT ![w] = "null"]
    /\ wOld' = [wOld EXCEPT ![w] = FALSE]

AssignToJob(w) ==
    /\ wState' = [wState EXCEPT ![w] = IF @ = "Absent" THEN @ ELSE "Busy"]
    /\ wJob' = [wJob EXCEPT ![w] = HasRow(w)]
    /\ UNCHANGED << wAge, wOld >>

ReleaseFromJob(w) ==
    /\ wState' = [wState EXCEPT ![w] = IF @ = "Absent" THEN @ ELSE "Terminated"]
    /\ wJob' = [wJob EXCEPT ![w] = FALSE]
    /\ UNCHANGED << wAge, wOld >>

\* The thresholds a row passes when nothing is heard, and its lifetime.
HeartbeatAges(w) ==
    /\ HasRow(w)
    /\ wAge[w] \in {"fresh", "late"}
    /\ wAge' = [wAge EXCEPT ![w] = IF @ = "fresh" THEN "late" ELSE "idle"]
    /\ UNCHANGED << wState, wJob, wOld, box, agents, job, infra, tasks, lifeFaults >>

LifetimePasses(w) ==
    /\ HasRow(w)
    /\ ~ wOld[w]
    /\ wOld' = [wOld EXCEPT ![w] = TRUE]
    /\ UNCHANGED << wState, wJob, wAge, box, agents, job, infra, tasks, lifeFaults >>

-----------------------------------------------------------------------------
(* The container and the agent in it.                                      *)

\* DefaultWorkerProvisioningService::provision_worker: the container is made
\* and its handle dropped; the worker registers itself.
ProvisionWorker(w) ==
    /\ box[w] = "none"
    /\ box' = [box EXCEPT ![w] = "up"]
    /\ infra' = [infra EXCEPT ![w] = Append(@, "started")]
    /\ UNCHANGED << rows, agents, job, tasks, lifeFaults >>

\* The worker exits or is killed.
ContainerExits(w) ==
    /\ box[w] = "up"
    /\ box' = [box EXCEPT ![w] = "exited"]
    /\ infra' = [infra EXCEPT ![w] = Append(@, "stopped")]
    /\ running' = [running EXCEPT ![w] = FALSE]
    /\ UNCHANGED << rows, join, job, tasks, lifeFaults >>

\* register: the request arrives (its token was issued for this worker and is
\* good once), finds no row, inserts one, marks it READY and publishes
\* WorkerReady.  A failed insert is an error, a failed update is only logged.
RegisterArrives(w) ==
    /\ box[w] = "up"
    /\ join[w] = "no"
    /\ join' = [join EXCEPT ![w] = "insert"]
    /\ UNCHANGED << rows, box, running, job, infra, tasks, lifeFaults >>

RegisterInserts(w) ==
    /\ join[w] = "insert"
    /\ \/ LifeFine /\ RegisterRow(w) /\ join' = [join EXCEPT ![w] = "ready"]
       \/ LifeFault /\ UNCHANGED rows /\ join' = [join EXCEPT ![w] = "failed"]
    /\ UNCHANGED << box, running, job, infra, tasks >>

RegisterSetsReady(w) ==
    /\ join[w] = "ready"
    /\ \/ LifeFine /\ UpdateState(w, "Ready")
       \/ LifeFault /\ UNCHANGED rows
    /\ join' = [join EXCEPT ![w] = "in"]
    /\ UNCHANGED << box, running, job, infra, tasks >>

\* on_worker_heartbeat: a CREATING row becomes READY.  That a second statement
\* writes READY makes the same race as RegisterSetsReady, and is not split again.
Heartbeat(w) ==
    /\ box[w] = "up"
    /\ join[w] = "in"
    /\ HasRow(w)
    /\ wAge' = [wAge EXCEPT ![w] = "fresh"]
    /\ wState' = [wState EXCEPT ![w] = IF @ = "Creating" THEN "Ready" ELSE @]
    /\ UNCHANGED << wJob, wOld, box, agents, job, infra, tasks, lifeFaults >>

-----------------------------------------------------------------------------
(* The job: the execution saga that WorkerReady starts, the worker's       *)
(* result, and who is told.                                                *)

DispatchTo(w, pc) == dispatch' = [dispatch EXCEPT ![w] = pc]

\* dispatch_pending_job_to_worker and the saga's reads.
DispatchReads(w) ==
    /\ w \in Dispatched
    /\ join[w] = "in"
    /\ dispatch[w] = "wait"
    /\ \/ /\ wState[w] \in {"Ready", "Busy"} /\ wJob[w] /\ ~ ended[w]
          /\ LifeFine /\ DispatchTo(w, "assign")
       \/ /\ ~ (wState[w] \in {"Ready", "Busy"} /\ wJob[w] /\ ~ ended[w])
          /\ LifeFine /\ DispatchTo(w, "over")
       \/ LifeFault /\ DispatchTo(w, "over")
    /\ UNCHANGED << rows, box, agents, ended, result, statusEvent, notice, infra, tasks >>

\* AssignWorker writes the state, not the job.
DispatchAssigns(w) ==
    /\ dispatch[w] = "assign"
    /\ \/ LifeFine /\ UpdateState(w, "Busy") /\ DispatchTo(w, "send")
       \/ LifeFault /\ UNCHANGED rows /\ DispatchTo(w, "over")
    /\ UNCHANGED << box, agents, ended, result, statusEvent, notice, infra, tasks >>

\* The compensation of AssignWorker: a BUSY worker is READY again.
Unassign(w) == IF wState[w] = "Busy" THEN UpdateState(w, "Ready") ELSE UNCHANGED rows

\* ExecuteJob: RUN_JOB goes to the worker's stream.
DispatchSends(w) ==
    LET reachable == HasRow(w) /\ box[w] = "up" IN
    /\ dispatch[w] = "send"
    /\ \/ /\ reachable /\ LifeFine
          /\ running' = [running EXCEPT ![w] = TRUE]
          /\ UNCHANGED rows /\ DispatchTo(w, "complete")
       \/ /\ (~ reachable /\ LifeFine) \/ LifeFault
          /\ Unassign(w) /\ UNCHANGED running /\ DispatchTo(w, "over")
    /\ UNCHANGED << box, join, ended, result, statusEvent, notice, infra, tasks >>

\* CompleteJob follows at once: the job is SUCCEEDED, the worker that holds it
\* TERMINATED, nobody is told.  A job that is terminal already makes the saga
\* roll back.
DispatchCompletes(w) ==
    /\ dispatch[w] = "complete"
    /\ DispatchTo(w, "over")
    /\ \/ /\ ~ ended[w] /\ LifeFine
          /\ ended' = [ended EXCEPT ![w] = TRUE]
          /\ IF wJob[w] THEN UpdateState(w, "Terminated") ELSE UNCHANGED rows
       \/ /\ (ended[w] /\ LifeFine) \/ LifeFault
          /\ Unassign(w) /\ UNCHANGED ended
    /\ UNCHANGED << box, agents, result, statusEvent, notice, infra, tasks >>

\* JobExecutionService::assign_job names any worker: BUSY whatever the row says.
\* The job is saved after that, or not at all.
GrpcAssign(w) ==
    /\ HasRow(w)
    /\ LifeFault
    /\ AssignToJob(w)
    /\ UNCHANGED << box, agents, job, infra, tasks >>

\* on_job_result: a result for a terminal job is refused.  Otherwise the job is
\* saved and JobStatusChanged published; the coordinator looks at SUCCEEDED and
\* FAILED only, not at TIMEOUT.
OnJobResult(w) ==
    /\ box[w] = "up"
    /\ running[w]
    /\ running' = [running EXCEPT ![w] = FALSE]
    /\ \/ ended[w] /\ LifeFine /\ UNCHANGED << ended, result, statusEvent >>
       \/ /\ ~ ended[w]
          /\ ended' = [ended EXCEPT ![w] = TRUE]
          /\ result' = [result EXCEPT ![w] = "announce"]
          /\ \/ LifeFine /\ \E seen \in BOOLEAN : statusEvent' = [statusEvent EXCEPT ![w] = seen]
             \/ LifeFault /\ UNCHANGED statusEvent
    /\ UNCHANGED << rows, box, join, dispatch, notice, infra, tasks >>

\* Without an outbox the event goes to the bus; a failure is only logged.  When
\* the row cannot be read, nothing more is done.
ResultAnnounces(w) ==
    /\ result[w] = "announce"
    /\ \/ /\ HasRow(w) /\ LifeFine
          /\ notice' = [notice EXCEPT ![w] = TRUE]
          /\ result' = [result EXCEPT ![w] = "release"]
       \/ /\ ~ HasRow(w) /\ LifeFine
          /\ result' = [result EXCEPT ![w] = "none"]
          /\ UNCHANGED notice
       \/ /\ HasRow(w) /\ LifeFault
          /\ \E pc \in {"release", "none"} : result' = [result EXCEPT ![w] = pc]
          /\ UNCHANGED notice
    /\ UNCHANGED << rows, box, agents, dispatch, ended, statusEvent, infra, tasks >>

ResultReleases(w) ==
    /\ result[w] = "release"
    /\ result' = [result EXCEPT ![w] = "none"]
    /\ \/ LifeFine /\ ReleaseFromJob(w)
       \/ LifeFault /\ UNCHANGED rows
    /\ UNCHANGED << box, agents, dispatch, ended, statusEvent, notice, infra, tasks >>

\* JobCoordinator: the worker whose current_job_id is the job is announced too.
Coordinate(w) ==
    /\ statusEvent[w]
    /\ statusEvent' = [statusEvent EXCEPT ![w] = FALSE]
    /\ \/ wJob[w] /\ LifeFine /\ notice' = [notice EXCEPT ![w] = TRUE]
       \/ ~ wJob[w] /\ LifeFine /\ UNCHANGED notice
       \/ LifeFault /\ UNCHANGED notice
    /\ UNCHANGED << rows, box, agents, dispatch, ended, result, infra, tasks >>

-----------------------------------------------------------------------------
(* Clean-up: the manager's cleanup loop (gc) and its reaction to           *)
(* WorkerEphemeralTerminating (event), destroy_worker, which the sagas     *)
(* call (saga), and WorkerTerminationService (service).                    *)

CleanTo(c, w, pc) == clean' = [clean EXCEPT ![c][w] = pc]
Excuse(w, b) == excused' = [excused EXCEPT ![w] = @ \/ b]

\* A worker that was read as TERMINATED is not marked again.
StartOf(w) == IF wState[w] = "Terminated" THEN "destroy" ELSE "mark"

\* Mutated forms of DueForCleanup: a TERMINATED row is not tried again; a BUSY
\* one is left alone; a row has no lifetime.
DueUnlessTerminated(w) ==
    wState[w] = "Busy" \/ wOld[w] \/ (wState[w] = "Ready" /\ wAge[w] = "idle")
DueUnlessBusy(w) ==
    wState[w] = "Terminated" \/ wOld[w] \/ (wState[w] = "Ready" /\ wAge[w] = "idle")

DueAtAnyAge(w) ==
    wState[w] \in {"Busy", "Terminated"} \/ (wState[w] = "Ready" /\ wAge[w] = "idle")

\* The completion time is not stored, so that the TTL after completion never
\* passes; no heartbeat counts as one just now.
DueForCleanup(w) ==
    \/ wState[w] \in {"Busy", "Terminated"}
    \/ wState[w] = "Ready" /\ wAge[w] = "idle"
    \/ wOld[w]

CleanupScans(w) ==
    /\ "cleanup" \in Loops
    /\ clean["gc"][w] = "idle"
    /\ HasRow(w)
    /\ DueForCleanup(w)
    /\ CleanTo("gc", w, StartOf(w))
    /\ UNCHANGED << rows, box, agents, job, infra, excused, overdue, sweep, lifeFaults >>

\* handle_domain_event, perform_worker_cleanup: a row that is gone is done.
MonitorTakes(w) ==
    /\ notice[w]
    /\ clean["event"][w] = "idle"
    /\ notice' = [notice EXCEPT ![w] = FALSE]
    /\ \/ HasRow(w) /\ LifeFine /\ CleanTo("event", w, StartOf(w))
       \/ ~ HasRow(w) /\ LifeFine /\ UNCHANGED clean
       \/ LifeFault /\ UNCHANGED clean
    /\ UNCHANGED << rows, box, agents, dispatch, ended, result, statusEvent, infra,
                    excused, overdue, sweep >>

\* DefaultWorkerProvisioningService::destroy_worker: the row must exist.
SagaDestroys(w) ==
    /\ w \in Called
    /\ clean["saga"][w] = "idle"
    /\ HasRow(w)
    /\ CleanTo("saga", w, "destroy")
    /\ UNCHANGED << rows, box, agents, job, infra, excused, overdue, sweep, lifeFaults >>

\* terminate_ephemeral_worker: the row must exist; it is marked, the end is
\* announced, and the row deleted.  Nobody is asked to destroy the container but
\* who hears the announcement.
ServiceTerminates(w) ==
    /\ w \in Ephemeral
    /\ clean["service"][w] = "idle"
    /\ HasRow(w)
    /\ CleanTo("service", w, "mark")
    /\ UNCHANGED << rows, box, agents, job, infra, excused, overdue, sweep, lifeFaults >>

ServiceAnnounces(w) ==
    /\ clean["service"][w] = "announce"
    /\ \/ /\ LifeFine
          /\ notice' = [notice EXCEPT ![w] = TRUE]
          /\ CleanTo("service", w, "unregister")
       \/ LifeFault /\ UNCHANGED notice /\ CleanTo("service", w, "idle")
    /\ UNCHANGED << rows, box, agents, dispatch, ended, result, statusEvent, infra,
                    excused, overdue, sweep >>

\* CancelOldWorker of the recovery saga, whose TerminateOldWorker may have
\* failed; UnregisterWorkerHandler for CleanupUnhealthyWorkers, with a list that
\* may be old; cleanup_failed_worker.  The row is deleted and the container is
\* left to itself; a failure is only logged.
UnregisterOnly(w) ==
    /\ w \in Called
    /\ HasRow(w)
    /\ UnregisterRow(w)
    /\ Excuse(w, TRUE)
    /\ UNCHANGED << box, agents, job, infra, clean, overdue, sweep, lifeFaults >>

CleanMarks(c, w) ==
    /\ clean[c][w] = "mark"
    /\ \/ /\ LifeFine /\ UpdateState(w, "Terminated")
          /\ CleanTo(c, w, IF c = "service" THEN "announce" ELSE "destroy")
       \/ LifeFault /\ UNCHANGED rows /\ CleanTo(c, w, "idle")
    /\ UNCHANGED << box, agents, job, infra, excused, overdue, sweep >>

\* The container stops with everything in it.  One that is gone is no error.
ContainerGoes(w) ==
    /\ box' = [box EXCEPT ![w] = IF @ = "none" THEN @ ELSE "gone"]
    /\ running' = [running EXCEPT ![w] = FALSE]
    /\ infra' = [infra EXCEPT ![w] = IF box[w] = "up" THEN Append(@, "stopped") ELSE @]

\* Mutated form of CleanDestroys: every caller forgives the provider.
CleanDestroysAnyway(c, w) ==
    /\ clean[c][w] = "destroy"
    /\ \/ LifeFine /\ w \in Named /\ ContainerGoes(w)
       \/ /\ (LifeFine /\ w \notin Named) \/ LifeFault
          /\ UNCHANGED << box, running, infra >>
    /\ CleanTo(c, w, "unregister")
    /\ UNCHANGED << rows, join, job, overdue, sweep, excused >>

\* destroy_worker_via_provider gives up after three tries.  A handle made from
\* the worker's name reaches no container where the provider knows another id.
\* destroy_worker of the sagas only logs the refusal.
CleanDestroys(c, w) ==
    /\ clean[c][w] = "destroy"
    /\ \/ /\ LifeFine /\ w \in Named
          /\ ContainerGoes(w)
          /\ CleanTo(c, w, "unregister")
       \/ /\ (LifeFine /\ w \notin Named) \/ LifeFault
          /\ CleanTo(c, w, IF c = "saga" THEN "unregister" ELSE "idle")
          /\ UNCHANGED << box, running, infra >>
    /\ UNCHANGED << rows, join, job, excused, overdue, sweep >>

\* The cleanup loop publishes WorkerEphemeralTerminating when all is done, and
\* also when the row could not be deleted; a failure to publish is only logged.
CleanUnregisters(c, w) ==
    /\ clean[c][w] = "unregister"
    /\ \/ /\ \/ LifeFine /\ UnregisterRow(w) /\ Excuse(w, c \notin Answering)
             \/ LifeFault /\ UNCHANGED << rows, excused >>
          /\ notice' = [notice EXCEPT ![w] = @ \/ c = "gc"]
       \/ c = "gc" /\ LifeFault /\ UnregisterRow(w) /\ UNCHANGED << notice, excused >>
    /\ CleanTo(c, w, "idle")
    /\ UNCHANGED << box, agents, dispatch, ended, result, statusEvent, infra,
                    overdue, sweep >>

-----------------------------------------------------------------------------
(* Health, orphans and the provider's events.                              *)

\* find_unhealthy: a row without a heartbeat is never returned.
Unhealthy(w) == wState[w] \in {"Creating", "Ready", "Busy"} /\ wAge[w] \in {"late", "idle"}

\* run_health_check and run_reconciliation: the worker is TERMINATED whatever
\* happened since; the latter also writes events that nothing consumes.
HealthScans(w) ==
    /\ "health" \in Loops
    /\ ~ overdue[w]
    /\ Unhealthy(w)
    /\ overdue' = [overdue EXCEPT ![w] = TRUE]
    /\ UNCHANGED << rows, box, agents, job, infra, clean, excused, sweep, lifeFaults >>

HealthMarks(w) ==
    /\ overdue[w]
    /\ overdue' = [overdue EXCEPT ![w] = FALSE]
    /\ \/ LifeFine /\ UpdateState(w, "Terminated")
       \/ LifeFault /\ UNCHANGED rows
    /\ UNCHANGED << box, agents, job, infra, clean, excused, sweep >>

SweepTo(w, pc) == sweep' = [sweep EXCEPT ![w] = pc]

\* detect_orphans_for_provider: the provider's list first, then the registry's.
SweepLists(w) ==
    /\ "sweep" \in Loops
    /\ sweep[w] = "idle"
    /\ w \in Listed
    /\ HasBox(w)
    /\ SweepTo(w, "listed")
    /\ UNCHANGED << rows, box, agents, job, infra, clean, excused, overdue, lifeFaults >>

SweepCompares(w) ==
    /\ sweep[w] = "listed"
    /\ SweepTo(w, IF HasRow(w) /\ w \in Named THEN "idle" ELSE "orphan")
    /\ UNCHANGED << rows, box, agents, job, infra, clean, excused, overdue, lifeFaults >>

SweepDestroys(w) ==
    /\ sweep[w] = "orphan"
    /\ SweepTo(w, "idle")
    /\ \/ LifeFine /\ ContainerGoes(w)
       \/ LifeFault /\ UNCHANGED << box, running, infra >>
    /\ UNCHANGED << rows, join, job, clean, excused, overdue >>

\* handle_infrastructure_event: started makes CREATING READY, stopped makes
\* any other state TERMINATED; the row is found by the container's id.  (The
\* race of its read and its write is that of HealthScans and HealthMarks.)
InfraEvent(w) ==
    /\ infra[w] # << >>
    /\ infra' = [infra EXCEPT ![w] = Tail(@)]
    /\ \/ /\ LifeFine /\ w \in Named
          /\ Head(infra[w]) = "started" /\ wState[w] = "Creating"
          /\ UpdateState(w, "Ready")
       \/ LifeFine /\ w \in Named /\ Head(infra[w]) = "stopped" /\ UpdateState(w, "Terminated")
       \/ /\ w \notin Named \/ (Head(infra[w]) = "started" /\ wState[w] # "Creating")
          /\ LifeFine /\ UNCHANGED rows
       \/ LifeFault /\ UNCHANGED rows
    /\ UNCHANGED << box, agents, job, tasks >>

\* The server dies: tasks and events on their way to it are lost.
ServerRestarts ==
    /\ LifeFault
    /\ join' = [w \in Workers |-> CASE join[w] = "insert" -> "failed"
                                     [] join[w] = "ready" -> "in"
                                     [] OTHER -> join[w]]
    /\ dispatch' = [w \in Workers |-> IF dispatch[w] = "wait" THEN "wait" ELSE "over"]
    /\ result' = [w \in Workers |-> "none"]
    /\ statusEvent' = [w \in Workers |-> FALSE]
    /\ notice' = [w \in Workers |-> FALSE]
    /\ infra' = [w \in Workers |-> << >>]
    /\ clean' = [c \in Cleaners |-> [w \in Workers |-> "idle"]]
    /\ overdue' = [w \in Workers |-> FALSE]
    /\ sweep' = [w \in Workers |-> "idle"]
    /\ UNCHANGED << rows, box, running, ended, excused >>

-----------------------------------------------------------------------------
AgentStep(w) ==
    \/ ContainerExits(w) \/ RegisterArrives(w) \/ Heartbeat(w) \/ OnJobResult(w)

ServerStep(w) ==
    \/ RegisterInserts(w) \/ RegisterSetsReady(w) \/ InfraEvent(w)
    \/ DispatchReads(w) \/ DispatchAssigns(w) \/ DispatchSends(w) \/ DispatchCompletes(w)
    \/ ResultAnnounces(w) \/ ResultReleases(w) \/ Coordinate(w) \/ MonitorTakes(w)

CleanStep(c, w) ==
    \/ CleanMarks(c, w) \/ CleanDestroys(c, w) \/ CleanUnregisters(c, w)
    \/ c = "service" /\ ServiceAnnounces(w)

LoopStep(w) ==
    \/ CleanupScans(w) \/ HealthScans(w) \/ HealthMarks(w)
    \/ SweepLists(w) \/ SweepCompares(w) \/ SweepDestroys(w)

LifeNext ==
    \/ \E w \in Workers :
         \/ ProvisionWorker(w) \/ AgentStep(w) \/ ServerStep(w) \/ LoopStep(w)
         \/ SagaDestroys(w) \/ ServiceTerminates(w) \/ UnregisterOnly(w) \/ GrpcAssign(w)
         \/ HeartbeatAges(w) \/ LifetimePasses(w)
         \/ \E c \in Cleaners : CleanStep(c, w)
    \/ ServerRestarts

LifeSpec == LifeInit /\ [][LifeNext]_lifeVars

\* Tasks and loops of the manager are polled, and an unheard worker's heartbeat gets
\* older; a saga or the termination service may stop half way.
LifeFairness ==
    \A w \in Workers :
        /\ WF_lifeVars(ServerStep(w))
        /\ WF_lifeVars(CleanupScans(w))
        /\ WF_lifeVars(HealthScans(w) \/ HealthMarks(w))
        /\ WF_lifeVars(SweepLists(w) \/ SweepCompares(w) \/ SweepDestroys(w))
        /\ WF_lifeVars(HeartbeatAges(w))
        /\ \A c \in Answering : WF_lifeVars(CleanStep(c, w))

-----------------------------------------------------------------------------
(* Properties.                                                             *)

\* Types; a worker without a row has no job, and only a container that was made
\* registers.
LifeTypeOK ==
    /\ wState \in [Workers -> WRow]
    /\ wJob \in [Workers -> BOOLEAN]
    /\ wAge \in [Workers -> WAge]
    /\ wOld \in [Workers -> BOOLEAN]
    /\ box \in [Workers -> Box]
    /\ join \in [Workers -> Join]
    /\ dispatch \in [Workers -> Dispatch]
    /\ running \in [Workers -> BOOLEAN]
    /\ ended \in [Workers -> BOOLEAN]
    /\ result \in [Workers -> Result]
    /\ statusEvent \in [Workers -> BOOLEAN]
    /\ notice \in [Workers -> BOOLEAN]
    /\ infra \in [Workers -> Seq(Infra)]
    /\ clean \in [Cleaners -> [Workers -> Clean]]
    /\ excused \in [Workers -> BOOLEAN]
    /\ overdue \in [Workers -> BOOLEAN]
    /\ sweep \in [Workers -> Sweep]
    /\ lifeFaults \in Nat
    /\ \A w \in Workers : /\ HasRow(w) => box[w] # "none" /\ join[w] \in {"ready", "in"}
                          /\ wJob[w] => HasRow(w)

\* The manager's cleaners forget no container they could still destroy: a worker
\* that was registered and has no row any more has no container either, unless
\* its row was given up by somebody who does not answer for the container, that
\* is by destroy_worker, which ignores a refusal, by a step or handler that only
\* unregisters, or by WorkerTerminationService.  This holds whatever cleaners,
\* sweeps, restarts and late writes interleave.
ForgottenIsDestroyed ==
    \A w \in Workers :
        join[w] \in {"ready", "in"} /\ ~ HasRow(w) => box[w] = "gone" \/ excused[w]

Abandoned(w) ==
    /\ HasBox(w)
    /\ wState[w] = "Terminated" \/ (wState[w] = "Absent" /\ w \in Listed)

\* Where the three loops run, a container whose worker is no longer in use is
\* destroyed in the end: a TERMINATED worker's, and one without a row if its
\* provider can list it; unless a late write or registration puts the row to use
\* again.  A worker's handle must name its container.
ContainersAreReclaimed ==
    \A w \in Named :
        Abandoned(w) ~> box[w] = "gone" \/ wState[w] \in {"Creating", "Ready", "Busy"}

\* A row whose container is gone leaves the registry; one without a heartbeat
\* may stay until its lifetime has passed.
GhostRowsLeave ==
    \A w \in Named :
        HasRow(w) /\ box[w] = "gone" ~> ~ HasRow(w) \/ (wAge[w] = "null" /\ ~ wOld[w])

\* No worker stays BUSY: not one whose job was never sent, nor one that a
\* request, or a dispatch that read an older state, made BUSY after its end.
BusyEnds ==
    \A w \in Workers : wState[w] = "Busy" ~> wState[w] # "Busy"

=============================================================================
