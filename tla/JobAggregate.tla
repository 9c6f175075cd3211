---------------------------- MODULE JobAggregate ----------------------------
(***************************************************************************)
(* The Job aggregate of crates/server/domain/src/jobs/aggregate.rs.        *)
(*                                                                         *)
(* A job is a record of the fields the rest of the system decides on:      *)
(*   state     JobState                                                    *)
(*   attempts  how often the job was failed, timed out or retried          *)
(*   ctx       an ExecutionContext (and a selected provider) is attached   *)
(*   done      completed_at is set                                         *)
(*                                                                         *)
(* A method of the aggregate that returns Result<()> is an operator from a *)
(* job to the SET of jobs it may leave behind: a singleton for Ok(()), the *)
(* empty set for Err(_), which leaves the caller's copy unused.            *)
(***************************************************************************)
EXTENDS Naturals, JobStates

CONSTANT MaxAttempts      \* Job::max_attempts, 3 for every job the server creates

ASSUME MaxAttemptsAssumption == MaxAttempts \in Nat \ {0}

Job == [ state : JobState, attempts : Nat, ctx : BOOLEAN, done : BOOLEAN ]

\* Job::new
NewJob == [ state |-> "Pending", attempts |-> 0, ctx |-> FALSE, done |-> FALSE ]

\* Mutated form of SetState: the transition is not checked.
SetStateUnchecked(job, s) == { [job EXCEPT !.state = s] }

\* Job::set_state, and the check every other transition starts with.
SetState(job, s) ==
    { [job EXCEPT !.state = t] : t \in {u \in {s} : CanTransition(job.state, u)} }

\* Job::submit_to_provider
SubmitToProvider(job) ==
    { [j EXCEPT !.ctx = TRUE] : j \in SetState(job, "Scheduled") }

\* Job::assign_to_provider: a job the queue already claimed stays Assigned.
AssignToProvider(job) ==
    IF job.state \in {"Pending", "Assigned"}
    THEN { [job EXCEPT !.state = "Assigned", !.ctx = TRUE] }
    ELSE {}

\* Job::mark_running
MarkRunning(job) == SetState(job, "Running")

\* Job::complete: the state the JobResult stands for.
Complete(job, s) == { [j EXCEPT !.done = TRUE] : j \in SetState(job, s) }

\* Job::fail
Fail(job) ==
    { [j EXCEPT !.done = TRUE, !.attempts = @ + 1] : j \in SetState(job, "Failed") }

\* Job::cancel
Cancel(job) == { [j EXCEPT !.done = TRUE] : j \in SetState(job, "Cancelled") }

\* Job::timeout
TimeOut(job) ==
    { [j EXCEPT !.done = TRUE, !.attempts = @ + 1] : j \in SetState(job, "Timeout") }

\* Mutated form of CanRetry: off by one.
CanRetryInclusive(job) == job.attempts <= MaxAttempts /\ job.state \in {"Failed", "Timeout"}

\* Job::can_retry, for jobs whose preferences allow retries (the default).
CanRetry(job) == job.attempts < MaxAttempts /\ job.state \in {"Failed", "Timeout"}

\* Job::prepare_retry
PrepareRetry(job) ==
    IF CanRetry(job) THEN { [NewJob EXCEPT !.attempts = job.attempts + 1] } ELSE {}

=============================================================================
