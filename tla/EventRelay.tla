------------------------------ MODULE EventRelay ------------------------------
(***************************************************************************)
(* The event outbox and the NatsOutboxRelay that empties it (crates/server/*)
(* infrastructure/src/messaging/nats_outbox_relay.rs and persistence/      *)
(* outbox/postgres.rs).                                                    *)
(*                                                                         *)
(* Every server process runs one relay.  A relay fetches the oldest        *)
(* pending rows, processes them concurrently (FuturesUnordered), each with *)
(* retries, waits for all of them, and fetches again.  The relay's own     *)
(* circuit breaker guards the publish calls.  A row is named by its event; *)
(* the rows' locks end with the SELECT that took them, which runs in its   *)
(* own transaction.                                                        *)
(***************************************************************************)
EXTENDS CircuitBreaker

CONSTANTS
    Events,      \* events, by idempotency_key
    Poison,      \* those whose payload is no DomainEvent
    Relays,      \* NatsOutboxRelay instances
    BatchSize,   \* batch_size
    MaxRetries,  \* max_retries
    MaxCrashes   \* bound: crashes of relays in a behaviour

ASSUME RelayAssumption ==
    /\ Poison \subseteq Events
    /\ BatchSize \in Nat \ {0}
    /\ MaxRetries \in Nat \ {0}
    /\ MaxCrashes \in Nat

VARIABLES
    status,    \* [Events -> RowStatus]: outbox_events.status
    created,   \* [Events -> Nat]: created_at, as the row's number
    inserted,  \* number of rows so far
    stream,    \* events stored in JetStream
    dlq,       \* events stored in the dead letter stream
    task,      \* [Relays -> [Events -> TaskState]]: the relay's current batch
    attempts,  \* [Relays -> [Events -> Nat]]: retry_count of the task
    breaker,   \* [Relays -> Breaker]
    crashes    \* number of crashes so far

table == << status, created, inserted >>
broker == << stream, dlq >>
vars == << status, created, inserted, stream, dlq, task, attempts, breaker, crashes >>

RowStatus == { "ABSENT", "PENDING", "PUBLISHED" }
TaskState == { "none", "ready", "calling", "mark", "dlq" }

Init ==
    /\ status   = [e \in Events |-> "ABSENT"]
    /\ created  = [e \in Events |-> 0]
    /\ inserted = 0
    /\ stream   = {}
    /\ dlq      = {}
    /\ task     = [r \in Relays |-> [e \in Events |-> "none"]]
    /\ attempts = [r \in Relays |-> [e \in Events |-> 0]]
    /\ breaker  = [r \in Relays |-> NewBreaker]
    /\ crashes  = 0

-----------------------------------------------------------------------------
(* The table.                                                              *)

\* insert_events: ON CONFLICT (idempotency_key) DO NOTHING.
InsertEvent(e) ==
    /\ status[e] = "ABSENT"
    /\ status'   = [status EXCEPT ![e] = "PENDING"]
    /\ created'  = [created EXCEPT ![e] = inserted + 1]
    /\ inserted' = inserted + 1
    /\ UNCHANGED << broker, task, attempts, breaker, crashes >>

Pending == { e \in Events : status[e] = "PENDING" }

\* get_pending_events: the first BatchSize rows by created_at.  Nothing the relay
\* does changes retry_count, so its condition always holds.
PendingEvents ==
    { e \in Pending : Cardinality({ f \in Pending : created[f] < created[e] }) < BatchSize }

-----------------------------------------------------------------------------
(* One relay.                                                              *)

Idle(r) == \A e \in Events : task[r][e] = "none"

SetTask(r, e, t) == task' = [task EXCEPT ![r][e] = t]

\* The loop of run(): the last batch is done, the next one is fetched.
FetchBatch(r) ==
    /\ Idle(r)
    /\ PendingEvents # {}
    /\ task' = [task EXCEPT ![r] =
                 [e \in Events |-> IF e \in PendingEvents THEN "ready" ELSE "none"]]
    /\ UNCHANGED << table, broker, attempts, breaker, crashes >>

\* Mutated form of AttemptFailed: one attempt too many.
AttemptFailedLate(r, e) ==
    /\ attempts' = [attempts EXCEPT ![r][e] = @ + 1]
    /\ SetTask(r, e, IF attempts[r][e] + 1 > MaxRetries THEN "dlq" ELSE "ready")

\* process_event_with_retry after a failed attempt: back off, or give up.
AttemptFailed(r, e) ==
    /\ attempts' = [attempts EXCEPT ![r][e] = @ + 1]
    /\ SetTask(r, e, IF attempts[r][e] + 1 >= MaxRetries THEN "dlq" ELSE "ready")

TaskEnds(r, e) ==
    /\ attempts' = [attempts EXCEPT ![r][e] = 0]
    /\ SetTask(r, e, "none")

\* outbox_event_to_domain_event fails, before the breaker is asked.
ConvertFails(r, e) ==
    /\ task[r][e] = "ready"
    /\ e \in Poison
    /\ AttemptFailed(r, e)
    /\ UNCHANGED << table, broker, breaker, crashes >>

\* execute() lets the call through and publish starts.
StartCall(r, e) ==
    /\ task[r][e] = "ready"
    /\ e \notin Poison
    /\ AllowRequest(breaker[r])
    /\ breaker' = [breaker EXCEPT ![r] = Observed(@)]
    /\ SetTask(r, e, "calling")
    /\ UNCHANGED << table, broker, attempts, crashes >>

\* execute() returns Open, which process_event records as a failure.
RejectCall(r, e) ==
    /\ task[r][e] = "ready"
    /\ e \notin Poison
    /\ ~ AllowRequest(breaker[r])
    /\ breaker' = [breaker EXCEPT ![r] = RecordFailure(@)]
    /\ AttemptFailed(r, e)
    /\ UNCHANGED << table, broker, crashes >>

\* publish() is acknowledged.  execute() records the success, and process_event
\* records it again.
CallSucceeds(r, e) ==
    /\ task[r][e] = "calling"
    /\ stream' = stream \cup {e}
    /\ breaker' = [breaker EXCEPT ![r] = RecordSuccess(RecordSuccess(@))]
    /\ SetTask(r, e, "mark")
    /\ UNCHANGED << table, dlq, attempts, crashes >>

\* Mutated form of CallFails: the result is recorded and then ignored.
CallFailureIgnored(r, e) ==
    /\ task[r][e] = "calling"
    /\ stream' \in { stream, stream \cup {e} }
    /\ breaker' = [breaker EXCEPT ![r] = RecordFailure(RecordFailure(@))]
    /\ SetTask(r, e, "mark")
    /\ UNCHANGED << table, dlq, attempts, crashes >>

\* publish() fails or times out, before or after the message was stored; recorded
\* twice as well.
CallFails(r, e) ==
    /\ task[r][e] = "calling"
    /\ stream' \in { stream, stream \cup {e} }
    /\ breaker' = [breaker EXCEPT ![r] = RecordFailure(RecordFailure(@))]
    /\ AttemptFailed(r, e)
    /\ UNCHANGED << table, dlq, crashes >>

MarkPublished(r, e) ==
    /\ task[r][e] = "mark"
    /\ status' = [status EXCEPT ![e] = "PUBLISHED"]
    /\ TaskEnds(r, e)
    /\ UNCHANGED << created, inserted, broker, breaker, crashes >>

\* The UPDATE fails: the whole attempt is made again, the publish included.
MarkFails(r, e) ==
    /\ task[r][e] = "mark"
    /\ AttemptFailed(r, e)
    /\ UNCHANGED << table, broker, breaker, crashes >>

\* send_to_dlq, which may fail too; the outbox row is left as it is.
SendToDlq(r, e) ==
    /\ task[r][e] = "dlq"
    /\ dlq' \in { dlq, dlq \cup {e} }
    /\ TaskEnds(r, e)
    /\ UNCHANGED << table, stream, breaker, crashes >>

\* open_duration passes.
OpenDurationPasses(r) ==
    /\ breaker[r].state = "Open"
    /\ ~ breaker[r].elapsed
    /\ breaker' = [breaker EXCEPT ![r].elapsed = TRUE]
    /\ UNCHANGED << table, broker, task, attempts, crashes >>

\* The relay's process dies and is started again.
Crash(r) ==
    /\ crashes < MaxCrashes
    /\ crashes'  = crashes + 1
    /\ task'     = [task EXCEPT ![r] = [e \in Events |-> "none"]]
    /\ attempts' = [attempts EXCEPT ![r] = [e \in Events |-> 0]]
    /\ breaker'  = [breaker EXCEPT ![r] = NewBreaker]
    /\ UNCHANGED << table, broker >>

-----------------------------------------------------------------------------
\* A step of process_event_with_retry for one event.
TaskStep(r, e) ==
    \/ ConvertFails(r, e)
    \/ StartCall(r, e) \/ RejectCall(r, e) \/ CallSucceeds(r, e) \/ CallFails(r, e)
    \/ MarkPublished(r, e) \/ MarkFails(r, e)
    \/ SendToDlq(r, e)

Next ==
    \/ \E e \in Events : InsertEvent(e)
    \/ \E r \in Relays : FetchBatch(r) \/ OpenDurationPasses(r) \/ Crash(r)
    \/ \E r \in Relays, e \in Events : TaskStep(r, e)

Spec == Init /\ [][Next]_vars

\* Relays go on, and time passes; an event that is published again and again, and
\* a row that is updated again and again, is in the end accepted.
FairSpec ==
    /\ Spec
    /\ \A r \in Relays :
         /\ WF_vars(FetchBatch(r))
         /\ WF_vars(OpenDurationPasses(r))
         /\ \A e \in Events :
              /\ WF_vars(TaskStep(r, e))
              /\ SF_vars(CallSucceeds(r, e))
              /\ SF_vars(MarkPublished(r, e))

-----------------------------------------------------------------------------
(* Properties.                                                             *)

TypeOK ==
    /\ status \in [Events -> RowStatus]
    /\ created \in [Events -> Nat]
    /\ inserted \in Nat
    /\ stream \subseteq Events
    /\ dlq \subseteq Events
    /\ task \in [Relays -> [Events -> TaskState]]
    /\ attempts \in [Relays -> [Events -> 0..MaxRetries]]
    /\ breaker \in [Relays -> Breaker]
    /\ crashes \in 0..MaxCrashes

\* The outbox loses nothing: a row is PUBLISHED only when JetStream has stored
\* its event, whatever call timed out, was rejected or retried, and whichever
\* relay crashed in between.
PublishedIsStored == \A e \in Events : status[e] = "PUBLISHED" => e \in stream

\* Every relay's breaker acts at its thresholds (see CircuitBreaker), although
\* results are recorded twice and calls are in flight when the state changes.
BreakersAct == \A r \in Relays : ThresholdsAct(breaker[r])

\* Every event that can be converted is published in the end, also after its
\* retries were exhausted or its calls rejected while the circuit was open.
\* Holds while fewer than BatchSize rows are poisonous.
EventsArePublished ==
    \A e \in Events \ Poison : status[e] = "PENDING" ~> status[e] = "PUBLISHED"
=============================================================================
