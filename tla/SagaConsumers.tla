---------------------------- MODULE SagaConsumers ----------------------------
(***************************************************************************)
(* The JetStream consumers that start sagas (crates/server/infrastructure/ *)
(* src/messaging: execution_saga_consumer.rs, cancellation_saga_consumer.rs,*)
(* cleanup_saga_consumer.rs, worker_ephemeral_terminating_consumer.rs) and *)
(* the delivery they are configured with.                                  *)
(*                                                                         *)
(* The four share one loop: take a message, ask the circuit breaker, read  *)
(* the job or the worker, execute a saga under a new saga id, acknowledge. *)
(* A behaviour follows one of them.  What the row says when it is read,    *)
(* and what the saga does, is the matter of JobExecution, SagaOrchestrator *)
(* and SagaSteps: here a handler may skip, fail or start a saga.           *)
(*                                                                         *)
(* The client fetches ahead and the loop is sequential, so that a message  *)
(* waits in the client while ack_wait runs: it is delivered again although *)
(* its first copy is still to be handled.  Copies are taken in any order   *)
(* and in any number (JetStream's order and max_ack_pending allow fewer    *)
(* behaviours).                                                            *)
(***************************************************************************)
EXTENDS CircuitBreaker

CONSTANTS
    Messages,          \* messages of the consumer's filter_subject
    MaxDeliver,        \* max_deliver
    MaxStarts,         \* bound: starts of the server in a behaviour
    MaxConsumerFaults, \* bound: lost acknowledgements, receive errors, ...
    NoMessage

ASSUME ConsumerAssumption ==
    /\ MaxDeliver \in Nat \ {0}
    /\ MaxStarts \in Nat
    /\ MaxConsumerFaults \in Nat
    /\ NoMessage \notin Messages

Consumer == { "execution", "cancellation", "cleanup", "terminating" }
Draining == { "cancellation", "cleanup" }  \* start() is given a shutdown receiver
FreshNamed == { "terminating" }            \* a new durable name at every start

VARIABLES
    consumer,    \* which of the four
    loop,        \* Loop: the task that runs start()
    starts,      \* starts of the server so far
    published,   \* messages published so far
    stored,      \* messages in the stream
    held,        \* of them, those that an abandoned durable has not acknowledged
    durables,    \* durable consumers created so far
    deliveries,  \* [Messages -> Nat]: deliveries by the current durable
    acked,       \* messages acknowledged to the current durable
    copies,      \* [Messages -> Nat]: copies fetched and not yet taken
    current,     \* the message of the loop's iteration
    stage,       \* Stage: where that iteration is
    circuit,     \* circuit_breaker
    sagas,       \* [Messages -> Nat]: sagas started for a message
    cut,         \* messages of which a copy or an acknowledgement was lost
    mishaps      \* faults so far

nats == << published, stored, held, durables, deliveries, acked >>
history == << sagas, cut >>
consumerVars == << consumer, loop, starts, published, stored, held, durables,
                   deliveries, acked, copies, current, stage, circuit, sagas, cut,
                   mishaps >>

Loop == { "stopped", "running", "draining", "ended" }
Stage == { "next", "reading", "saga", "announce", "acking" }

NoCopies == [m \in Messages |-> 0]

ConsumerInit ==
    /\ consumer   \in Consumer
    /\ loop       = "stopped"
    /\ starts     = 0
    /\ published  = {}
    /\ stored     = {}
    /\ held       = {}
    /\ durables   = 0
    /\ deliveries = NoCopies
    /\ acked      = {}
    /\ copies     = NoCopies
    /\ current    = NoMessage
    /\ stage      = "next"
    /\ circuit    = NewBreaker
    /\ sagas      = NoCopies
    /\ cut        = {}
    /\ mishaps    = 0

\* One more of the faults a behaviour may have.
Mishap ==
    /\ mishaps < MaxConsumerFaults
    /\ mishaps' = mishaps + 1

-----------------------------------------------------------------------------
(* The stream: retention by interest, max_age, explicit acknowledgement,   *)
(* ack_wait and max_deliver.                                               *)

\* A message published without any durable is kept only for the other consumers
\* of the stream; a durable that nobody reads any more holds what comes.
PublishMessage(m) ==
    /\ m \notin published
    /\ published' = published \cup {m}
    /\ \/ stored' = stored \cup {m}
       \/ durables = 0 /\ UNCHANGED stored
    /\ held' = IF durables > 1 THEN held \cup {m} ELSE held
    /\ UNCHANGED << consumer, loop, starts, durables, deliveries, acked, copies, current,
                    stage, circuit, history, mishaps >>

\* Every durable has acknowledged the message.
DiscardMessage(m) ==
    /\ m \in stored \ held
    /\ durables = 0 \/ m \in acked
    /\ stored' = stored \ {m}
    /\ UNCHANGED << consumer, loop, starts, published, held, durables, deliveries, acked,
                    copies, current, stage, circuit, history, mishaps >>

\* max_age passes, or newer messages fill the stream.
MessageAges(m) ==
    /\ m \in stored
    /\ Mishap
    /\ stored' = stored \ {m}
    /\ held' = held \ {m}
    /\ UNCHANGED << consumer, loop, starts, published, durables, deliveries, acked, copies,
                    current, stage, circuit, history >>

\* The first delivery, or another one when ack_wait has passed: the server knows
\* of no acknowledgement, wherever the earlier copies are.
Deliver(m) ==
    /\ loop \in { "running", "draining" }
    /\ m \in stored \ acked
    /\ deliveries[m] < MaxDeliver
    /\ deliveries' = [deliveries EXCEPT ![m] = @ + 1]
    /\ copies' = [copies EXCEPT ![m] = @ + 1]
    /\ UNCHANGED << consumer, loop, starts, published, stored, held, durables, acked,
                    current, stage, circuit, history, mishaps >>

-----------------------------------------------------------------------------
(* Starting and ending.                                                    *)

\* Mutated form of CreateOrGetConsumer: the shared names get the suffix too.
CreateConsumerAlways ==
    /\ durables'   = durables + 1
    /\ deliveries' = NoCopies
    /\ acked'      = {}
    /\ held'       = held \cup (stored \ acked)

\* create_or_get_consumer_by_name: a known durable goes on where it was; under a
\* new name every message of the stream is delivered (DeliverPolicy::All).
CreateOrGetConsumer ==
    IF durables = 0 \/ consumer \in FreshNamed
      THEN /\ durables'   = durables + 1
           /\ deliveries' = NoCopies
           /\ acked'      = {}
           /\ held'       = IF durables = 0 THEN held ELSE held \cup (stored \ acked)
      ELSE UNCHANGED << durables, deliveries, acked, held >>

Start ==
    /\ loop = "stopped"
    /\ starts < MaxStarts
    /\ starts' = starts + 1
    /\ CreateOrGetConsumer
    /\ loop' = "running"
    /\ UNCHANGED << consumer, published, stored, copies, current, stage, circuit, history,
                    mishaps >>

\* The stream is not there, or a request fails: the error is logged, the task is
\* gone and the server goes on without it.
StartFails ==
    /\ loop = "stopped"
    /\ starts < MaxStarts
    /\ starts' = starts + 1
    /\ \/ CreateOrGetConsumer
       \/ UNCHANGED << durables, deliveries, acked, held >>
    /\ loop' = "ended"
    /\ Mishap
    /\ UNCHANGED << consumer, published, stored, copies, current, stage, circuit, history >>

\* The messages that are in the client or in hand.
InHand == { m \in Messages : copies[m] > 0 \/ current = m }

\* What the client has fetched is gone.
Forget ==
    /\ copies'  = NoCopies
    /\ current' = NoMessage
    /\ stage'   = "next"
    /\ cut'     = cut \cup InHand

\* The server process ends, by a crash or by a shutdown, and will start again.
ServerEnds ==
    /\ loop # "stopped"
    /\ starts < MaxStarts
    /\ Forget
    /\ loop' = "stopped"
    /\ circuit' = NewBreaker
    /\ UNCHANGED << consumer, starts, nats, sagas, mishaps >>

\* try_recv finds the shutdown signal, or its sender gone.
ShutdownNoticed ==
    /\ loop = "running"
    /\ consumer \in Draining
    /\ current = NoMessage
    /\ starts < MaxStarts
    /\ loop' = "draining"
    /\ UNCHANGED << consumer, starts, nats, copies, current, stage, circuit, history,
                    mishaps >>

\* The message stream is over, the drain deadline has passed, or receiving fails
\* while draining: the loop is left.
LoopEnds ==
    /\ loop \in { "running", "draining" }
    /\ current = NoMessage
    /\ Mishap
    /\ Forget
    /\ loop' = "ended"
    /\ UNCHANGED << consumer, starts, nats, circuit, sagas >>

\* messages.next() returns an error: recorded, and the loop goes on.
ReceiveError ==
    /\ loop = "running"
    /\ current = NoMessage
    /\ Mishap
    /\ circuit' = RecordFailure(circuit)
    /\ UNCHANGED << consumer, loop, starts, nats, copies, current, stage, history >>

-----------------------------------------------------------------------------
(* One iteration.                                                          *)

Take(m) ==
    /\ loop \in { "running", "draining" }
    /\ current = NoMessage
    /\ copies[m] > 0
    /\ copies'  = [copies EXCEPT ![m] = @ - 1]
    /\ current' = m
    /\ UNCHANGED << consumer, loop, starts, nats, history, mishaps >>

\* allow_request lets the message through, as does execute right after it.
TakeToHandle(m) ==
    /\ loop = "running"
    /\ AllowRequest(circuit)
    /\ Take(m)
    /\ circuit' = Observed(circuit)
    /\ stage' = "reading"

\* "Circuit breaker open, skipping message": a failure is recorded and the message
\* is acknowledged all the same.
TakeToSkip(m) ==
    /\ loop = "running"
    /\ ~ AllowRequest(circuit)
    /\ Take(m)
    /\ circuit' = RecordFailure(circuit)
    /\ stage' = "acking"

\* While draining, messages are acknowledged and not handled.
TakeToDrain(m) ==
    /\ loop = "draining"
    /\ Take(m)
    /\ stage' = "acking"
    /\ UNCHANGED circuit

\* Mutated form of Handled: an error leaves the message for its redelivery.
HandledOrLeft(ok) ==
    /\ circuit' = IF ok THEN RecordSuccess(RecordSuccess(circuit))
                        ELSE RecordFailure(RecordFailure(circuit))
    /\ stage' = IF ok THEN "acking" ELSE "next"
    /\ current' = IF ok THEN current ELSE NoMessage
    /\ UNCHANGED << consumer, loop, starts, nats, copies, cut, mishaps >>

\* execute() returns and records the result, then the loop records it again.
Handled(ok) ==
    /\ circuit' = IF ok THEN RecordSuccess(RecordSuccess(circuit))
                        ELSE RecordFailure(RecordFailure(circuit))
    /\ stage' = "acking"
    /\ UNCHANGED << consumer, loop, starts, nats, copies, current, cut, mishaps >>

\* The event is of another type, or the job or worker needs no saga.
HandlerSkips ==
    /\ stage = "reading"
    /\ Handled(TRUE)
    /\ UNCHANGED sagas

\* The message does not parse, a query fails, no worker is available.
HandlerFails ==
    /\ stage = "reading"
    /\ Handled(FALSE)
    /\ UNCHANGED sagas

\* execute_saga with a new saga id.
TriggerSaga ==
    /\ stage = "reading"
    /\ sagas' = [sagas EXCEPT ![current] = @ + 1]
    /\ stage' = "saga"
    /\ UNCHANGED << consumer, loop, starts, nats, copies, current, circuit, cut, mishaps >>

\* execute_saga returns the result of a saga, completed or not, or an error.  The
\* consumer of terminating workers announces the end after either result.
SagaReturns(result) ==
    /\ stage = "saga"
    /\ IF consumer = "terminating" /\ result # "error"
         THEN /\ stage' = "announce"
              /\ UNCHANGED << consumer, loop, starts, nats, copies, current, circuit, cut,
                              mishaps >>
         ELSE Handled(result = "completed")
    /\ UNCHANGED sagas

\* publish_termination_event inserts a row of the event outbox, or fails.
PublishTerminationEvent(ok) ==
    /\ stage = "announce"
    /\ Handled(ok)
    /\ UNCHANGED sagas

\* call_timeout passes and the handler is dropped where it is; a saga it was
\* executing stays in its tables as it is.
CallTimesOut ==
    /\ stage \in { "reading", "saga", "announce" }
    /\ Handled(FALSE)
    /\ UNCHANGED sagas

Ack ==
    /\ stage = "acking"
    /\ acked'   = acked \cup {current}
    /\ current' = NoMessage
    /\ stage'   = "next"
    /\ UNCHANGED << consumer, loop, starts, published, stored, held, durables, deliveries,
                    copies, circuit, history, mishaps >>

\* The acknowledgement is lost; the error, if there is one, is logged.
AckFails ==
    /\ stage = "acking"
    /\ Mishap
    /\ current' = NoMessage
    /\ stage'   = "next"
    /\ cut'     = cut \cup {current}
    /\ UNCHANGED << consumer, loop, starts, nats, copies, circuit, sagas >>

CircuitMayClose ==
    /\ circuit.state = "Open"
    /\ ~ circuit.elapsed
    /\ circuit' = [circuit EXCEPT !.elapsed = TRUE]
    /\ UNCHANGED << consumer, loop, starts, nats, copies, current, stage, history, mishaps >>

-----------------------------------------------------------------------------
TakeMessage(m) == TakeToHandle(m) \/ TakeToSkip(m) \/ TakeToDrain(m)

\* The handler of the current message goes on, or is dropped by its time limit.
HandlerStep ==
    \/ HandlerSkips \/ HandlerFails \/ TriggerSaga
    \/ \E result \in { "completed", "failed", "error" } : SagaReturns(result)
    \/ \E ok \in BOOLEAN : PublishTerminationEvent(ok)
    \/ CallTimesOut
    \/ Ack \/ AckFails

ConsumerNext ==
    \/ Start \/ StartFails \/ ServerEnds \/ ShutdownNoticed \/ LoopEnds \/ ReceiveError
    \/ HandlerStep
    \/ CircuitMayClose
    \/ \E m \in Messages :
         PublishMessage(m) \/ DiscardMessage(m) \/ MessageAges(m) \/ Deliver(m) \/ TakeMessage(m)

ConsumerSpec == ConsumerInit /\ [][ConsumerNext]_consumerVars

\* The server is started, JetStream delivers and the loop goes on; a handler ends,
\* at the latest after call_timeout.  A server that was told to stop stops.
ConsumerFairSpec ==
    /\ ConsumerSpec
    /\ WF_consumerVars(Start)
    /\ WF_consumerVars(loop = "draining" /\ ServerEnds)
    /\ WF_consumerVars(HandlerStep)
    /\ WF_consumerVars(\E m \in Messages : TakeMessage(m))
    /\ \A m \in Messages : WF_consumerVars(Deliver(m))

-----------------------------------------------------------------------------
(* Properties.                                                             *)

\* The consumer's variables keep to the values its loop gives them, and a message
\* is in hand exactly while an iteration runs.
ConsumerTypeOK ==
    /\ consumer \in Consumer
    /\ loop \in Loop
    /\ starts \in 0..MaxStarts
    /\ published \subseteq Messages
    /\ stored \subseteq Messages
    /\ held \subseteq Messages
    /\ durables \in 0..MaxStarts
    /\ deliveries \in [Messages -> 0..MaxDeliver]
    /\ acked \subseteq Messages
    /\ copies \in [Messages -> 0..MaxDeliver]
    /\ current \in Messages \cup {NoMessage}
    /\ stage \in Stage
    /\ current = NoMessage <=> stage = "next"
    /\ circuit \in Breaker
    /\ sagas \in [Messages -> Nat]
    /\ cut \subseteq Messages
    /\ mishaps \in 0..MaxConsumerFaults

\* The durables a consumer may create: one, or one for each start.
DurableBudget == IF consumer \in FreshNamed THEN starts ELSE 1

\* A message starts at most max_deliver sagas, each under a new id that no resume
\* logic recognises, whatever is redelivered while a copy waits, lost or restarted;
\* only the consumer with a new durable name at each start may start them again
\* after every restart.
SagasAreBounded == \A m \in Messages : sagas[m] <= MaxDeliver * DurableBudget

\* A message is acknowledged for good, has left the stream, or has used up its
\* deliveries, of which a copy or an acknowledgement was lost.
MessageSettled(m) ==
    \/ m \in acked
    \/ m \notin stored
    \/ m \in cut /\ deliveries[m] = MaxDeliver

\* A consumer whose loop goes on acknowledges every message, also the ones its
\* handler fails or times out on and the ones an open circuit rejects: without a
\* fault none is delivered until max_deliver and then forgotten.
MessagesAreSettled ==
    <>[](loop = "running") => \A m \in Messages : m \in stored ~> MessageSettled(m)
=============================================================================
