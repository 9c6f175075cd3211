-------------------------- MODULE Messaging_proofs --------------------------
(***************************************************************************)
(* Proofs about the circuit breaker and its two users: EventRelay, for any *)
(* events, relays, batch size and retry limit, and SagaConsumers, for any  *)
(* messages, max_deliver and any number of restarts and faults.  All are   *)
(* for any breaker thresholds.                                             *)
(***************************************************************************)
EXTENDS EventRelay, SagaConsumers, TLAPS

-----------------------------------------------------------------------------
(* What the methods of the circuit breaker keep.                           *)

\* state() keeps a breaker's type, and a threshold that was not reached before
\* it is not reached after it.
LEMMA ObservedKeeps ==
    ASSUME NEW b \in Breaker, ThresholdsAct(b)
    PROVE  /\ Observed(b) \in Breaker
           /\ ThresholdsAct(Observed(b))
<1> DEFINE h == [b EXCEPT !.state = "HalfOpen", !.successes = 0, !.elapsed = FALSE]
<1>1. h \in Breaker /\ h.state = "HalfOpen" /\ h.successes = 0
  <2>1. [b EXCEPT !.state = "HalfOpen"] \in Breaker
    BY DEF Breaker, CircuitState
  <2>2. \A c \in Breaker : [c EXCEPT !.successes = 0] \in Breaker
    BY BreakerAssumption DEF Breaker
  <2>3. \A c \in Breaker : [c EXCEPT !.elapsed = FALSE] \in Breaker
    BY DEF Breaker
  <2>4. h.state = "HalfOpen" /\ h.successes = 0
    BY DEF Breaker
  <2> QED
    BY <2>1, <2>2, <2>3, <2>4
<1>2. Observed(b) = h \/ Observed(b) = b
  BY DEF Observed
<1> HIDE DEF h
<1>3. ThresholdsAct(h)
  BY <1>1, BreakerAssumption DEF ThresholdsAct
<1> QED
  BY <1>1, <1>2, <1>3

\* Writing a result into the ring changes nothing else.
LEMMA RecordedKeeps ==
    ASSUME NEW b \in Breaker, NEW ok \in BOOLEAN
    PROVE  /\ Recorded(b, ok) \in Breaker
           /\ Recorded(b, ok).state = b.state
           /\ Recorded(b, ok).failures = b.failures
           /\ Recorded(b, ok).successes = b.successes
<1> DEFINE new == [i \in 1..Window |-> IF i = 1 THEN ok ELSE b.recent[i - 1]]
<1>1. new \in [1..Window -> BOOLEAN]
  BY BreakerAssumption DEF Breaker
<1> HIDE DEF new
<1>2. Recorded(b, ok) = [b EXCEPT !.recent = new]
  BY DEF Recorded, new
<1> QED
  BY <1>1, <1>2 DEF Breaker

\* record_success closes the circuit at success_threshold, no later.
LEMMA RecordSuccessKeeps ==
    ASSUME NEW b \in Breaker, ThresholdsAct(b)
    PROVE  /\ RecordSuccess(b) \in Breaker
           /\ ThresholdsAct(RecordSuccess(b))
<1> DEFINE c == Recorded(b, TRUE)
<1>1. c \in Breaker /\ c.state = b.state /\ c.failures = b.failures /\ c.successes = b.successes
  BY RecordedKeeps
<1>2. RecordSuccess(b) =
        CASE c.state = "HalfOpen" /\ c.successes + 1 >= SuccessThreshold ->
                [c EXCEPT !.state = "Closed", !.failures = 0, !.successes = SuccessThreshold]
          [] c.state = "HalfOpen" /\ c.successes + 1 < SuccessThreshold ->
                [c EXCEPT !.successes = @ + 1]
          [] c.state = "Closed" -> [c EXCEPT !.failures = 0]
          [] c.state = "Open"   -> c
  BY DEF RecordSuccess
<1> HIDE DEF c
<1>3. CASE c.state = "HalfOpen" /\ c.successes + 1 >= SuccessThreshold
  <2> DEFINE n == [c EXCEPT !.state = "Closed", !.failures = 0, !.successes = SuccessThreshold]
  <2>1. n \in Breaker /\ n.state = "Closed" /\ n.failures = 0
    <3>1. [c EXCEPT !.state = "Closed"] \in Breaker
      BY <1>1 DEF Breaker, CircuitState
    <3>2. \A x \in Breaker : [x EXCEPT !.failures = 0] \in Breaker
      BY BreakerAssumption DEF Breaker
    <3>3. \A x \in Breaker : [x EXCEPT !.successes = SuccessThreshold] \in Breaker
      <4>1. SuccessThreshold \in 0..SuccessThreshold
        BY BreakerAssumption
      <4> QED
        BY <4>1 DEF Breaker
    <3>4. n.state = "Closed" /\ n.failures = 0
      BY <1>1 DEF Breaker
    <3> QED
      BY <3>1, <3>2, <3>3, <3>4
  <2>2. ~ (c.successes + 1 < SuccessThreshold) /\ c.state # "Closed" /\ c.state # "Open"
    BY <1>1, <1>3, BreakerAssumption DEF Breaker
  <2>3. RecordSuccess(b) = n
    BY <1>2, <1>3, <2>2, Zenon
  <2> HIDE DEF n
  <2> QED
    BY <2>1, <2>3, BreakerAssumption DEF ThresholdsAct
<1>4. CASE c.state = "HalfOpen" /\ ~ (c.successes + 1 >= SuccessThreshold)
  <2> DEFINE n == [c EXCEPT !.successes = @ + 1]
  <2>1. c.successes + 1 < SuccessThreshold /\ c.successes + 1 \in 0..SuccessThreshold
    BY <1>1, <1>4, BreakerAssumption DEF Breaker
  <2>2. n \in Breaker /\ n.state = "HalfOpen" /\ n.successes = c.successes + 1
    BY <1>1, <1>4, <2>1 DEF Breaker
  <2>3. RecordSuccess(b) = n
    BY <1>2, <1>4, <2>1
  <2> HIDE DEF n
  <2> QED
    BY <2>1, <2>2, <2>3 DEF ThresholdsAct
<1>5. CASE c.state = "Closed"
  BY <1>1, <1>2, <1>5, BreakerAssumption DEF Breaker, CircuitState, ThresholdsAct
<1>6. CASE c.state = "Open"
  BY <1>1, <1>2, <1>6, BreakerAssumption DEF Breaker, CircuitState, ThresholdsAct
<1> QED
  BY <1>1, <1>3, <1>4, <1>5, <1>6 DEF Breaker, CircuitState

\* record_failure opens a closed circuit at failure_threshold, no later.
LEMMA RecordFailureKeeps ==
    ASSUME NEW b \in Breaker, ThresholdsAct(b)
    PROVE  /\ RecordFailure(b) \in Breaker
           /\ ThresholdsAct(RecordFailure(b))
<1> DEFINE d == Recorded(b, FALSE)
           c == [d EXCEPT !.failures = Incremented(@)]
           trip == c.failures >= FailureThreshold \/ FailureRateReached(c)
<1>1. d \in Breaker /\ d.state = b.state
  BY RecordedKeeps
<1>2. RecordFailure(b) =
        CASE c.state = "Closed" /\ trip -> OpenCircuit(c)
          [] c.state = "Closed" /\ ~ trip -> c
          [] c.state = "HalfOpen" -> OpenCircuit(c)
          [] c.state = "Open"     -> c
  BY DEF RecordFailure
<1> HIDE DEF d
<1>3. Incremented(d.failures) \in 0..FailureThreshold
  BY <1>1, BreakerAssumption DEF Incremented, Breaker
<1>4. c \in Breaker /\ c.state = b.state /\ c.successes = d.successes
  BY <1>1, <1>3 DEF Breaker
<1>5. c.successes = b.successes
  BY <1>4, RecordedKeeps DEF d
<1>6. ~ trip => ~ (c.failures >= FailureThreshold)
  OBVIOUS
<1> HIDE DEF c, trip
<1>7. OpenCircuit(c) \in Breaker /\ ThresholdsAct(OpenCircuit(c))
  BY <1>4 DEF OpenCircuit, Breaker, CircuitState, ThresholdsAct
<1>8. CASE c.state = "Closed" /\ trip
  BY <1>2, <1>7, <1>8
<1>9. CASE c.state = "Closed" /\ ~ trip
  <2>1. RecordFailure(b) = c
    BY <1>2, <1>9
  <2>2. c.failures < FailureThreshold
    BY <1>4, <1>6, <1>9, BreakerAssumption DEF Breaker
  <2> QED
    BY <1>4, <1>9, <2>1, <2>2 DEF ThresholdsAct
<1>10. CASE c.state = "HalfOpen"
  BY <1>2, <1>7, <1>10
<1>11. CASE c.state = "Open"
  BY <1>2, <1>4, <1>11 DEF ThresholdsAct
<1> QED
  BY <1>4, <1>8, <1>9, <1>10, <1>11 DEF Breaker, CircuitState

\* A new breaker is closed and has seen no failure.
LEMMA NewBreakerOK == NewBreaker \in Breaker /\ ThresholdsAct(NewBreaker)
BY BreakerAssumption DEF NewBreaker, Breaker, CircuitState, ThresholdsAct

\* Time passes for an open circuit.
LEMMA ElapsedKeeps ==
    ASSUME NEW b \in Breaker, b.state = "Open"
    PROVE  /\ [b EXCEPT !.elapsed = TRUE] \in Breaker
           /\ ThresholdsAct([b EXCEPT !.elapsed = TRUE])
BY DEF Breaker, ThresholdsAct

-----------------------------------------------------------------------------
(* The event relay: the inductive invariant.                               *)

\* A task that is about to mark its row has seen the acknowledgement.
MarkIsStored == \A r \in Relays, e \in Events : task[r][e] = "mark" => e \in stream

\* A task that may still be attempted has an attempt left.
AttemptsLeft ==
    \A r \in Relays, e \in Events : task[r][e] # "dlq" => attempts[r][e] < MaxRetries

IInv ==
    /\ TypeOK
    /\ BreakersAct
    /\ MarkIsStored
    /\ PublishedIsStored
    /\ AttemptsLeft

LEMMA InitIInv == Init => IInv
<1> SUFFICES ASSUME Init PROVE IInv
  OBVIOUS
<1>1. TypeOK
  BY NewBreakerOK, RelayAssumption DEF Init, TypeOK, RowStatus, TaskState
<1>2. BreakersAct
  BY NewBreakerOK DEF Init, BreakersAct
<1>3. MarkIsStored /\ PublishedIsStored /\ AttemptsLeft
  BY RelayAssumption DEF Init, MarkIsStored, PublishedIsStored, AttemptsLeft
<1> QED
  BY <1>1, <1>2, <1>3 DEF IInv

\* A failed attempt keeps the relay's tasks typed, and leaves an attempt or none.
LEMMA AttemptFailedKeeps ==
    ASSUME TypeOK, AttemptsLeft, MarkIsStored, NEW r \in Relays, NEW e \in Events,
           task[r][e] # "dlq", AttemptFailed(r, e), stream \subseteq stream'
    PROVE  /\ task' \in [Relays -> [Events -> TaskState]]
           /\ attempts' \in [Relays -> [Events -> 0..MaxRetries]]
           /\ AttemptsLeft'
           /\ MarkIsStored'
<1>1. attempts[r][e] \in 0..MaxRetries /\ attempts[r][e] < MaxRetries
  BY DEF TypeOK, AttemptsLeft
<1>2. attempts[r][e] + 1 \in 0..MaxRetries
  BY <1>1, RelayAssumption
<1>3. attempts' \in [Relays -> [Events -> 0..MaxRetries]]
  BY <1>2 DEF AttemptFailed, TypeOK
<1> DEFINE t == IF attempts[r][e] + 1 >= MaxRetries THEN "dlq" ELSE "ready"
<1>4. t \in TaskState /\ t # "mark" /\ (t # "dlq" => attempts[r][e] + 1 < MaxRetries)
  BY <1>1, RelayAssumption DEF TaskState
<1>5. task' = [task EXCEPT ![r][e] = t]
  BY DEF AttemptFailed, SetTask
<1> HIDE DEF t
<1>6. task' \in [Relays -> [Events -> TaskState]]
  BY <1>4, <1>5 DEF TypeOK
<1>7. ASSUME NEW q \in Relays, NEW f \in Events
      PROVE  /\ task'[q][f] = IF q = r /\ f = e THEN t ELSE task[q][f]
             /\ attempts'[q][f] = IF q = r /\ f = e THEN attempts[r][e] + 1 ELSE attempts[q][f]
  BY <1>5 DEF AttemptFailed, TypeOK
<1>8. AttemptsLeft'
  BY <1>4, <1>7 DEF AttemptsLeft
<1>9. MarkIsStored'
  BY <1>4, <1>7 DEF MarkIsStored
<1> QED
  BY <1>3, <1>6, <1>8, <1>9

\* The end of a task keeps the relay's tasks typed.
LEMMA TaskEndsKeeps ==
    ASSUME TypeOK, AttemptsLeft, MarkIsStored, NEW r \in Relays, NEW e \in Events,
           TaskEnds(r, e), stream \subseteq stream'
    PROVE  /\ task' \in [Relays -> [Events -> TaskState]]
           /\ attempts' \in [Relays -> [Events -> 0..MaxRetries]]
           /\ AttemptsLeft'
           /\ MarkIsStored'
<1>1. task' \in [Relays -> [Events -> TaskState]]
  BY DEF TaskEnds, SetTask, TypeOK, TaskState
<1>2. attempts' \in [Relays -> [Events -> 0..MaxRetries]]
  BY RelayAssumption DEF TaskEnds, TypeOK
<1>3. ASSUME NEW q \in Relays, NEW f \in Events
      PROVE  /\ task'[q][f] = IF q = r /\ f = e THEN "none" ELSE task[q][f]
             /\ attempts'[q][f] = IF q = r /\ f = e THEN 0 ELSE attempts[q][f]
  BY DEF TaskEnds, SetTask, TypeOK
<1>4. AttemptsLeft'
  BY <1>3, RelayAssumption DEF AttemptsLeft
<1>5. MarkIsStored'
  BY <1>3 DEF MarkIsStored
<1> QED
  BY <1>1, <1>2, <1>4, <1>5

\* A breaker replaced by one that keeps its thresholds keeps them all.
LEMMA BreakerKeeps ==
    ASSUME TypeOK, BreakersAct, NEW r \in Relays, NEW b \in Breaker, ThresholdsAct(b),
           breaker' = [breaker EXCEPT ![r] = b]
    PROVE  breaker' \in [Relays -> Breaker] /\ BreakersAct'
<1>1. breaker' \in [Relays -> Breaker]
  BY DEF TypeOK
<1>2. \A q \in Relays : breaker'[q] = IF q = r THEN b ELSE breaker[q]
  BY DEF TypeOK
<1>3. BreakersAct'
  BY <1>2 DEF BreakersAct
<1> QED
  BY <1>1, <1>3

-----------------------------------------------------------------------------
(* One lemma per action.                                                   *)

LEMMA InsertEventKeeps ==
    ASSUME IInv, NEW e \in Events, InsertEvent(e)
    PROVE  IInv'
<1> USE DEF InsertEvent, broker
<1>1. TypeOK'
  BY DEF IInv, TypeOK, RowStatus
<1>2. BreakersAct' /\ MarkIsStored' /\ AttemptsLeft'
  BY DEF IInv, BreakersAct, MarkIsStored, AttemptsLeft
<1>3. PublishedIsStored'
  <2>1. \A f \in Events : status'[f] = IF f = e THEN "PENDING" ELSE status[f]
    BY DEF IInv, TypeOK
  <2> QED
    BY <2>1 DEF IInv, PublishedIsStored
<1> QED
  BY <1>1, <1>2, <1>3 DEF IInv

LEMMA FetchBatchKeeps ==
    ASSUME IInv, NEW r \in Relays, FetchBatch(r)
    PROVE  IInv'
<1> DEFINE batch == [e \in Events |-> IF e \in PendingEvents THEN "ready" ELSE "none"]
<1>1. batch \in [Events -> TaskState] /\ \A e \in Events : batch[e] # "mark"
  BY DEF TaskState
<1>2. /\ task' = [task EXCEPT ![r] = batch]
      /\ UNCHANGED << table, broker, attempts, breaker, crashes >>
  BY DEF FetchBatch
<1> HIDE DEF batch
<1> USE <1>2 DEF table, broker
<1>3. TypeOK'
  BY <1>1 DEF IInv, TypeOK
<1>4. BreakersAct' /\ PublishedIsStored'
  BY DEF IInv, BreakersAct, PublishedIsStored
<1>5. \A q \in Relays, f \in Events :
        task'[q][f] = IF q = r THEN batch[f] ELSE task[q][f]
  BY DEF IInv, TypeOK
<1>6. MarkIsStored'
  BY <1>1, <1>5 DEF IInv, MarkIsStored
<1>7. AttemptsLeft'
  <2>1. \A f \in Events : task[r][f] # "dlq"
    BY DEF FetchBatch, Idle
  <2> QED
    BY <1>5, <2>1 DEF IInv, AttemptsLeft
<1> QED
  BY <1>3, <1>4, <1>6, <1>7 DEF IInv

LEMMA ConvertFailsKeeps ==
    ASSUME IInv, NEW r \in Relays, NEW e \in Events, ConvertFails(r, e)
    PROVE  IInv'
<1> USE DEF ConvertFails, table, broker
<1>1. /\ task' \in [Relays -> [Events -> TaskState]]
      /\ attempts' \in [Relays -> [Events -> 0..MaxRetries]]
      /\ AttemptsLeft' /\ MarkIsStored'
  BY AttemptFailedKeeps DEF IInv
<1>2. TypeOK' /\ BreakersAct' /\ PublishedIsStored'
  BY <1>1 DEF IInv, TypeOK, BreakersAct, PublishedIsStored
<1> QED
  BY <1>1, <1>2 DEF IInv

LEMMA StartCallKeeps ==
    ASSUME IInv, NEW r \in Relays, NEW e \in Events, StartCall(r, e)
    PROVE  IInv'
<1> USE DEF StartCall, SetTask, table, broker
<1>1. breaker[r] \in Breaker /\ ThresholdsAct(breaker[r])
  BY DEF IInv, TypeOK, BreakersAct
<1>2. breaker' \in [Relays -> Breaker] /\ BreakersAct'
  BY <1>1, ObservedKeeps, BreakerKeeps DEF IInv
<1>3. TypeOK'
  BY <1>2 DEF IInv, TypeOK, TaskState
<1>4. \A q \in Relays, f \in Events :
        task'[q][f] = IF q = r /\ f = e THEN "calling" ELSE task[q][f]
  BY DEF IInv, TypeOK
<1>5. MarkIsStored' /\ AttemptsLeft' /\ PublishedIsStored'
  BY <1>4 DEF IInv, MarkIsStored, AttemptsLeft, PublishedIsStored
<1> QED
  BY <1>2, <1>3, <1>5 DEF IInv

LEMMA RejectCallKeeps ==
    ASSUME IInv, NEW r \in Relays, NEW e \in Events, RejectCall(r, e)
    PROVE  IInv'
<1> USE DEF RejectCall, table, broker
<1>1. breaker[r] \in Breaker /\ ThresholdsAct(breaker[r])
  BY DEF IInv, TypeOK, BreakersAct
<1>2. breaker' \in [Relays -> Breaker] /\ BreakersAct'
  BY <1>1, RecordFailureKeeps, BreakerKeeps DEF IInv
<1>3. /\ task' \in [Relays -> [Events -> TaskState]]
      /\ attempts' \in [Relays -> [Events -> 0..MaxRetries]]
      /\ AttemptsLeft' /\ MarkIsStored'
  BY AttemptFailedKeeps DEF IInv
<1>4. TypeOK' /\ PublishedIsStored'
  BY <1>2, <1>3 DEF IInv, TypeOK, PublishedIsStored
<1> QED
  BY <1>2, <1>3, <1>4 DEF IInv

LEMMA CallSucceedsKeeps ==
    ASSUME IInv, NEW r \in Relays, NEW e \in Events, CallSucceeds(r, e)
    PROVE  IInv'
<1> USE DEF CallSucceeds, SetTask, table
<1>1. breaker[r] \in Breaker /\ ThresholdsAct(breaker[r])
  BY DEF IInv, TypeOK, BreakersAct
<1>2. RecordSuccess(breaker[r]) \in Breaker /\ ThresholdsAct(RecordSuccess(breaker[r]))
  BY <1>1, RecordSuccessKeeps
<1>3. breaker' \in [Relays -> Breaker] /\ BreakersAct'
  BY <1>2, RecordSuccessKeeps, BreakerKeeps DEF IInv
<1>4. TypeOK'
  BY <1>3 DEF IInv, TypeOK, TaskState
<1>5. \A q \in Relays, f \in Events :
        task'[q][f] = IF q = r /\ f = e THEN "mark" ELSE task[q][f]
  BY DEF IInv, TypeOK
<1>6. MarkIsStored' /\ AttemptsLeft' /\ PublishedIsStored'
  BY <1>5 DEF IInv, MarkIsStored, AttemptsLeft, PublishedIsStored
<1> QED
  BY <1>3, <1>4, <1>6 DEF IInv

LEMMA CallFailsKeeps ==
    ASSUME IInv, NEW r \in Relays, NEW e \in Events, CallFails(r, e)
    PROVE  IInv'
<1> USE DEF CallFails, table
<1>1. breaker[r] \in Breaker /\ ThresholdsAct(breaker[r])
  BY DEF IInv, TypeOK, BreakersAct
<1>2. RecordFailure(breaker[r]) \in Breaker /\ ThresholdsAct(RecordFailure(breaker[r]))
  BY <1>1, RecordFailureKeeps
<1>3. breaker' \in [Relays -> Breaker] /\ BreakersAct'
  BY <1>2, RecordFailureKeeps, BreakerKeeps DEF IInv
<1>4. stream \subseteq stream' /\ stream' \subseteq Events
  BY DEF IInv, TypeOK
<1>5. /\ task' \in [Relays -> [Events -> TaskState]]
      /\ attempts' \in [Relays -> [Events -> 0..MaxRetries]]
      /\ AttemptsLeft' /\ MarkIsStored'
  BY <1>4, AttemptFailedKeeps DEF IInv
<1>6. TypeOK'
  BY <1>3, <1>4, <1>5 DEF IInv, TypeOK
<1>7. PublishedIsStored'
  BY <1>4 DEF IInv, PublishedIsStored
<1> QED
  BY <1>3, <1>5, <1>6, <1>7 DEF IInv

\* The step the property is about: only an acknowledged event is marked.
LEMMA MarkPublishedKeeps ==
    ASSUME IInv, NEW r \in Relays, NEW e \in Events, MarkPublished(r, e)
    PROVE  IInv'
<1> USE DEF MarkPublished, broker
<1>1. /\ task' \in [Relays -> [Events -> TaskState]]
      /\ attempts' \in [Relays -> [Events -> 0..MaxRetries]]
      /\ AttemptsLeft' /\ MarkIsStored'
  BY TaskEndsKeeps DEF IInv
<1>2. TypeOK' /\ BreakersAct'
  BY <1>1 DEF IInv, TypeOK, RowStatus, BreakersAct
<1>3. e \in stream
  BY DEF IInv, MarkIsStored
<1>4. \A f \in Events : status'[f] = IF f = e THEN "PUBLISHED" ELSE status[f]
  BY DEF IInv, TypeOK
<1>5. PublishedIsStored'
  BY <1>3, <1>4 DEF IInv, PublishedIsStored
<1> QED
  BY <1>1, <1>2, <1>5 DEF IInv

LEMMA MarkFailsKeeps ==
    ASSUME IInv, NEW r \in Relays, NEW e \in Events, MarkFails(r, e)
    PROVE  IInv'
<1> USE DEF MarkFails, table, broker
<1>1. /\ task' \in [Relays -> [Events -> TaskState]]
      /\ attempts' \in [Relays -> [Events -> 0..MaxRetries]]
      /\ AttemptsLeft' /\ MarkIsStored'
  BY AttemptFailedKeeps DEF IInv
<1>2. TypeOK' /\ BreakersAct' /\ PublishedIsStored'
  BY <1>1 DEF IInv, TypeOK, BreakersAct, PublishedIsStored
<1> QED
  BY <1>1, <1>2 DEF IInv

LEMMA SendToDlqKeeps ==
    ASSUME IInv, NEW r \in Relays, NEW e \in Events, SendToDlq(r, e)
    PROVE  IInv'
<1> USE DEF SendToDlq, table
<1>1. /\ task' \in [Relays -> [Events -> TaskState]]
      /\ attempts' \in [Relays -> [Events -> 0..MaxRetries]]
      /\ AttemptsLeft' /\ MarkIsStored'
  BY TaskEndsKeeps DEF IInv
<1>2. TypeOK' /\ BreakersAct' /\ PublishedIsStored'
  BY <1>1 DEF IInv, TypeOK, BreakersAct, PublishedIsStored
<1> QED
  BY <1>1, <1>2 DEF IInv

LEMMA OpenDurationPassesKeeps ==
    ASSUME IInv, NEW r \in Relays, OpenDurationPasses(r)
    PROVE  IInv'
<1> USE DEF OpenDurationPasses, table, broker
<1> DEFINE b == [breaker[r] EXCEPT !.elapsed = TRUE]
<1>1. breaker[r] \in Breaker /\ breaker[r].state = "Open"
  BY DEF IInv, TypeOK
<1>2. b \in Breaker /\ b.state = "Open"
  BY <1>1 DEF Breaker
<1>3. breaker' = [breaker EXCEPT ![r] = b]
  BY DEF IInv, TypeOK
<1> HIDE DEF b
<1>4. ThresholdsAct(b)
  BY <1>2 DEF ThresholdsAct
<1>5. breaker' \in [Relays -> Breaker] /\ BreakersAct'
  BY <1>2, <1>3, <1>4, BreakerKeeps DEF IInv
<1>6. TypeOK' /\ MarkIsStored' /\ AttemptsLeft' /\ PublishedIsStored'
  BY <1>5 DEF IInv, TypeOK, MarkIsStored, AttemptsLeft, PublishedIsStored
<1> QED
  BY <1>5, <1>6 DEF IInv

LEMMA CrashKeeps ==
    ASSUME IInv, NEW r \in Relays, Crash(r)
    PROVE  IInv'
<1> USE DEF Crash, table, broker
<1>1. breaker' \in [Relays -> Breaker] /\ BreakersAct'
  BY NewBreakerOK, BreakerKeeps DEF IInv
<1>2. TypeOK'
  BY <1>1, RelayAssumption DEF IInv, TypeOK, TaskState
<1>3. \A q \in Relays, f \in Events :
        /\ task'[q][f] = IF q = r THEN "none" ELSE task[q][f]
        /\ attempts'[q][f] = IF q = r THEN 0 ELSE attempts[q][f]
  BY DEF IInv, TypeOK
<1>4. MarkIsStored' /\ AttemptsLeft' /\ PublishedIsStored'
  BY <1>3, RelayAssumption DEF IInv, MarkIsStored, AttemptsLeft, PublishedIsStored
<1> QED
  BY <1>1, <1>2, <1>4 DEF IInv

\* Every step keeps the inductive invariant.
LEMMA NextKeeps == IInv /\ [Next]_vars => IInv'
<1> SUFFICES ASSUME IInv, [Next]_vars PROVE IInv'
  OBVIOUS
<1>1. CASE UNCHANGED vars
  BY <1>1 DEF vars, IInv, TypeOK, BreakersAct, MarkIsStored, PublishedIsStored, AttemptsLeft
<1>2. ASSUME NEW e \in Events, InsertEvent(e) PROVE IInv'
  BY <1>2, InsertEventKeeps
<1>3. ASSUME NEW r \in Relays, FetchBatch(r) \/ OpenDurationPasses(r) \/ Crash(r) PROVE IInv'
  BY <1>3, FetchBatchKeeps, OpenDurationPassesKeeps, CrashKeeps
<1>4. ASSUME NEW r \in Relays, NEW e \in Events, TaskStep(r, e) PROVE IInv'
  BY <1>4, ConvertFailsKeeps, StartCallKeeps, RejectCallKeeps, CallSucceedsKeeps,
     CallFailsKeeps, MarkPublishedKeeps, MarkFailsKeeps, SendToDlqKeeps DEF TaskStep
<1> QED
  BY <1>1, <1>2, <1>3, <1>4 DEF Next

-----------------------------------------------------------------------------
(* The theorems.                                                           *)

LEMMA IInvHolds == Spec => []IInv
BY InitIInv, NextKeeps, PTL DEF Spec

\* Every column, task and breaker keeps its type; in particular no event is
\* attempted more than max_retries times in a batch, for any configuration.
THEOREM RelayTypeCorrect == Spec => []TypeOK
<1>1. IInv => TypeOK
  BY DEF IInv
<1> QED
  BY <1>1, IInvHolds, PTL

\* The outbox loses nothing, for any number of relays working on the same rows
\* and any number of crashes: a row is marked published only after JetStream
\* has acknowledged its event.
THEOREM PublishedStaysStored == Spec => []PublishedIsStored
<1>1. IInv => PublishedIsStored
  BY DEF IInv
<1> QED
  BY <1>1, IInvHolds, PTL

\* No sequence of calls that overlap, are rejected or are recorded twice steps
\* over a threshold of a relay's circuit breaker.
THEOREM BreakersKeepThresholds == Spec => []BreakersAct
<1>1. IInv => BreakersAct
  BY DEF IInv
<1> QED
  BY <1>1, IInvHolds, PTL

-----------------------------------------------------------------------------
(* The saga consumers: the inductive invariant.                            *)

\* The durables there are: none before the first start, one for a shared name, at
\* most one for each start otherwise; a running loop reads one.
DurablesAccounted ==
    /\ durables <= starts
    /\ consumer \notin FreshNamed => durables <= 1
    /\ loop \in { "running", "draining" } => durables > 0

\* A consumer that does not run has nothing in the client.
StoppedIsEmpty ==
    loop \in { "stopped", "ended" } => copies = NoCopies /\ current = NoMessage

\* 1 for a message that is in hand and may still start a saga.
Undecided(m) == IF current = m /\ stage = "reading" THEN 1 ELSE 0

\* Every saga of a message, and every copy that may still start one, is a delivery:
\* of the current durable, or of an earlier one, which made at most MaxDeliver.
DeliveriesAccounted ==
    \A m \in Messages :
      /\ copies[m] <= deliveries[m]
      /\ durables = 0 => sagas[m] = 0
      /\ durables > 0 => sagas[m] + copies[m] + Undecided(m) + MaxDeliver
                           <= MaxDeliver * durables + deliveries[m]

ConsumerInv ==
    /\ ConsumerTypeOK
    /\ ThresholdsAct(circuit)
    /\ DurablesAccounted
    /\ StoppedIsEmpty
    /\ DeliveriesAccounted

\* Products are monotonic.
LEMMA Monotonic ==
    ASSUME NEW a \in Nat, NEW b \in Nat, a <= b
    PROVE  /\ MaxDeliver * a \in Nat
           /\ MaxDeliver * b \in Nat
           /\ MaxDeliver * a <= MaxDeliver * b
           /\ MaxDeliver * (a + 1) = MaxDeliver * a + MaxDeliver
<1>1. MaxDeliver \in Nat
  BY ConsumerAssumption
<1>2. PICK c \in Nat : b = a + c
  <2>1. b - a \in Nat /\ b = a + (b - a)
    OBVIOUS
  <2> QED
    BY <2>1
<1>3. MaxDeliver * b = MaxDeliver * a + MaxDeliver * c
  BY <1>1, <1>2
<1>4. MaxDeliver * a \in Nat /\ MaxDeliver * c \in Nat
  BY <1>1
<1>5. MaxDeliver * (a + 1) = MaxDeliver * a + MaxDeliver
  BY <1>1
<1> QED
  BY <1>3, <1>4, <1>5

LEMMA ConsumerInitInv == ConsumerInit => ConsumerInv
<1> SUFFICES ASSUME ConsumerInit PROVE ConsumerInv
  OBVIOUS
<1> USE DEF ConsumerInit, NoCopies
<1>1. circuit \in Breaker /\ ThresholdsAct(circuit)
  BY NewBreakerOK
<1>2. ConsumerTypeOK
  BY <1>1, ConsumerAssumption DEF ConsumerTypeOK, Loop, Stage
<1>3. DurablesAccounted /\ StoppedIsEmpty
  BY DEF DurablesAccounted, StoppedIsEmpty
<1>4. DeliveriesAccounted
  BY DEF DeliveriesAccounted
<1> QED
  BY <1>1, <1>2, <1>3, <1>4 DEF ConsumerInv

-----------------------------------------------------------------------------
(* The stream.                                                             *)

LEMMA PublishMessageKeeps ==
    ASSUME ConsumerInv, NEW m \in Messages, PublishMessage(m)
    PROVE  ConsumerInv'
<1> USE DEF PublishMessage, history
<1>1. ConsumerTypeOK'
  BY DEF ConsumerInv, ConsumerTypeOK
<1>2. ThresholdsAct(circuit)' /\ DurablesAccounted' /\ StoppedIsEmpty' /\ DeliveriesAccounted'
  BY DEF ConsumerInv, DurablesAccounted, StoppedIsEmpty, DeliveriesAccounted, Undecided, NoCopies
<1> QED
  BY <1>1, <1>2 DEF ConsumerInv

LEMMA DiscardMessageKeeps ==
    ASSUME ConsumerInv, NEW m \in Messages, DiscardMessage(m)
    PROVE  ConsumerInv'
<1> USE DEF DiscardMessage, history
<1>1. ConsumerTypeOK'
  BY DEF ConsumerInv, ConsumerTypeOK
<1>2. ThresholdsAct(circuit)' /\ DurablesAccounted' /\ StoppedIsEmpty' /\ DeliveriesAccounted'
  BY DEF ConsumerInv, DurablesAccounted, StoppedIsEmpty, DeliveriesAccounted, Undecided, NoCopies
<1> QED
  BY <1>1, <1>2 DEF ConsumerInv

LEMMA MessageAgesKeeps ==
    ASSUME ConsumerInv, NEW m \in Messages, MessageAges(m)
    PROVE  ConsumerInv'
<1> USE DEF MessageAges, Mishap, history
<1>1. ConsumerTypeOK'
  BY ConsumerAssumption DEF ConsumerInv, ConsumerTypeOK
<1>2. ThresholdsAct(circuit)' /\ DurablesAccounted' /\ StoppedIsEmpty' /\ DeliveriesAccounted'
  BY DEF ConsumerInv, DurablesAccounted, StoppedIsEmpty, DeliveriesAccounted, Undecided, NoCopies
<1> QED
  BY <1>1, <1>2 DEF ConsumerInv

\* A delivery raises both sides of the account by one.
LEMMA DeliverKeeps ==
    ASSUME ConsumerInv, NEW m \in Messages, Deliver(m)
    PROVE  ConsumerInv'
<1> USE DEF Deliver, history
<1>1. deliveries[m] \in Nat /\ copies[m] \in Nat /\ copies[m] <= deliveries[m]
  BY ConsumerAssumption DEF ConsumerInv, ConsumerTypeOK, DeliveriesAccounted
<1>2. ConsumerTypeOK'
  <2>1. deliveries[m] + 1 \in 0..MaxDeliver /\ copies[m] + 1 \in 0..MaxDeliver
    BY <1>1, ConsumerAssumption DEF ConsumerInv, ConsumerTypeOK
  <2> QED
    BY <2>1 DEF ConsumerInv, ConsumerTypeOK
<1>3. ThresholdsAct(circuit)' /\ DurablesAccounted' /\ StoppedIsEmpty'
  BY DEF ConsumerInv, DurablesAccounted, StoppedIsEmpty
<1>4. DeliveriesAccounted'
  <2> SUFFICES ASSUME NEW n \in Messages
               PROVE  /\ copies'[n] <= deliveries'[n]
                      /\ durables' = 0 => sagas'[n] = 0
                      /\ durables' > 0 => sagas'[n] + copies'[n] + Undecided(n)' + MaxDeliver
                                            <= MaxDeliver * durables' + deliveries'[n]
    BY DEF DeliveriesAccounted
  <2>1. durables > 0 /\ durables \in Nat
    BY ConsumerAssumption DEF ConsumerInv, DurablesAccounted, ConsumerTypeOK
  <2>2. MaxDeliver \in Nat /\ MaxDeliver * durables \in Nat
    BY <2>1, Monotonic, ConsumerAssumption
  <2>3. /\ sagas[n] \in Nat /\ copies[n] \in Nat /\ deliveries[n] \in Nat
        /\ Undecided(n) \in Nat /\ Undecided(n)' = Undecided(n)
    BY ConsumerAssumption DEF ConsumerInv, ConsumerTypeOK, Undecided
  <2>4. copies'[n] - copies[n] = deliveries'[n] - deliveries[n] /\ copies'[n] \in Nat /\ deliveries'[n] \in Nat
    BY <1>1, <2>3 DEF ConsumerInv, ConsumerTypeOK
  <2>5. /\ copies[n] <= deliveries[n]
        /\ sagas[n] + copies[n] + Undecided(n) + MaxDeliver <= MaxDeliver * durables + deliveries[n]
    BY <2>1 DEF ConsumerInv, DeliveriesAccounted
  <2>6. durables' = durables /\ sagas' = sagas
    OBVIOUS
  <2> HIDE DEF Deliver
  <2> QED
    BY <2>1, <2>2, <2>3, <2>4, <2>5, <2>6
<1> QED
  BY <1>2, <1>3, <1>4 DEF ConsumerInv

-----------------------------------------------------------------------------
(* Starting and ending.                                                    *)

\* A new durable has made no delivery; what the earlier ones made fits into one
\* more MaxDeliver.
LEMMA CreateKeeps ==
    ASSUME ConsumerInv, loop = "stopped", starts < MaxStarts, starts' = starts + 1,
           CreateOrGetConsumer,
           UNCHANGED << consumer, published, stored, copies, current, stage, circuit, sagas, cut >>
    PROVE  /\ durables' \in 1..starts'
           /\ deliveries' \in [Messages -> 0..MaxDeliver]
           /\ acked' \subseteq Messages
           /\ held' \subseteq Messages
           /\ consumer' \notin FreshNamed => durables' <= 1
           /\ DeliveriesAccounted'
<1>1. /\ durables \in Nat /\ starts \in Nat /\ durables <= starts
      /\ MaxDeliver \in Nat
      /\ consumer \notin FreshNamed => durables <= 1
  BY ConsumerAssumption DEF ConsumerInv, ConsumerTypeOK, DurablesAccounted
<1>2. copies = NoCopies /\ current = NoMessage
  BY DEF ConsumerInv, StoppedIsEmpty
<1>3. CASE durables = 0 \/ consumer \in FreshNamed
  <2>1. /\ durables' = durables + 1 /\ deliveries' = NoCopies /\ acked' = {}
        /\ held' \in { held, held \cup (stored \ acked) }
    BY <1>3 DEF CreateOrGetConsumer
  <2>2. durables' \in 1..starts' /\ (consumer' \notin FreshNamed => durables' <= 1)
    BY <1>1, <1>3, <2>1
  <2>3. deliveries' \in [Messages -> 0..MaxDeliver] /\ acked' \subseteq Messages /\ held' \subseteq Messages
    BY <1>1, <2>1 DEF NoCopies, ConsumerInv, ConsumerTypeOK
  <2>4. DeliveriesAccounted'
    <3> SUFFICES ASSUME NEW n \in Messages
                 PROVE  /\ copies'[n] <= deliveries'[n]
                        /\ durables' = 0 => sagas'[n] = 0
                        /\ durables' > 0 => sagas'[n] + copies'[n] + Undecided(n)' + MaxDeliver
                                              <= MaxDeliver * durables' + deliveries'[n]
      BY DEF DeliveriesAccounted
    <3>1. copies'[n] = 0 /\ copies[n] = 0 /\ deliveries'[n] = 0 /\ durables' # 0
      BY <1>1, <1>2, <2>1 DEF NoCopies
    <3>2. Undecided(n) = 0 /\ Undecided(n)' = 0
      BY <1>2, ConsumerAssumption DEF Undecided
    <3>3. /\ MaxDeliver * durables \in Nat
          /\ MaxDeliver * durables' = MaxDeliver * durables + MaxDeliver
      BY <1>1, <2>1, Monotonic
    <3>4. sagas[n] \in Nat /\ deliveries[n] \in Nat /\ deliveries[n] <= MaxDeliver /\ sagas' = sagas
      BY <1>1 DEF ConsumerInv, ConsumerTypeOK
    <3>5. sagas[n] <= MaxDeliver * durables
      <4>1. CASE durables = 0
        BY <4>1, <3>3, <3>4 DEF ConsumerInv, DeliveriesAccounted
      <4>2. CASE durables > 0
        <5>1. sagas[n] + copies[n] + Undecided(n) + MaxDeliver <= MaxDeliver * durables + deliveries[n]
          BY <4>2 DEF ConsumerInv, DeliveriesAccounted
        <5> QED
          BY <1>1, <3>1, <3>2, <3>3, <3>4, <5>1
      <4> QED
        BY <1>1, <4>1, <4>2
    <3> QED
      BY <1>1, <3>1, <3>2, <3>3, <3>4, <3>5
  <2> QED
    BY <2>2, <2>3, <2>4
<1>4. CASE ~ (durables = 0 \/ consumer \in FreshNamed)
  <2>1. UNCHANGED << durables, deliveries, acked, held >>
    BY <1>4 DEF CreateOrGetConsumer
  <2>2. durables' \in 1..starts' /\ (consumer' \notin FreshNamed => durables' <= 1)
    BY <1>1, <1>4, <2>1
  <2>3. deliveries' \in [Messages -> 0..MaxDeliver] /\ acked' \subseteq Messages /\ held' \subseteq Messages
    BY <2>1 DEF ConsumerInv, ConsumerTypeOK
  <2>4. DeliveriesAccounted'
    BY <2>1 DEF ConsumerInv, DeliveriesAccounted, Undecided
  <2> QED
    BY <2>2, <2>3, <2>4
<1> QED
  BY <1>3, <1>4

LEMMA StartKeeps ==
    ASSUME ConsumerInv, Start
    PROVE  ConsumerInv'
<1> USE DEF Start, history
<1>1. /\ durables' \in 1..starts' /\ deliveries' \in [Messages -> 0..MaxDeliver]
      /\ acked' \subseteq Messages /\ held' \subseteq Messages
      /\ consumer' \notin FreshNamed => durables' <= 1
      /\ DeliveriesAccounted'
  BY CreateKeeps
<1>2. starts \in 0..MaxStarts /\ starts' \in 0..MaxStarts /\ durables' \in 0..MaxStarts /\ durables' <= starts' /\ durables' > 0
  BY <1>1, ConsumerAssumption DEF ConsumerInv, ConsumerTypeOK
<1>3. ConsumerTypeOK'
  BY <1>1, <1>2 DEF ConsumerInv, ConsumerTypeOK, Loop
<1>4. ThresholdsAct(circuit)' /\ DurablesAccounted' /\ StoppedIsEmpty'
  BY <1>1, <1>2 DEF ConsumerInv, DurablesAccounted, StoppedIsEmpty
<1> QED
  BY <1>1, <1>3, <1>4 DEF ConsumerInv

LEMMA StartFailsKeeps ==
    ASSUME ConsumerInv, StartFails
    PROVE  ConsumerInv'
<1> USE DEF StartFails, history
<1>1. /\ durables' \in 0..starts' /\ deliveries' \in [Messages -> 0..MaxDeliver]
      /\ acked' \subseteq Messages /\ held' \subseteq Messages
      /\ consumer' \notin FreshNamed => durables' <= 1
      /\ DeliveriesAccounted'
  <2>1. CASE CreateOrGetConsumer
    BY <2>1, CreateKeeps, ConsumerAssumption DEF ConsumerInv, ConsumerTypeOK
  <2>2. CASE UNCHANGED << durables, deliveries, acked, held >>
    <3>1. durables' \in 0..starts' /\ (consumer' \notin FreshNamed => durables' <= 1)
      BY <2>2, ConsumerAssumption DEF ConsumerInv, ConsumerTypeOK, DurablesAccounted
    <3>2. deliveries' \in [Messages -> 0..MaxDeliver] /\ acked' \subseteq Messages /\ held' \subseteq Messages
      BY <2>2 DEF ConsumerInv, ConsumerTypeOK
    <3>3. DeliveriesAccounted'
      BY <2>2 DEF ConsumerInv, DeliveriesAccounted, Undecided
    <3> QED
      BY <3>1, <3>2, <3>3
  <2> QED
    BY <2>1, <2>2
<1>2. /\ starts' \in 0..MaxStarts /\ durables' \in 0..MaxStarts /\ durables' <= starts'
      /\ mishaps' \in 0..MaxConsumerFaults
  BY <1>1, ConsumerAssumption DEF ConsumerInv, ConsumerTypeOK, Mishap
<1>3. ConsumerTypeOK'
  BY <1>1, <1>2 DEF ConsumerInv, ConsumerTypeOK, Loop
<1>4. ThresholdsAct(circuit)' /\ DurablesAccounted' /\ StoppedIsEmpty'
  BY <1>1, <1>2 DEF ConsumerInv, DurablesAccounted, StoppedIsEmpty, NoCopies
<1> QED
  BY <1>1, <1>3, <1>4 DEF ConsumerInv

\* To lose what is in the client lowers one side of the account only.
LEMMA ForgetKeeps ==
    ASSUME ConsumerInv, Forget, UNCHANGED << nats, sagas >>
    PROVE  /\ copies' \in [Messages -> 0..MaxDeliver]
           /\ cut' \subseteq Messages
           /\ DeliveriesAccounted'
<1> USE DEF Forget, nats
<1>1. copies' \in [Messages -> 0..MaxDeliver] /\ cut' \subseteq Messages
  BY ConsumerAssumption DEF NoCopies, InHand, ConsumerInv, ConsumerTypeOK
<1>2. DeliveriesAccounted'
  <2> SUFFICES ASSUME NEW n \in Messages
               PROVE  /\ copies'[n] <= deliveries'[n]
                      /\ durables' = 0 => sagas'[n] = 0
                      /\ durables' > 0 => sagas'[n] + copies'[n] + Undecided(n)' + MaxDeliver
                                            <= MaxDeliver * durables' + deliveries'[n]
    BY DEF DeliveriesAccounted
  <2>1. copies'[n] = 0 /\ Undecided(n)' = 0
    BY DEF NoCopies, Undecided
  <2>2. /\ sagas[n] \in Nat /\ copies[n] \in Nat /\ deliveries[n] \in Nat /\ durables \in Nat
        /\ MaxDeliver \in Nat /\ Undecided(n) \in Nat
    BY ConsumerAssumption DEF ConsumerInv, ConsumerTypeOK, Undecided
  <2>3. MaxDeliver * durables \in Nat
    BY <2>2, Monotonic
  <2>4. /\ durables = 0 => sagas[n] = 0
        /\ durables > 0 => sagas[n] + copies[n] + Undecided(n) + MaxDeliver
                             <= MaxDeliver * durables + deliveries[n]
    BY DEF ConsumerInv, DeliveriesAccounted
  <2>5. UNCHANGED << durables, sagas, deliveries >>
    OBVIOUS
  <2> HIDE DEF Forget, nats
  <2> QED
    BY <2>1, <2>2, <2>3, <2>4, <2>5
<1> QED
  BY <1>1, <1>2

LEMMA ServerEndsKeeps ==
    ASSUME ConsumerInv, ServerEnds
    PROVE  ConsumerInv'
<1> USE DEF ServerEnds
<1>1. copies' \in [Messages -> 0..MaxDeliver] /\ cut' \subseteq Messages /\ DeliveriesAccounted'
  BY ForgetKeeps
<1>2. circuit' \in Breaker /\ ThresholdsAct(circuit)'
  BY NewBreakerOK DEF ThresholdsAct
<1>3. ConsumerTypeOK'
  BY <1>1, <1>2 DEF ConsumerInv, ConsumerTypeOK, Loop, Stage, Forget, nats
<1>4. DurablesAccounted' /\ StoppedIsEmpty'
  BY DEF ConsumerInv, DurablesAccounted, StoppedIsEmpty, Forget, NoCopies, nats
<1> QED
  BY <1>1, <1>2, <1>3, <1>4 DEF ConsumerInv

LEMMA LoopEndsKeeps ==
    ASSUME ConsumerInv, LoopEnds
    PROVE  ConsumerInv'
<1> USE DEF LoopEnds
<1>1. copies' \in [Messages -> 0..MaxDeliver] /\ cut' \subseteq Messages /\ DeliveriesAccounted'
  BY ForgetKeeps
<1>2. mishaps' \in 0..MaxConsumerFaults
  BY ConsumerAssumption DEF ConsumerInv, ConsumerTypeOK, Mishap
<1>3. ConsumerTypeOK'
  BY <1>1, <1>2 DEF ConsumerInv, ConsumerTypeOK, Loop, Stage, Forget, nats
<1>4. ThresholdsAct(circuit)' /\ DurablesAccounted' /\ StoppedIsEmpty'
  BY DEF ConsumerInv, DurablesAccounted, StoppedIsEmpty, Forget, NoCopies, nats
<1> QED
  BY <1>1, <1>3, <1>4 DEF ConsumerInv

LEMMA ShutdownNoticedKeeps ==
    ASSUME ConsumerInv, ShutdownNoticed
    PROVE  ConsumerInv'
<1> USE DEF ShutdownNoticed, nats, history
<1>1. ConsumerTypeOK'
  BY DEF ConsumerInv, ConsumerTypeOK, Loop
<1>2. ThresholdsAct(circuit)' /\ DurablesAccounted' /\ StoppedIsEmpty' /\ DeliveriesAccounted'
  BY DEF ConsumerInv, DurablesAccounted, StoppedIsEmpty, DeliveriesAccounted, Undecided, NoCopies
<1> QED
  BY <1>1, <1>2 DEF ConsumerInv

LEMMA ReceiveErrorKeeps ==
    ASSUME ConsumerInv, ReceiveError
    PROVE  ConsumerInv'
<1> USE DEF ReceiveError, nats, history
<1>1. circuit' \in Breaker /\ ThresholdsAct(circuit)'
  BY RecordFailureKeeps DEF ConsumerInv, ConsumerTypeOK, ThresholdsAct
<1>2. mishaps' \in 0..MaxConsumerFaults
  BY ConsumerAssumption DEF ConsumerInv, ConsumerTypeOK, Mishap
<1>3. ConsumerTypeOK'
  BY <1>1, <1>2 DEF ConsumerInv, ConsumerTypeOK
<1>4. DurablesAccounted' /\ StoppedIsEmpty' /\ DeliveriesAccounted'
  BY DEF ConsumerInv, DurablesAccounted, StoppedIsEmpty, DeliveriesAccounted, Undecided, NoCopies
<1> QED
  BY <1>1, <1>3, <1>4 DEF ConsumerInv

-----------------------------------------------------------------------------
(* One iteration.                                                          *)

\* A copy that is taken moves from the client into the hand.
LEMMA TakeKeeps ==
    ASSUME ConsumerInv, NEW m \in Messages, Take(m),
           stage' \in { "reading", "acking" },
           circuit' \in Breaker, ThresholdsAct(circuit)'
    PROVE  ConsumerInv'
<1> USE DEF Take, nats, history
<1>1. copies[m] \in Nat /\ copies[m] > 0 /\ copies[m] <= MaxDeliver /\ MaxDeliver \in Nat /\ m # NoMessage
  BY ConsumerAssumption DEF ConsumerInv, ConsumerTypeOK
<1>2. ConsumerTypeOK'
  <2>1. copies[m] - 1 \in 0..MaxDeliver
    BY <1>1
  <2> QED
    BY <1>1, <2>1 DEF ConsumerInv, ConsumerTypeOK, Stage
<1>3. DurablesAccounted' /\ StoppedIsEmpty'
  BY DEF ConsumerInv, DurablesAccounted, StoppedIsEmpty
<1>4. DeliveriesAccounted'
  <2> SUFFICES ASSUME NEW n \in Messages
               PROVE  /\ copies'[n] <= deliveries'[n]
                      /\ durables' = 0 => sagas'[n] = 0
                      /\ durables' > 0 => sagas'[n] + copies'[n] + Undecided(n)' + MaxDeliver
                                            <= MaxDeliver * durables' + deliveries'[n]
    BY DEF DeliveriesAccounted
  <2>1. /\ sagas[n] \in Nat /\ copies[n] \in Nat /\ deliveries[n] \in Nat /\ durables \in Nat
        /\ copies'[n] \in Nat
    BY <1>1, <1>2 DEF ConsumerInv, ConsumerTypeOK
  <2>2. MaxDeliver * durables \in Nat
    BY <2>1, Monotonic
  <2>3. /\ copies[n] <= deliveries[n]
        /\ durables = 0 => sagas[n] = 0
        /\ durables > 0 => sagas[n] + copies[n] + Undecided(n) + MaxDeliver
                             <= MaxDeliver * durables + deliveries[n]
    BY DEF ConsumerInv, DeliveriesAccounted
  <2>4. Undecided(n) = 0 /\ Undecided(n)' \in {0, 1} /\ copies'[n] + Undecided(n)' <= copies[n]
    <3>1. Undecided(n) = 0
      BY ConsumerAssumption DEF Undecided
    <3>2. Undecided(n)' \in {0, 1} /\ (n # m => Undecided(n)' = 0)
      BY DEF Undecided
    <3>3. CASE n = m
      BY <1>1, <3>1, <3>2, <3>3 DEF ConsumerInv, ConsumerTypeOK
    <3>4. CASE n # m
      BY <2>1, <3>1, <3>2, <3>4 DEF ConsumerInv, ConsumerTypeOK
    <3> QED
      BY <3>1, <3>2, <3>3, <3>4
  <2>5. UNCHANGED << durables, sagas, deliveries >>
    OBVIOUS
  <2> HIDE DEF Take, nats, history
  <2> QED
    BY <1>1, <2>1, <2>2, <2>3, <2>4, <2>5
<1> QED
  BY <1>2, <1>3, <1>4 DEF ConsumerInv

LEMMA TakeMessageKeeps ==
    ASSUME ConsumerInv, NEW m \in Messages, TakeMessage(m)
    PROVE  ConsumerInv'
<1>1. circuit \in Breaker /\ ThresholdsAct(circuit)
  BY DEF ConsumerInv, ConsumerTypeOK
<1>2. CASE TakeToHandle(m)
  <2>1. circuit' \in Breaker /\ ThresholdsAct(circuit)'
    BY <1>1, <1>2, ObservedKeeps DEF TakeToHandle, ThresholdsAct
  <2> QED
    BY <1>2, <2>1, TakeKeeps DEF TakeToHandle
<1>3. CASE TakeToSkip(m)
  <2>1. circuit' \in Breaker /\ ThresholdsAct(circuit)'
    BY <1>1, <1>3, RecordFailureKeeps DEF TakeToSkip, ThresholdsAct
  <2> QED
    BY <1>3, <2>1, TakeKeeps DEF TakeToSkip
<1>4. CASE TakeToDrain(m)
  <2>1. circuit' \in Breaker /\ ThresholdsAct(circuit)'
    BY <1>1, <1>4 DEF TakeToDrain, ThresholdsAct
  <2> QED
    BY <1>4, <2>1, TakeKeeps DEF TakeToDrain
<1> QED
  BY <1>2, <1>3, <1>4 DEF TakeMessage

\* A message that is no longer undecided lowers its account.
LEMMA DecidedKeeps ==
    ASSUME ConsumerInv, stage' # "reading",
           UNCHANGED << durables, deliveries, copies, sagas >>
    PROVE  DeliveriesAccounted'
<1> SUFFICES ASSUME NEW n \in Messages
             PROVE  /\ copies'[n] <= deliveries'[n]
                    /\ durables' = 0 => sagas'[n] = 0
                    /\ durables' > 0 => sagas'[n] + copies'[n] + Undecided(n)' + MaxDeliver
                                          <= MaxDeliver * durables' + deliveries'[n]
  BY DEF DeliveriesAccounted
<1>1. /\ sagas[n] \in Nat /\ copies[n] \in Nat /\ deliveries[n] \in Nat /\ durables \in Nat
      /\ MaxDeliver \in Nat /\ Undecided(n) \in Nat /\ Undecided(n)' = 0
  BY ConsumerAssumption DEF ConsumerInv, ConsumerTypeOK, Undecided
<1>2. MaxDeliver * durables \in Nat
  BY <1>1, Monotonic
<1>3. /\ copies[n] <= deliveries[n]
      /\ durables = 0 => sagas[n] = 0
      /\ durables > 0 => sagas[n] + copies[n] + Undecided(n) + MaxDeliver
                           <= MaxDeliver * durables + deliveries[n]
  BY DEF ConsumerInv, DeliveriesAccounted
<1> QED
  BY <1>1, <1>2, <1>3

LEMMA HandledKeeps ==
    ASSUME ConsumerInv, NEW ok \in BOOLEAN, Handled(ok), stage # "next", UNCHANGED sagas
    PROVE  ConsumerInv'
<1> USE DEF Handled, nats
<1>1. circuit' \in Breaker /\ ThresholdsAct(circuit)'
  <2>1. circuit \in Breaker /\ ThresholdsAct(circuit)
    BY DEF ConsumerInv, ConsumerTypeOK
  <2>2. /\ RecordSuccess(RecordSuccess(circuit)) \in Breaker
        /\ ThresholdsAct(RecordSuccess(RecordSuccess(circuit)))
    BY <2>1, RecordSuccessKeeps
  <2>3. /\ RecordFailure(RecordFailure(circuit)) \in Breaker
        /\ ThresholdsAct(RecordFailure(RecordFailure(circuit)))
    BY <2>1, RecordFailureKeeps
  <2> QED
    BY <2>2, <2>3 DEF ThresholdsAct
<1>2. ConsumerTypeOK'
  BY <1>1 DEF ConsumerInv, ConsumerTypeOK, Stage
<1>3. DurablesAccounted' /\ StoppedIsEmpty'
  BY DEF ConsumerInv, DurablesAccounted, StoppedIsEmpty, NoCopies
<1>4. DeliveriesAccounted'
  BY DecidedKeeps
<1> QED
  BY <1>1, <1>2, <1>3, <1>4 DEF ConsumerInv

\* The undecided message becomes a saga.
LEMMA TriggerSagaKeeps ==
    ASSUME ConsumerInv, TriggerSaga
    PROVE  ConsumerInv'
<1> USE DEF TriggerSaga, nats
<1>1. current \in Messages /\ sagas[current] \in Nat /\ current # NoMessage
  BY ConsumerAssumption DEF ConsumerInv, ConsumerTypeOK
<1>2. ConsumerTypeOK'
  BY <1>1 DEF ConsumerInv, ConsumerTypeOK, Stage
<1>3. ThresholdsAct(circuit)' /\ DurablesAccounted' /\ StoppedIsEmpty'
  BY DEF ConsumerInv, DurablesAccounted, StoppedIsEmpty, NoCopies
<1>4. durables > 0
  BY <1>1 DEF ConsumerInv, ConsumerTypeOK, DurablesAccounted, StoppedIsEmpty, Loop
<1>5. DeliveriesAccounted'
  <2> SUFFICES ASSUME NEW n \in Messages
               PROVE  /\ copies'[n] <= deliveries'[n]
                      /\ durables' = 0 => sagas'[n] = 0
                      /\ durables' > 0 => sagas'[n] + copies'[n] + Undecided(n)' + MaxDeliver
                                            <= MaxDeliver * durables' + deliveries'[n]
    BY DEF DeliveriesAccounted
  <2>1. /\ sagas[n] \in Nat /\ copies[n] \in Nat /\ deliveries[n] \in Nat /\ durables \in Nat
        /\ MaxDeliver \in Nat /\ Undecided(n)' = 0 /\ Undecided(n) \in {0, 1}
    BY ConsumerAssumption DEF ConsumerInv, ConsumerTypeOK, Undecided
  <2>2. MaxDeliver * durables \in Nat
    BY <2>1, Monotonic
  <2>3. /\ copies[n] <= deliveries[n]
        /\ sagas[n] + copies[n] + Undecided(n) + MaxDeliver <= MaxDeliver * durables + deliveries[n]
    BY <1>4 DEF ConsumerInv, DeliveriesAccounted
  <2>4. sagas'[n] = sagas[n] + Undecided(n)
    BY <1>1, <2>1 DEF Undecided, ConsumerInv, ConsumerTypeOK
  <2>5. UNCHANGED << durables, copies, deliveries >>
    OBVIOUS
  <2> HIDE DEF TriggerSaga, nats
  <2> QED
    BY <1>4, <2>1, <2>2, <2>3, <2>4, <2>5
<1> QED
  BY <1>2, <1>3, <1>5 DEF ConsumerInv

LEMMA SagaReturnsKeeps ==
    ASSUME ConsumerInv, NEW result \in { "completed", "failed", "error" }, SagaReturns(result)
    PROVE  ConsumerInv'
<1>1. CASE consumer = "terminating" /\ result # "error"
  <2> USE <1>1 DEF SagaReturns, nats
  <2>1. ConsumerTypeOK'
    BY DEF ConsumerInv, ConsumerTypeOK, Stage
  <2>2. ThresholdsAct(circuit)' /\ DurablesAccounted' /\ StoppedIsEmpty'
    BY DEF ConsumerInv, DurablesAccounted, StoppedIsEmpty, NoCopies
  <2>3. DeliveriesAccounted'
    BY DecidedKeeps
  <2> QED
    BY <2>1, <2>2, <2>3 DEF ConsumerInv
<1>2. CASE ~ (consumer = "terminating" /\ result # "error")
  <2>1. Handled(result = "completed") /\ stage # "next" /\ UNCHANGED sagas
    BY <1>2 DEF SagaReturns
  <2>2. (result = "completed") \in BOOLEAN
    OBVIOUS
  <2> QED
    BY <2>1, <2>2, HandledKeeps
<1> QED
  BY <1>1, <1>2

LEMMA AckKeeps ==
    ASSUME ConsumerInv, Ack \/ AckFails
    PROVE  ConsumerInv'
<1>1. current \in Messages
  BY DEF ConsumerInv, ConsumerTypeOK, Ack, AckFails
<1>2. CASE Ack
  <2> USE <1>2 DEF Ack, history
  <2>1. ConsumerTypeOK'
    BY <1>1 DEF ConsumerInv, ConsumerTypeOK, Stage
  <2>2. ThresholdsAct(circuit)' /\ DurablesAccounted' /\ StoppedIsEmpty'
    BY DEF ConsumerInv, DurablesAccounted, StoppedIsEmpty, NoCopies
  <2>3. DeliveriesAccounted'
    BY DecidedKeeps
  <2> QED
    BY <2>1, <2>2, <2>3 DEF ConsumerInv
<1>3. CASE AckFails
  <2> USE <1>3 DEF AckFails, nats
  <2>1. mishaps' \in 0..MaxConsumerFaults
    BY ConsumerAssumption DEF ConsumerInv, ConsumerTypeOK, Mishap
  <2>2. ConsumerTypeOK'
    BY <1>1, <2>1 DEF ConsumerInv, ConsumerTypeOK, Stage
  <2>3. ThresholdsAct(circuit)' /\ DurablesAccounted' /\ StoppedIsEmpty'
    BY DEF ConsumerInv, DurablesAccounted, StoppedIsEmpty, NoCopies
  <2>4. DeliveriesAccounted'
    BY DecidedKeeps
  <2> QED
    BY <2>2, <2>3, <2>4 DEF ConsumerInv
<1> QED
  BY <1>2, <1>3

LEMMA HandlerStepKeeps ==
    ASSUME ConsumerInv, HandlerStep
    PROVE  ConsumerInv'
<1>1. CASE HandlerSkips
  BY <1>1, HandledKeeps DEF HandlerSkips
<1>2. CASE HandlerFails
  BY <1>2, HandledKeeps DEF HandlerFails
<1>3. CASE TriggerSaga
  BY <1>3, TriggerSagaKeeps
<1>4. CASE \E result \in { "completed", "failed", "error" } : SagaReturns(result)
  BY <1>4, SagaReturnsKeeps
<1>5. CASE \E ok \in BOOLEAN : PublishTerminationEvent(ok)
  BY <1>5, HandledKeeps DEF PublishTerminationEvent
<1>6. CASE CallTimesOut
  BY <1>6, HandledKeeps DEF CallTimesOut
<1>7. CASE Ack \/ AckFails
  BY <1>7, AckKeeps
<1> QED
  BY <1>1, <1>2, <1>3, <1>4, <1>5, <1>6, <1>7 DEF HandlerStep

LEMMA CircuitMayCloseKeeps ==
    ASSUME ConsumerInv, CircuitMayClose
    PROVE  ConsumerInv'
<1> USE DEF CircuitMayClose, nats, history
<1>1. circuit' \in Breaker /\ ThresholdsAct(circuit)'
  BY ElapsedKeeps DEF ConsumerInv, ConsumerTypeOK, ThresholdsAct
<1>2. ConsumerTypeOK'
  BY <1>1 DEF ConsumerInv, ConsumerTypeOK
<1>3. DurablesAccounted' /\ StoppedIsEmpty' /\ DeliveriesAccounted'
  BY DEF ConsumerInv, DurablesAccounted, StoppedIsEmpty, DeliveriesAccounted, Undecided, NoCopies
<1> QED
  BY <1>1, <1>2, <1>3 DEF ConsumerInv

-----------------------------------------------------------------------------
LEMMA ConsumerNextKeeps == ConsumerInv /\ [ConsumerNext]_consumerVars => ConsumerInv'
<1> SUFFICES ASSUME ConsumerInv, [ConsumerNext]_consumerVars PROVE ConsumerInv'
  OBVIOUS
<1>1. CASE Start
  BY <1>1, StartKeeps
<1>2. CASE StartFails
  BY <1>2, StartFailsKeeps
<1>3. CASE ServerEnds
  BY <1>3, ServerEndsKeeps
<1>4. CASE ShutdownNoticed
  BY <1>4, ShutdownNoticedKeeps
<1>5. CASE LoopEnds
  BY <1>5, LoopEndsKeeps
<1>6. CASE ReceiveError
  BY <1>6, ReceiveErrorKeeps
<1>7. CASE HandlerStep
  BY <1>7, HandlerStepKeeps
<1>8. CASE CircuitMayClose
  BY <1>8, CircuitMayCloseKeeps
<1>9. ASSUME NEW m \in Messages,
             PublishMessage(m) \/ DiscardMessage(m) \/ MessageAges(m) \/ Deliver(m) \/ TakeMessage(m)
      PROVE  ConsumerInv'
  BY <1>9, PublishMessageKeeps, DiscardMessageKeeps, MessageAgesKeeps, DeliverKeeps,
     TakeMessageKeeps
<1>10. CASE UNCHANGED consumerVars
  <2> USE <1>10 DEF consumerVars
  <2>1. ConsumerTypeOK'
    BY DEF ConsumerInv, ConsumerTypeOK
  <2>2. ThresholdsAct(circuit)' /\ DurablesAccounted' /\ StoppedIsEmpty' /\ DeliveriesAccounted'
    BY DEF ConsumerInv, DurablesAccounted, StoppedIsEmpty, DeliveriesAccounted, Undecided, NoCopies
  <2> QED
    BY <2>1, <2>2 DEF ConsumerInv
<1> QED
  BY <1>1, <1>2, <1>3, <1>4, <1>5, <1>6, <1>7, <1>8, <1>9, <1>10 DEF ConsumerNext

LEMMA ConsumerInvHolds == ConsumerSpec => []ConsumerInv
BY ConsumerInitInv, ConsumerNextKeeps, PTL DEF ConsumerSpec

\* The account bounds the sagas: by the deliveries of the durables there are.
LEMMA AccountBounds == ConsumerInv => SagasAreBounded
<1> SUFFICES ASSUME ConsumerInv, NEW m \in Messages
             PROVE  sagas[m] <= MaxDeliver * DurableBudget
  BY DEF SagasAreBounded
<1>1. /\ durables \in Nat /\ starts \in Nat /\ MaxDeliver \in Nat /\ sagas[m] \in Nat
      /\ copies[m] \in Nat /\ deliveries[m] \in Nat /\ deliveries[m] <= MaxDeliver
      /\ Undecided(m) \in Nat
  BY ConsumerAssumption DEF ConsumerInv, ConsumerTypeOK, Undecided
<1>2. DurableBudget \in Nat /\ durables <= DurableBudget
  BY <1>1 DEF DurableBudget, ConsumerInv, DurablesAccounted
<1>3. /\ MaxDeliver * durables \in Nat /\ MaxDeliver * DurableBudget \in Nat
      /\ MaxDeliver * durables <= MaxDeliver * DurableBudget
  BY <1>1, <1>2, Monotonic
<1>4. sagas[m] <= MaxDeliver * durables
  <2>1. CASE durables = 0
    BY <2>1, <1>1, <1>3 DEF ConsumerInv, DeliveriesAccounted
  <2>2. CASE durables > 0
    <3>1. sagas[m] + copies[m] + Undecided(m) + MaxDeliver <= MaxDeliver * durables + deliveries[m]
      BY <2>2 DEF ConsumerInv, DeliveriesAccounted
    <3> QED
      BY <1>1, <1>3, <3>1
  <2> QED
    BY <1>1, <2>1, <2>2
<1> QED
  BY <1>1, <1>3, <1>4

\* Whatever the saga consumers' loop, its handlers, JetStream and restarts do in
\* whatever order, their state keeps its type: no message is delivered more than
\* max_deliver times by one durable and none is left in hand between iterations.
THEOREM ConsumerTypeCorrect == ConsumerSpec => []ConsumerTypeOK
<1>1. ConsumerInv => ConsumerTypeOK
  BY DEF ConsumerInv
<1> QED
  BY <1>1, ConsumerInvHolds, PTL

\* For any max_deliver and any number of messages, restarts, lost acknowledgements
\* and redeliveries, a saga consumer starts at most max_deliver sagas for a message,
\* and the one with a new durable name at each start that many for each start.
THEOREM ConsumerSagasBounded == ConsumerSpec => []SagasAreBounded
BY ConsumerInvHolds, AccountBounds, PTL
=============================================================================
