--------------------------- MODULE MCJobExecution ---------------------------
(* Instances of JobExecution for TLC.  The queue is explored in two parts: all *)
(* handlers while no worker is there, and the requests that create, schedule   *)
(* or cancel jobs beside the dispatcher while a worker is ready.               *)
EXTENDS JobExecution

CONSTANTS j1, j2, w1, w2, t1, t2, d1, d2

NoWorkers == \A w \in Workers : workers[w].state = "None"

QueueInit ==
    \/ Init
    \/ /\ Init!1 /\ Init!2 /\ Init!4 /\ Init!5 /\ Init!6 /\ Init!7
       /\ workers = [w \in Workers |-> [state |-> "Ready", job |-> NoJob]]

QueueNext ==
    \/ NoWorkers /\ Next /\ UNCHANGED workers
    \/ /\ ~NoWorkers
       /\ \/ \E t \in Tasks, j \in Jobs : CreateJob(t, j) \/ ScheduleJob(t, j) \/ CancelJob(t, j)
          \/ \E t \in Tasks : Schedule(t) \/ QueueCall(t)
          \/ \E d \in Dispatchers : Dispatch(d)
          \/ \E t \in Threads : Save(t) \/ Abort(t)

\* The fairness of FairSpec.
QueueSpec ==
    /\ QueueInit /\ [][QueueNext]_vars
    /\ \A d \in Dispatchers : WF_vars(Dispatch(d) /\ UNCHANGED workers)
    /\ \A t \in Tasks \cup Dispatchers, j \in Jobs : SF_vars(tasks[t].row = j /\ Dequeue(t))
=============================================================================
