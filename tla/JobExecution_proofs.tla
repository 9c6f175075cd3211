------------------------ MODULE JobExecution_proofs ------------------------
EXTENDS JobExecution, SequenceTheorems, FiniteSetTheorems, TLAPS

-----------------------------------------------------------------------------
(* The queue as a sequence.                                                *)

\* Queued yields a queue with the job in it and every other job as before.
LEMMA QueuedProps ==
    ASSUME NEW q \in Seq(Jobs), NEW j \in Jobs
    PROVE  /\ Queued(q, j) \in Seq(Jobs)
           /\ Contains(Queued(q, j), j)
           /\ \A k \in Jobs : k # j => (Contains(Queued(q, j), k) <=> Contains(q, k))
           /\ Keyed(q) => Keyed(Queued(q, j))
           /\ \A i \in 1 .. Len(Queued(q, j)) : Queued(q, j)[i] = j \/ Contains(q, Queued(q, j)[i])
  <1>1. CASE Contains(q, j)
    BY <1>1 DEF Queued, Contains
  <1>2. CASE ~Contains(q, j)
    <2> DEFINE r == Append(q, j)
    <2>1. Queued(q, j) = r
      BY <1>2 DEF Queued
    <2>2. /\ r \in Seq(Jobs) /\ Len(r) = Len(q) + 1 /\ r[Len(q) + 1] = j
          /\ \A i \in 1 .. Len(q) : r[i] = q[i]
      OBVIOUS
    <2>3. Contains(r, j)
      BY <2>2 DEF Contains
    <2>4. \A k \in Jobs : k # j => (Contains(r, k) <=> Contains(q, k))
      BY <2>2 DEF Contains
    <2>5. Keyed(q) => Keyed(r)
      BY <1>2, <2>2 DEF Keyed, Contains
    <2>6. \A i \in 1 .. Len(r) : r[i] = j \/ Contains(q, r[i])
      BY <2>2 DEF Contains
    <2> QED
      BY <2>1, <2>2, <2>3, <2>4, <2>5, <2>6
  <1> QED
    BY <1>1, <1>2

\* Deleting the row of a keyed queue removes that job and no other.
LEMMA RemoveAtProps ==
    ASSUME NEW q \in Seq(Jobs), NEW i \in 1 .. Len(q)
    PROVE  /\ RemoveAt(q, i) \in Seq(Jobs)
           /\ \A k \in Jobs : k # q[i] => (Contains(RemoveAt(q, i), k) <=> Contains(q, k))
           /\ Keyed(q) => Keyed(RemoveAt(q, i)) /\ ~Contains(RemoveAt(q, i), q[i])
           /\ \A k \in 1 .. Len(RemoveAt(q, i)) : Contains(q, RemoveAt(q, i)[k])
  <1> DEFINE r == RemoveAt(q, i)
             front == SubSeq(q, 1, i - 1)
             back  == SubSeq(q, i + 1, Len(q))
  <1>1. /\ r \in Seq(Jobs) /\ Len(r) = Len(q) - 1
        /\ \A k \in 1 .. (i - 1) : r[k] = q[k]
        /\ \A k \in i .. (Len(q) - 1) : r[k] = q[k + 1]
    <2>1. /\ front \in Seq(Jobs) /\ Len(front) = i - 1
          /\ \A k \in 1 .. (i - 1) : front[k] = q[k]
      BY SubSeqProperties
    <2>2. /\ back \in Seq(Jobs) /\ Len(back) = Len(q) - i
          /\ \A k \in 1 .. (Len(q) - i) : back[k] = q[i + k]
      <3>1. CASE i = Len(q)
        BY <3>1, SubSeqProperties
      <3>2. CASE i < Len(q)
        BY <3>2, SubSeqProperties
      <3> QED
        BY <3>1, <3>2
    <2>3. r = front \o back
      BY DEF RemoveAt
    <2> HIDE DEF front, back, r
    <2>4. /\ r \in Seq(Jobs) /\ Len(r) = Len(front) + Len(back)
          /\ \A k \in 1 .. (Len(front) + Len(back)) :
                r[k] = IF k <= Len(front) THEN front[k] ELSE back[k - Len(front)]
      BY <2>1, <2>2, <2>3, ConcatProperties, Zenon
    <2>5. \A k \in 1 .. (i - 1) : r[k] = q[k]
      <3> SUFFICES ASSUME NEW k \in 1 .. (i - 1) PROVE r[k] = q[k]
        OBVIOUS
      <3>1. k \in 1 .. (Len(front) + Len(back)) /\ k <= Len(front)
        BY <2>1, <2>2
      <3>2. r[k] = front[k]
        BY <2>4, <3>1
      <3> QED
        BY <2>1, <3>2
    <2>6. \A k \in i .. (Len(q) - 1) : r[k] = q[k + 1]
      <3> SUFFICES ASSUME NEW k \in i .. (Len(q) - 1) PROVE r[k] = q[k + 1]
        OBVIOUS
      <3>1. k \in 1 .. (Len(front) + Len(back)) /\ ~(k <= Len(front))
        BY <2>1, <2>2
      <3>2. r[k] = back[k - (i - 1)]
        BY <2>1, <2>4, <3>1
      <3>3. k - (i - 1) \in 1 .. (Len(q) - i) /\ i + (k - (i - 1)) = k + 1
        OBVIOUS
      <3> QED
        BY <2>2, <3>2, <3>3
    <2>7. Len(r) = Len(q) - 1
      BY <2>1, <2>2, <2>4
    <2> QED
      BY <2>4, <2>5, <2>6, <2>7, Zenon
  <1> HIDE DEF r
  <1>2. ASSUME NEW k \in Jobs, k # q[i]
        PROVE  Contains(r, k) <=> Contains(q, k)
    <2>1. ASSUME NEW n \in 1 .. Len(r), r[n] = k PROVE Contains(q, k)
      <3>1. CASE n < i
        BY <1>1, <2>1, <3>1 DEF Contains
      <3>2. CASE n >= i
        BY <1>1, <2>1, <3>2 DEF Contains
      <3> QED
        BY <3>1, <3>2
    <2>2. ASSUME NEW n \in 1 .. Len(q), q[n] = k PROVE Contains(r, k)
      <3>1. CASE n < i
        BY <1>1, <2>2, <3>1 DEF Contains
      <3>2. CASE n > i
        <4>1. n - 1 \in i .. (Len(q) - 1) /\ n - 1 \in 1 .. Len(r) /\ r[n - 1] = k
          BY <1>1, <2>2, <3>2
        <4> QED
          BY <4>1 DEF Contains
      <3> QED
        BY <1>2, <2>2, <3>1, <3>2
    <2> QED
      BY <2>1, <2>2 DEF Contains
  <1>3. Keyed(q) => Keyed(r) /\ ~Contains(r, q[i])
    <2> SUFFICES ASSUME Keyed(q) PROVE Keyed(r) /\ ~Contains(r, q[i])
      OBVIOUS
    <2> DEFINE old(k) == IF k < i THEN k ELSE k + 1
    <2>1. \A k \in 1 .. Len(r) : old(k) \in 1 .. Len(q) /\ old(k) # i /\ r[k] = q[old(k)]
      BY <1>1
    <2>2. \A k, n \in 1 .. Len(r) : old(k) = old(n) => k = n
      BY <1>1
    <2> HIDE DEF old
    <2>3. ~Contains(r, q[i])
      BY <2>1 DEF Contains, Keyed
    <2>4. Keyed(r)
      BY <2>1, <2>2 DEF Keyed
    <2> QED
      BY <2>3, <2>4
  <1>4. \A k \in 1 .. Len(r) : Contains(q, r[k])
    <2> SUFFICES ASSUME NEW k \in 1 .. Len(r) PROVE Contains(q, r[k])
      OBVIOUS
    <2>1. CASE k < i
      BY <1>1, <2>1 DEF Contains
    <2>2. CASE k >= i
      BY <1>1, <2>2 DEF Contains
    <2> QED
      BY <2>1, <2>2
  <1> QED
    BY <1>1, <1>2, <1>3, <1>4 DEF r

\* An element of an extended sequence is the new one or an old one.
LEMMA AppendElement ==
    ASSUME NEW S, NEW s \in Seq(S), NEW m \in S, NEW i \in 1 .. Len(Append(s, m))
    PROVE  Append(s, m)[i] = m \/ (i \in 1 .. Len(s) /\ Append(s, m)[i] = s[i])
  <1>1. CASE i = Len(s) + 1
    BY <1>1
  <1>2. CASE i # Len(s) + 1
    BY <1>2
  <1> QED
    BY <1>1, <1>2

-----------------------------------------------------------------------------
(* The aggregate and the shapes of steps.                                  *)

\* Every method of the aggregate leaves a job behind, or nothing.
LEMMA MethodsTyped ==
    ASSUME NEW job \in Job
    PROVE  /\ \A s \in JobState : SetState(job, s) \subseteq Job
           /\ \A s \in JobState : Complete(job, s) \subseteq Job
           /\ SubmitToProvider(job) \subseteq Job
           /\ AssignToProvider(job) \subseteq Job
           /\ MarkRunning(job) \subseteq Job
           /\ Fail(job) \subseteq Job
           /\ Cancel(job) \subseteq Job
           /\ TimeOut(job) \subseteq Job
           /\ PrepareRetry(job) \subseteq Job
  <1>0. NewJob \in Job
    BY DEF NewJob, Job, JobState
  <1>1. \A s \in JobState : SetState(job, s) \subseteq Job
    BY DEF SetState, Job
  <1>2. \A s \in JobState : Complete(job, s) \subseteq Job
    BY <1>1 DEF Complete, Job
  <1>3. SubmitToProvider(job) \subseteq Job /\ Cancel(job) \subseteq Job /\ MarkRunning(job) \subseteq Job
    <2>1. /\ SetState(job, "Scheduled") \subseteq Job
          /\ SetState(job, "Cancelled") \subseteq Job
          /\ SetState(job, "Running") \subseteq Job
      BY <1>1 DEF JobState
    <2>2. ASSUME NEW j \in Job PROVE [j EXCEPT !.ctx = TRUE] \in Job /\ [j EXCEPT !.done = TRUE] \in Job
      BY Zenon DEF Job
    <2> QED
      BY <2>1, <2>2 DEF SubmitToProvider, Cancel, MarkRunning
  <1>4. Fail(job) \subseteq Job /\ TimeOut(job) \subseteq Job
    <2>1. ASSUME NEW j \in Job
          PROVE  [j EXCEPT !.done = TRUE, !.attempts = @ + 1] \in Job
      <3>0. j.attempts + 1 \in Nat
        BY DEF Job
      <3>1. [j EXCEPT !.done = TRUE] \in Job
        BY Zenon DEF Job
      <3>2. ASSUME NEW k \in Job, NEW n \in Nat PROVE [k EXCEPT !.attempts = n] \in Job
        BY DEF Job
      <3> QED
        BY <3>0, <3>1, <3>2
    <2>2. SetState(job, "Failed") \subseteq Job /\ SetState(job, "Timeout") \subseteq Job
      BY <1>1 DEF JobState
    <2> QED
      BY <2>1, <2>2 DEF Fail, TimeOut
  <1>5. AssignToProvider(job) \subseteq Job
    BY DEF AssignToProvider, Job, JobState
  <1>6. PrepareRetry(job) \subseteq Job
    BY <1>0 DEF PrepareRetry, Job
  <1> QED
    BY <1>1, <1>2, <1>3, <1>4, <1>5, <1>6

\* Rows of the jobs table are never deleted by a step.
RowsStay == \A k \in Jobs : jobs[k] # NoJob => jobs'[k] # NoJob

\* r may be the handler of a thread in the next state.
Fits(r) ==
    /\ r \in Task
    /\ r.op \notin {"idle", "on_worker_heartbeat", "dispatch_once"} =>
          r.job \in Jobs /\ jobs'[r.job] # NoJob
    /\ r.pc \in QueuePcs => r.row \in Jobs /\ jobs'[r.row] # NoJob
    /\ r.op = "complete_job_command" => r.copy.state # "Pending"

\* A step that moves one thread to a fitting handler keeps the handlers sound.
LEMMA OneHandlerMoves ==
    ASSUME TypeInv, RowsStay, NEW t \in Threads, NEW r, Fits(r),
           tasks' = [tasks EXCEPT ![t] = r]
    PROVE  tasks' \in [Threads -> Task] /\ HandlersHaveJobs'
  <1>1. /\ tasks' \in [Threads -> Task]
        /\ tasks'[t] = r
        /\ \A u \in Threads : u # t => tasks'[u] = tasks[u]
    BY DEF TypeInv, TypeOK, Fits
  <1>2. ASSUME NEW u \in Threads
        PROVE  /\ tasks'[u].op \notin {"idle", "on_worker_heartbeat", "dispatch_once"} =>
                     tasks'[u].job \in Jobs /\ jobs'[tasks'[u].job] # NoJob
               /\ tasks'[u].pc \in QueuePcs => tasks'[u].row \in Jobs /\ jobs'[tasks'[u].row] # NoJob
               /\ tasks'[u].op = "complete_job_command" => tasks'[u].copy.state # "Pending"
    BY <1>1 DEF TypeInv, HandlersHaveJobs, RowsStay, Fits
  <1> QED
    BY <1>1, <1>2 DEF HandlersHaveJobs

LEMMA FinishTyped == Idle \in Task /\ Idle.op = "idle"
  BY DEF Idle, Task, NewJob, Job, JobState

\* A handler that ends.
LEMMA FinishKeeps ==
    ASSUME TypeInv, RowsStay, NEW t \in Threads, Finish(t)
    PROVE  tasks' \in [Threads -> Task] /\ HandlersHaveJobs'
  <1>1. Fits(Idle)
    BY DEF Fits, Idle, Task, NewJob, Job, JobState, QueuePcs
  <1> QED
    BY <1>1, OneHandlerMoves DEF Finish

\* A handler that goes on as another record with the same operation, job and copy.
LEMMA GoesOnKeeps ==
    ASSUME TypeInv, RowsStay, NEW t \in Threads, NEW r \in Task,
           tasks' = [tasks EXCEPT ![t] = r],
           r.op = tasks[t].op, r.job = tasks[t].job, r.copy = tasks[t].copy,
           r.pc \in QueuePcs => r.row \in Jobs /\ jobs[r.row] # NoJob
    PROVE  tasks' \in [Threads -> Task] /\ HandlersHaveJobs'
  <1>1. Fits(r)
    BY DEF Fits, TypeInv, HandlersHaveJobs, RowsStay
  <1> QED
    BY <1>1, OneHandlerMoves

\* A handler that goes on, outside the queue.
LEMMA GotoKeeps ==
    ASSUME TypeInv, RowsStay, NEW t \in Threads, NEW pc \in {"count", "write", "after"}, Goto(t, pc)
    PROVE  tasks' \in [Threads -> Task] /\ HandlersHaveJobs'
  <1> DEFINE r == [tasks[t] EXCEPT !.pc = pc]
  <1>0. tasks[t] \in Task
    BY DEF TypeInv, TypeOK
  <1>1. r \in Task /\ r.op = tasks[t].op /\ r.job = tasks[t].job /\ r.copy = tasks[t].copy /\ r.pc = pc
    BY <1>0 DEF Task
  <1>2. r.pc \notin QueuePcs
    BY <1>1 DEF QueuePcs
  <1>3. tasks' = [tasks EXCEPT ![t] = r]
    BY DEF Goto
  <1> QED
    BY <1>1, <1>2, <1>3, GoesOnKeeps

\* A handler that starts on a job that exists.
LEMMA StartKeeps ==
    ASSUME TypeInv, RowsStay, NEW t \in Threads, NEW op, NEW pc \in {"before", "write"},
           NEW j \in Jobs, NEW w \in Workers \cup {NoWorker}, NEW copy \in Job,
           op \in SaveOps \cup {"complete_job_command", "schedule_read"},
           op = "complete_job_command" => copy.state # "Pending",
           jobs'[j] # NoJob, Start(t, op, pc, j, w, copy)
    PROVE  tasks' \in [Threads -> Task] /\ HandlersHaveJobs'
  <1> DEFINE r == [ op |-> op, pc |-> pc, job |-> j, worker |-> w, copy |-> copy,
                    row |-> NoJob, queued |-> FALSE, left |-> 0 ]
  <1>1. r \in Task
    BY DEF Task
  <1>2. r.pc \notin QueuePcs
    BY DEF QueuePcs
  <1>3. Fits(r)
    BY <1>1, <1>2 DEF Fits
  <1> QED
    BY <1>3, OneHandlerMoves DEF Start

\* Agents that do not move keep on having jobs.
LEMMA AgentsKeep ==
    ASSUME TypeInv, RowsStay, UNCHANGED agents
    PROVE  AgentsHaveJobs' /\ running' \in [Workers -> SUBSET Jobs] /\ stream' \in [Workers -> Seq(Message)]
  <1>1. /\ running \in [Workers -> SUBSET Jobs]
        /\ stream \in [Workers -> Seq(Message)]
        /\ running' = running
        /\ stream' = stream
    BY DEF TypeInv, TypeOK, agents
  <1>2. ASSUME NEW w \in Workers, NEW j \in running'[w] PROVE jobs'[j] # NoJob
    BY <1>1 DEF TypeInv, AgentsHaveJobs, RowsStay
  <1>3. ASSUME NEW w \in Workers, NEW i \in 1 .. Len(stream'[w]) PROVE jobs'[stream'[w][i].job] # NoJob
    <2>1. stream[w][i] \in Message /\ stream'[w][i] = stream[w][i]
      BY <1>1
    <2> QED
      BY <1>1, <2>1 DEF TypeInv, AgentsHaveJobs, RowsStay, Message
  <1> QED
    BY <1>1, <1>2, <1>3 DEF AgentsHaveJobs

\* The reading half of a handler.
LEMMA ReadModifyKeeps ==
    ASSUME TypeInv, NEW t \in Threads, NEW op \in SaveOps \cup {"complete_job_command"},
           NEW pc \in {"before", "write"}, NEW j \in Jobs, NEW w \in Workers \cup {NoWorker},
           NEW results, jobs[j] # NoJob => results \subseteq Job,
           op = "complete_job_command" => \A copy \in results : copy.state # "Pending",
           ReadModify(t, op, pc, j, w, results)
    PROVE  TypeInv'
  <1>1. RowsStay
    BY DEF ReadModify, RowsStay, tables
  <1>2. PICK copy \in results : Start(t, op, pc, j, w, copy)
    BY DEF ReadModify
  <1>3. tasks' \in [Threads -> Task] /\ HandlersHaveJobs'
    BY <1>1, <1>2, StartKeeps DEF ReadModify, RowsStay
  <1>4. AgentsHaveJobs' /\ running' \in [Workers -> SUBSET Jobs] /\ stream' \in [Workers -> Seq(Message)]
    BY <1>1, AgentsKeep DEF ReadModify
  <1> QED
    BY <1>3, <1>4 DEF TypeInv, TypeOK, ReadModify, tables

\* A step of a handler that writes at most the jobs and the queue.
LEMMA SaveRowKeeps ==
    ASSUME TypeInv, NEW j \in Jobs, NEW copy \in Job, SaveRow(j, copy)
    PROVE  /\ jobs' \in [Jobs -> Job \cup {NoJob}]
           /\ queue' \in Seq(Jobs)
           /\ RowsStay
  <1>1. copy # NoJob
    BY JobExecutionAssumption
  <1>2. jobs' \in [Jobs -> Job \cup {NoJob}] /\ RowsStay
    BY <1>1 DEF SaveRow, TypeInv, TypeOK, RowsStay
  <1>3. queue' \in Seq(Jobs)
    BY QueuedProps DEF SaveRow, TypeInv, TypeOK
  <1> QED
    BY <1>2, <1>3

LEMMA UpdateStateKeeps ==
    ASSUME TypeInv, NEW j \in Jobs, jobs[j] # NoJob, NEW s \in JobState, UpdateState(j, s)
    PROVE  jobs' \in [Jobs -> Job \cup {NoJob}] /\ RowsStay
  <1> DEFINE row == [jobs[j] EXCEPT !.state = s]
  <1>1. row \in Job
    BY DEF TypeInv, TypeOK, Job
  <1>2. row # NoJob
    BY <1>1, JobExecutionAssumption
  <1> QED
    BY <1>1, <1>2 DEF UpdateState, TypeInv, TypeOK, RowsStay

\* The writes to the workers table.
LEMMA WorkerWrites ==
    ASSUME TypeInv, NEW w \in Workers
    PROVE  /\ \A j \in Jobs : Register(w, j) => workers' \in [Workers -> WorkerRow]
           /\ \A s \in WorkerState : SetWorker(w, s) => workers' \in [Workers -> WorkerRow]
           /\ \A j \in Jobs : AssignToJob(w, j) => workers' \in [Workers -> WorkerRow]
           /\ ReleaseFromJob(w) => workers' \in [Workers -> WorkerRow]
  <1>0. workers \in [Workers -> WorkerRow]
    BY DEF TypeInv, TypeOK
  <1>1. \A j \in Jobs : Register(w, j) => workers' \in [Workers -> WorkerRow]
    BY <1>0 DEF WorkerRow, WorkerState, Register
  <1>2. \A s \in WorkerState : SetWorker(w, s) => workers' \in [Workers -> WorkerRow]
    <2> SUFFICES ASSUME NEW s \in WorkerState, SetWorker(w, s) PROVE workers' \in [Workers -> WorkerRow]
      OBVIOUS
    <2>1. [workers[w] EXCEPT !.state = s] \in WorkerRow
      BY <1>0 DEF WorkerRow
    <2> QED
      BY <1>0, <2>1 DEF SetWorker
  <1>3. \A j \in Jobs : AssignToJob(w, j) => workers' \in [Workers -> WorkerRow]
    BY <1>0 DEF WorkerRow, WorkerState, AssignToJob
  <1>4. ReleaseFromJob(w) => workers' \in [Workers -> WorkerRow]
    BY <1>0 DEF WorkerRow, WorkerState, ReleaseFromJob
  <1> QED
    BY <1>1, <1>2, <1>3, <1>4

\* A step that ends in Finish or Goto and leaves jobs, queue and agents alone.
LEMMA TailKeeps ==
    ASSUME TypeInv, NEW t \in Threads,
           Finish(t) \/ (\E pc \in {"count", "write", "after"} : Goto(t, pc)),
           UNCHANGED << jobs, queue, agents >>,
           workers' \in [Workers -> WorkerRow], terminating' \in SUBSET Workers
    PROVE  TypeInv'
  <1>1. RowsStay
    BY DEF RowsStay
  <1>2. tasks' \in [Threads -> Task] /\ HandlersHaveJobs'
    BY <1>1, FinishKeeps, GotoKeeps
  <1>3. AgentsHaveJobs' /\ running' \in [Workers -> SUBSET Jobs] /\ stream' \in [Workers -> Seq(Message)]
    BY <1>1, AgentsKeep
  <1> QED
    BY <1>2, <1>3 DEF TypeInv, TypeOK

\* A step of one statement on the jobs table, outside any handler in flight.
LEMMA JobsOnlyKeeps ==
    ASSUME TypeInv, RowsStay, jobs' \in [Jobs -> Job \cup {NoJob}], queue' \in Seq(Jobs),
           workers' \in [Workers -> WorkerRow], UNCHANGED << agents, terminating >>,
           tasks' \in [Threads -> Task], HandlersHaveJobs'
    PROVE  TypeInv'
  <1>1. AgentsHaveJobs' /\ running' \in [Workers -> SUBSET Jobs] /\ stream' \in [Workers -> Seq(Message)]
    BY AgentsKeep
  <1> QED
    BY <1>1 DEF TypeInv, TypeOK

LEMMA IdleHandlersKeep ==
    ASSUME TypeInv, RowsStay, UNCHANGED tasks
    PROVE  tasks' \in [Threads -> Task] /\ HandlersHaveJobs'
  BY DEF TypeInv, TypeOK, HandlersHaveJobs, RowsStay

LEMMA RequestKeepsType ==
    ASSUME TypeInv, NEW t \in Tasks, Request(t)
    PROVE  TypeInv'
  <1> t \in Threads
    BY DEF Threads
  <1> PICK j \in Jobs :
        \/ CreateJob(t, j) \/ ScheduleJob(t, j) \/ CancelJob(t, j) \/ RetryJob(t, j)
        \/ StartJob(t, j) \/ UpdateProgress(t, j) \/ CompleteJob(t, j) \/ FailJob(t, j)
        \/ TimeoutJob(t, j) \/ RequestWorkerProvisioning(t, j)
        \/ \E s \in {"Succeeded", "Failed"} : CompleteJobCommand(t, j, s)
        \/ \E w \in Workers : AssignJob(t, j, w) \/ AssignWorker(t, j, w) \/ ExecuteJob(t, j, w)
    BY DEF Request
  <1>0. jobs[j] # NoJob => jobs[j] \in Job
    BY DEF TypeInv, TypeOK
  <1>m. jobs[j] # NoJob =>
           /\ \A s \in JobState : SetState(jobs[j], s) \subseteq Job
           /\ \A s \in JobState : Complete(jobs[j], s) \subseteq Job
           /\ SubmitToProvider(jobs[j]) \subseteq Job
           /\ AssignToProvider(jobs[j]) \subseteq Job
           /\ MarkRunning(jobs[j]) \subseteq Job
           /\ Fail(jobs[j]) \subseteq Job
           /\ Cancel(jobs[j]) \subseteq Job
           /\ PrepareRetry(jobs[j]) \subseteq Job
    BY <1>0, MethodsTyped
  <1>s. {"Assigned", "Succeeded", "Failed"} \subseteq JobState
    BY DEF JobState
  <1>1. CASE CreateJob(t, j)
    <2>1. NewJob \in Job
      BY DEF NewJob, Job, JobState
    <2>2. jobs' \in [Jobs -> Job \cup {NoJob}] /\ queue' \in Seq(Jobs) /\ RowsStay
      BY <1>1, <2>1, SaveRowKeeps DEF CreateJob
    <2>3. tasks' \in [Threads -> Task] /\ HandlersHaveJobs'
      BY <1>1, <2>2, IdleHandlersKeep DEF CreateJob
    <2> QED
      BY <1>1, <2>2, <2>3, JobsOnlyKeeps DEF CreateJob, TypeInv, TypeOK
  <1>2. CASE CancelJob(t, j)
    BY <1>2, <1>m, ReadModifyKeeps DEF CancelJob, SaveOps
  <1>3. CASE RetryJob(t, j)
    BY <1>3, <1>m, ReadModifyKeeps DEF RetryJob, SaveOps
  <1>4. CASE StartJob(t, j)
    <2>1. jobs[j] # NoJob => WithContext(j, MarkRunning(jobs[j])) \subseteq Job
      BY <1>m DEF WithContext
    <2> QED
      BY <1>4, <2>1, ReadModifyKeeps DEF StartJob, SaveOps
  <1>5. CASE UpdateProgress(t, j)
    <2>1. jobs[j] # NoJob => WithContext(j, {jobs[j]}) \subseteq Job
      BY <1>0 DEF WithContext
    <2> QED
      BY <1>5, <2>1, ReadModifyKeeps DEF UpdateProgress, SaveOps
  <1>6. CASE CompleteJob(t, j)
    <2>1. jobs[j] # NoJob => WithContext(j, Complete(jobs[j], "Succeeded")) \subseteq Job
      BY <1>m, <1>s DEF WithContext
    <2> QED
      BY <1>6, <2>1, ReadModifyKeeps DEF CompleteJob, SaveOps
  <1>7. CASE FailJob(t, j)
    <2>1. jobs[j] # NoJob => WithContext(j, Fail(jobs[j])) \subseteq Job
      BY <1>m DEF WithContext
    <2> QED
      BY <1>7, <2>1, ReadModifyKeeps DEF FailJob, SaveOps
  <1>8. CASE TimeoutJob(t, j)
    BY <1>8, <1>m, ReadModifyKeeps DEF TimeoutJob, SaveOps
  <1>9. CASE RequestWorkerProvisioning(t, j)
    BY <1>9, <1>m, ReadModifyKeeps DEF RequestWorkerProvisioning, SaveOps
  <1>10. ASSUME NEW s \in {"Succeeded", "Failed"}, CompleteJobCommand(t, j, s) PROVE TypeInv'
    <2>1. jobs[j] # NoJob => SetState(jobs[j], s) \subseteq Job
      BY <1>m, <1>s
    <2>2. jobs[j] # NoJob => \A copy \in SetState(jobs[j], s) : copy.state # "Pending"
      BY <1>0 DEF SetState, Job
    <2>3. jobs[j] # NoJob
      BY <1>10 DEF CompleteJobCommand, ReadModify
    <2> QED
      BY <1>10, <2>1, <2>2, <2>3, ReadModifyKeeps DEF CompleteJobCommand
  <1>11. ASSUME NEW w \in Workers, AssignJob(t, j, w) PROVE TypeInv'
    BY <1>11, <1>m, ReadModifyKeeps DEF AssignJob, SaveOps
  <1>12. ASSUME NEW w \in Workers, AssignWorker(t, j, w) PROVE TypeInv'
    <2>1. jobs[j] # NoJob => SetState(jobs[j], "Assigned") \subseteq Job
      BY <1>m, <1>s
    <2> QED
      BY <1>12, <2>1, ReadModifyKeeps DEF AssignWorker, SaveOps
  <1>13. ASSUME NEW w \in Workers, ExecuteJob(t, j, w) PROVE TypeInv'
    <2>1. RowsStay /\ jobs[j] # NoJob /\ UNCHANGED << jobs, queue, workers, terminating >>
      BY <1>13 DEF ExecuteJob, RowsStay, tables
    <2>2. tasks' \in [Threads -> Task] /\ HandlersHaveJobs'
      <3>1. CASE UNCHANGED tasks
        BY <2>1, <3>1, IdleHandlersKeep
      <3>2. ASSUME NEW copy \in MarkRunning(jobs[j]), Start(t, "execute_job", "write", j, w, copy)
            PROVE  tasks' \in [Threads -> Task] /\ HandlersHaveJobs'
        BY <1>m, <2>1, <3>2, StartKeeps DEF SaveOps, RowsStay
      <3> QED
        BY <1>13, <3>1, <3>2 DEF ExecuteJob
    <2> DEFINE m == [type |-> "ack", job |-> j]
    <2>3. /\ running \in [Workers -> SUBSET Jobs]
          /\ stream \in [Workers -> Seq(Message)]
          /\ m \in Message
          /\ m.job = j
      BY DEF TypeInv, TypeOK, Message
    <2>4. /\ running' = [running EXCEPT ![w] = @ \cup {j}]
          /\ stream' = [stream EXCEPT ![w] = Append(@, m)]
      BY <1>13 DEF ExecuteJob
    <2> HIDE DEF m
    <2>5. running' \in [Workers -> SUBSET Jobs] /\ stream' \in [Workers -> Seq(Message)]
      BY <2>3, <2>4
    <2>6. ASSUME NEW v \in Workers, NEW k \in running'[v] PROVE jobs'[k] # NoJob
      BY <2>1, <2>3, <2>4 DEF TypeInv, AgentsHaveJobs
    <2>7. ASSUME NEW v \in Workers, NEW i \in 1 .. Len(stream'[v]) PROVE jobs'[stream'[v][i].job] # NoJob
      <3>1. stream[v] \in Seq(Message)
        BY <2>3
      <3>2. stream'[v] = stream[v] \/ stream'[v] = Append(stream[v], m)
        BY <2>3, <2>4
      <3>3. stream'[v][i] = m \/ (i \in 1 .. Len(stream[v]) /\ stream'[v][i] = stream[v][i])
        BY <2>3, <2>7, <3>1, <3>2, AppendElement
      <3> QED
        BY <2>1, <2>3, <3>3 DEF TypeInv, AgentsHaveJobs
    <2> QED
      BY <2>1, <2>2, <2>5, <2>6, <2>7 DEF TypeInv, TypeOK, AgentsHaveJobs
  <1>14. CASE ScheduleJob(t, j)
    <2>1. NewJob \in Job
      BY DEF NewJob, Job, JobState
    <2>2. jobs' \in [Jobs -> Job \cup {NoJob}] /\ queue' \in Seq(Jobs) /\ RowsStay
      BY <1>14, <2>1, SaveRowKeeps DEF ScheduleJob
    <2>3. jobs'[j] # NoJob
      BY <1>14, <2>1, JobExecutionAssumption DEF ScheduleJob, SaveRow, TypeInv, TypeOK
    <2>4. tasks' \in [Threads -> Task] /\ HandlersHaveJobs'
      BY <1>14, <2>1, <2>2, <2>3, StartKeeps DEF ScheduleJob
    <2> QED
      BY <1>14, <2>2, <2>4, JobsOnlyKeeps DEF ScheduleJob, TypeInv, TypeOK
  <1> QED
    BY <1>1, <1>2, <1>3, <1>4, <1>5, <1>6, <1>7, <1>8, <1>9, <1>10, <1>11, <1>12, <1>13, <1>14

LEMMA ContinueKeepsType ==
    ASSUME TypeInv, NEW t \in Tasks, Continue(t)
    PROVE  TypeInv'
  <1> t \in Threads
    BY DEF Threads
  <1>0. /\ workers \in [Workers -> WorkerRow]
        /\ terminating \in SUBSET Workers
        /\ tasks[t] \in Task
    BY DEF TypeInv, TypeOK
  <1>j. tasks[t].op \notin {"idle", "on_worker_heartbeat", "dispatch_once"} =>
            tasks[t].job \in Jobs /\ jobs[tasks[t].job] # NoJob
    BY DEF TypeInv, HandlersHaveJobs
  <1>1. ASSUME NEW w \in Workers, AssignJobWorker(t, w) PROVE TypeInv'
    <2>1. tasks[t].job \in Jobs
      BY <1>1, <1>j DEF AssignJobWorker, At
    <2>2. workers' \in [Workers -> WorkerRow]
      BY <1>0, <1>1, <2>1, WorkerWrites DEF AssignJobWorker
    <2> QED
      BY <1>0, <1>1, <2>1, <2>2, TailKeeps DEF AssignJobWorker
  <1>2. ASSUME NEW w \in Workers, MarkWorkerBusy(t, w) PROVE TypeInv'
    <2>2. workers' \in [Workers -> WorkerRow]
      BY <1>0, <1>2, WorkerWrites DEF MarkWorkerBusy, WorkerState
    <2> QED
      BY <1>0, <1>2, <2>2, TailKeeps DEF MarkWorkerBusy
  <1>3. CASE CleanUpWorker(t)
    <2>1. Finish(t) /\ UNCHANGED << jobs, queue, agents >> /\ workers' \in [Workers -> WorkerRow]
      BY <1>0, <1>3 DEF CleanUpWorker, tables
    <2>2. terminating' \in SUBSET Workers
      BY <1>0, <1>3 DEF CleanUpWorker, WorkersOf, Terminated
    <2> QED
      BY <2>1, <2>2, TailKeeps
  <1>4. CASE CompleteJobSetState(t)
    <2>1. tasks[t].job \in Jobs /\ jobs[tasks[t].job] # NoJob
      BY <1>4, <1>j DEF CompleteJobSetState, At
    <2>2. tasks[t].copy.state \in JobState
      BY <1>0 DEF Task, Job
    <2>3. jobs' \in [Jobs -> Job \cup {NoJob}] /\ RowsStay
      BY <1>4, <2>1, <2>2, UpdateStateKeeps DEF CompleteJobSetState
    <2>4. tasks' \in [Threads -> Task] /\ HandlersHaveJobs'
      BY <1>4, <2>1, <2>3, FinishKeeps, GotoKeeps DEF CompleteJobSetState
    <2> QED
      BY <1>0, <1>4, <2>3, <2>4, JobsOnlyKeeps DEF CompleteJobSetState, TypeInv, TypeOK
  <1>5. CASE CompleteJobReleaseWorker(t)
    <2>1. workers' \in [Workers -> WorkerRow]
      BY <1>0, <1>5, WorkerWrites DEF CompleteJobReleaseWorker, WorkersOf, WorkerState
    <2> QED
      BY <1>0, <1>5, <2>1, TailKeeps DEF CompleteJobReleaseWorker
  <1>6. CASE ProvisionAfterAssign(t)
    <2>1. tasks[t].job \in Jobs
      BY <1>6, <1>j DEF ProvisionAfterAssign, At
    <2>2. workers' \in [Workers -> WorkerRow]
      BY <1>0, <1>6, <2>1, WorkerWrites DEF ProvisionAfterAssign, Provision
    <2> QED
      BY <1>0, <1>6, <2>2, TailKeeps DEF ProvisionAfterAssign
  <1> QED
    BY <1>1, <1>2, <1>3, <1>4, <1>5, <1>6 DEF Continue

\* An agent's step reports on a job it has, or forgets.
LEMMA AgentKeepsType ==
    ASSUME TypeInv, NEW w \in Workers, Agent(w)
    PROVE  TypeInv'
  <1>0. /\ running \in [Workers -> SUBSET Jobs]
        /\ stream \in [Workers -> Seq(Message)]
    BY DEF TypeInv, TypeOK
  <1>1. /\ UNCHANGED << jobs, queue, workers, tasks, terminating >>
        /\ \/ \E j \in running[w], type \in {"success", "failure", "timeout"} :
                 /\ running' = [running EXCEPT ![w] = @ \ {j}]
                 /\ stream' = [stream EXCEPT ![w] = Append(@, [type |-> type, job |-> j])]
           \/ /\ running' = [running EXCEPT ![w] = {}]
              /\ stream' = [stream EXCEPT ![w] = << >>]
    BY DEF Agent, AgentFinishes, AgentCrashes, tables
  <1>2. tasks' \in [Threads -> Task] /\ HandlersHaveJobs'
    BY <1>1, IdleHandlersKeep DEF RowsStay
  <1>3. running' \in [Workers -> SUBSET Jobs]
    BY <1>0, <1>1
  <1>4. ASSUME NEW v \in Workers, NEW k \in running'[v] PROVE jobs'[k] # NoJob
    BY <1>0, <1>1 DEF TypeInv, AgentsHaveJobs
  <1>5. CASE \E j \in running[w], type \in {"success", "failure", "timeout"} :
                stream' = [stream EXCEPT ![w] = Append(@, [type |-> type, job |-> j])]
    <2>0. PICK j \in running[w], type \in {"success", "failure", "timeout"} :
           stream' = [stream EXCEPT ![w] = Append(@, [type |-> type, job |-> j])]
      BY <1>5
    <2> DEFINE m == [type |-> type, job |-> j]
    <2>1. m \in Message /\ jobs[m.job] # NoJob
      BY <1>0 DEF Message, TypeInv, AgentsHaveJobs
    <2>2. stream' = [stream EXCEPT ![w] = Append(@, m)]
      BY <2>0
    <2> HIDE DEF m
    <2>3. stream' \in [Workers -> Seq(Message)]
      BY <1>0, <2>1, <2>2
    <2>4. ASSUME NEW v \in Workers, NEW i \in 1 .. Len(stream'[v]) PROVE jobs'[stream'[v][i].job] # NoJob
      <3>1. stream[v] \in Seq(Message)
        BY <1>0
      <3>2. stream'[v] = stream[v] \/ stream'[v] = Append(stream[v], m)
        BY <1>0, <2>2
      <3>3. stream'[v][i] = m \/ (i \in 1 .. Len(stream[v]) /\ stream'[v][i] = stream[v][i])
        <4>1. CASE stream'[v] = stream[v]
          BY <2>4, <4>1
        <4>2. CASE stream'[v] = Append(stream[v], m)
          BY <2>1, <2>4, <3>1, <4>2, AppendElement
        <4> QED
          BY <3>2, <4>1, <4>2
      <3> QED
        BY <1>1, <2>1, <3>3 DEF TypeInv, AgentsHaveJobs
    <2> QED
      BY <1>1, <1>2, <1>3, <1>4, <2>3, <2>4 DEF TypeInv, TypeOK, AgentsHaveJobs
  <1>6. CASE stream' = [stream EXCEPT ![w] = << >>]
    <2>1. stream' \in [Workers -> Seq(Message)]
      BY <1>0, <1>6
    <2>2. ASSUME NEW v \in Workers, NEW i \in 1 .. Len(stream'[v]) PROVE jobs'[stream'[v][i].job] # NoJob
      <3>1. stream'[v] = stream[v] \/ Len(stream'[v]) = 0
        BY <1>0, <1>6
      <3> QED
        BY <1>1, <2>2, <3>1 DEF TypeInv, AgentsHaveJobs
    <2> QED
      BY <1>1, <1>2, <1>3, <1>4, <2>1, <2>2 DEF TypeInv, TypeOK, AgentsHaveJobs
  <1> QED
    BY <1>1, <1>5, <1>6

\* The stream task consumes the message it acts on.
LEMMA ReceiveKeepsType ==
    ASSUME TypeInv, NEW w \in Workers, stream[w] # << >>, NEW op \in SaveOps, NEW results,
           results \subseteq Job, Receive(w, op, results)
    PROVE  TypeInv'
  <1> w \in Threads
    BY DEF Threads
  <1>0. /\ running \in [Workers -> SUBSET Jobs]
        /\ stream \in [Workers -> Seq(Message)]
        /\ stream' = [stream EXCEPT ![w] = Tail(@)]
        /\ running' = running
        /\ UNCHANGED << jobs, queue, workers, terminating >>
        /\ RowsStay
    BY DEF TypeInv, TypeOK, Receive, tables, RowsStay
  <1>1. /\ Head(stream[w]) = stream[w][1]
        /\ 1 \in 1 .. Len(stream[w])
        /\ stream[w][1] \in Message
    BY <1>0
  <1>2. Head(stream[w]).job \in Jobs /\ jobs[Head(stream[w]).job] # NoJob
    BY <1>1 DEF Message, TypeInv, AgentsHaveJobs
  <1>3. tasks' \in [Threads -> Task] /\ HandlersHaveJobs'
    <2>1. CASE UNCHANGED tasks
      BY <1>0, <2>1, IdleHandlersKeep
    <2>2. ASSUME NEW copy \in results, Start(w, op, "write", Head(stream[w]).job, w, copy)
          PROVE  tasks' \in [Threads -> Task] /\ HandlersHaveJobs'
      BY <1>0, <1>2, <2>2, StartKeeps DEF SaveOps, RowsStay
    <2> QED
      BY <2>1, <2>2 DEF Receive
  <1>4. stream' \in [Workers -> Seq(Message)]
    BY <1>0
  <1>5. ASSUME NEW v \in Workers, NEW i \in 1 .. Len(stream'[v]) PROVE jobs'[stream'[v][i].job] # NoJob
    <2>1. stream'[v] = stream[v] \/ (v = w /\ stream'[v] = Tail(stream[v]))
      BY <1>0
    <2>2. \E k \in 1 .. Len(stream[v]) : stream'[v][i] = stream[v][k]
      <3>1. CASE stream'[v] = stream[v]
        BY <3>1
      <3>2. CASE v = w /\ stream'[v] = Tail(stream[v])
        <4>1. i + 1 \in 1 .. Len(stream[v]) /\ stream'[v][i] = stream[v][i + 1]
          BY <1>0, <1>5, <3>2
        <4> QED
          BY <4>1
      <3> QED
        BY <2>1, <3>1, <3>2
    <2> QED
      BY <1>0, <2>2 DEF TypeInv, AgentsHaveJobs
  <1>6. ASSUME NEW v \in Workers, NEW k \in running'[v] PROVE jobs'[k] # NoJob
    BY <1>0 DEF TypeInv, AgentsHaveJobs
  <1> QED
    BY <1>0, <1>3, <1>4, <1>5, <1>6 DEF TypeInv, TypeOK, AgentsHaveJobs

LEMMA StreamKeepsType ==
    ASSUME TypeInv, NEW w \in Workers, Stream(w)
    PROVE  TypeInv'
  <1> w \in Threads
    BY DEF Threads
  <1>0. /\ workers \in [Workers -> WorkerRow]
        /\ terminating \in SUBSET Workers
    BY DEF TypeInv, TypeOK
  <1>h. stream[w] # << >> => jobs[Head(stream[w]).job] \in Job
    <2> SUFFICES ASSUME stream[w] # << >> PROVE jobs[Head(stream[w]).job] \in Job
      OBVIOUS
    <2>1. stream[w] \in Seq(Message)
      BY DEF TypeInv, TypeOK
    <2>2. Head(stream[w]) = stream[w][1] /\ 1 \in 1 .. Len(stream[w]) /\ stream[w][1] \in Message
      BY <2>1
    <2>3. stream[w][1].job \in Jobs /\ jobs[stream[w][1].job] # NoJob
      BY <2>2 DEF Message, TypeInv, AgentsHaveJobs
    <2> QED
      BY <2>2, <2>3 DEF TypeInv, TypeOK
  <1>1. CASE OnJobAcknowledged(w)
    BY <1>1, <1>h, MethodsTyped, ReceiveKeepsType DEF OnJobAcknowledged, SaveOps
  <1>2. CASE OnJobResult(w)
    <2> DEFINE job == jobs[Head(stream[w]).job]
               type == Head(stream[w]).type
    <2>1. stream[w] # << >> /\ type # "ack" /\ job \in Job
      BY <1>2, <1>h DEF OnJobResult
    <2>2. type \in {"success", "failure", "timeout"}
      <3>1. stream[w] \in Seq(Message)
        BY DEF TypeInv, TypeOK
      <3>2. Head(stream[w]) \in Message
        BY <2>1, <3>1
      <3> QED
        BY <2>1, <3>2 DEF Message
    <2>3. Receive(w, "on_job_result", ResultOf(job, type))
      BY <1>2 DEF OnJobResult
    <2>4. /\ Complete(job, "Succeeded") \subseteq Job
          /\ TimeOut(job) \subseteq Job
          /\ Fail(job) \subseteq Job
      BY <2>1, MethodsTyped DEF JobState
    <2> HIDE DEF job, type
    <2>5. ResultOf(job, type) \subseteq Job
      BY <2>2, <2>4 DEF ResultOf
    <2> QED
      BY <2>1, <2>3, <2>5, ReceiveKeepsType DEF SaveOps
  <1>3. CASE ReleaseAfterResult(w)
    <2>1. workers' \in [Workers -> WorkerRow] /\ terminating' \in SUBSET Workers
      BY <1>0, <1>3, WorkerWrites DEF ReleaseAfterResult
    <2> QED
      BY <1>3, <2>1, TailKeeps DEF ReleaseAfterResult
  <1>4. CASE OnWorkerHeartbeat(w)
    <2> DEFINE r == [ op |-> "on_worker_heartbeat", pc |-> "write", job |-> NoJob, worker |-> w,
                      copy |-> NewJob, row |-> NoJob, queued |-> FALSE, left |-> 0 ]
    <2>1. RowsStay /\ UNCHANGED << jobs, queue, workers, agents, terminating >>
      BY <1>4 DEF OnWorkerHeartbeat, RowsStay, tables
    <2>2. Fits(r)
      BY DEF Fits, Task, NewJob, Job, JobState, QueuePcs
    <2>3. tasks' = [tasks EXCEPT ![w] = r]
      BY <1>4 DEF OnWorkerHeartbeat, Start
    <2>4. tasks' \in [Threads -> Task] /\ HandlersHaveJobs'
      BY <2>1, <2>2, <2>3, OneHandlerMoves
    <2> QED
      BY <2>1, <2>4, JobsOnlyKeeps DEF TypeInv, TypeOK
  <1>5. CASE HeartbeatSetsReady(w)
    <2>1. workers' \in [Workers -> WorkerRow]
      BY <1>0, <1>5, WorkerWrites DEF HeartbeatSetsReady, WorkerState
    <2> QED
      BY <1>0, <1>5, <2>1, TailKeeps DEF HeartbeatSetsReady
  <1> QED
    BY <1>1, <1>2, <1>3, <1>4, <1>5 DEF Stream

\* A step of the queue, in the dispatcher or in the scheduler service: r is the
\* handler after it, on the same row or back in the scheduler's loop.
LEMMA QueueCallShape ==
    ASSUME TypeInv, NEW t \in Threads, QueueCall(t)
    PROVE  /\ tasks[t].row \in Jobs /\ jobs[tasks[t].row] # NoJob
           /\ \E r \in Task :
                /\ tasks' = [tasks EXCEPT ![t] = r]
                /\ \/ r = Idle /\ EnqueueSetPending(t)
                   \/ /\ r.op = tasks[t].op /\ r.job = tasks[t].job /\ r.copy = tasks[t].copy
                      /\ \/ r.pc = "remove" /\ (Dequeue(t) \/ EnqueueSetPending(t))
                         \/ r.pc = "dispatch" /\ r.row = tasks[t].row /\ Dequeue(t)
                         \/ /\ r.pc = "enqueue" /\ r.row = tasks[t].row /\ EnqueueInsert(t)
                            /\ r.queued <=> ~Contains(queue, tasks[t].row)
  <1> DEFINE q == tasks[t]
             Same(r) == r.op = q.op /\ r.job = q.job /\ r.copy = q.copy
  <1>0. q \in Task /\ tasks \in [Threads -> Task]
    BY DEF TypeInv, TypeOK
  <1>1. q.row \in Jobs /\ jobs[q.row] # NoJob
    <2>1. q.pc \in QueuePcs
      BY DEF QueueCall, Dequeue, EnqueueInsert, EnqueueSetPending, QueuePcs
    <2> QED
      BY <2>1 DEF TypeInv, HandlersHaveJobs
  <1>2. ASSUME NEW pc \in {"dispatch", "enqueue"}
        PROVE  /\ [q EXCEPT !.pc = pc] \in Task /\ Same([q EXCEPT !.pc = pc])
               /\ [q EXCEPT !.pc = pc].pc = pc /\ [q EXCEPT !.pc = pc].row = q.row
    BY <1>0 DEF Task, QueuePcs
  <1>3. NextRow(q) \in Task /\ Same(NextRow(q)) /\ NextRow(q).pc = "remove"
    <2>1. ASSUME NEW k \in Task
          PROVE  /\ [k EXCEPT !.pc = "remove"] \in Task /\ [k EXCEPT !.row = NoJob] \in Task
                 /\ [k EXCEPT !.queued = FALSE] \in Task
      BY Zenon DEF Task
    <2> DEFINE k1 == [q EXCEPT !.pc = "remove"]
               k2 == [k1 EXCEPT !.row = NoJob]
               k3 == [k2 EXCEPT !.queued = FALSE]
    <2>2. k1 \in Task /\ k2 \in Task /\ k3 \in Task
      BY <1>0, <2>1
    <2>3. NextRow(q) = k3
      BY <1>0 DEF NextRow, Task
    <2>4. Same(k3) /\ k3.pc = "remove"
      BY <1>0 DEF Task
    <2> QED
      BY <2>2, <2>3, <2>4
  <1>4. CASE Dequeue(t)
    <2>1. CASE q.row = q.job
      <3>1. tasks' = [tasks EXCEPT ![t] = NextRow(q)]
        BY <1>4, <2>1 DEF Dequeue
      <3> QED
        BY <1>1, <1>3, <1>4, <3>1
    <2>2. CASE q.row # q.job
      <3>1. tasks' = [tasks EXCEPT ![t] = [q EXCEPT !.pc = "dispatch"]]
        BY <1>4, <2>2 DEF Dequeue
      <3> QED
        BY <1>1, <1>2, <1>4, <3>1
    <2> QED
      BY <2>1, <2>2
  <1>5. CASE EnqueueInsert(t)
    <2> DEFINE b == ~Contains(queue, q.row)
               r == [[q EXCEPT !.pc = "enqueue"] EXCEPT !.queued = b]
    <2>1. b \in BOOLEAN
      OBVIOUS
    <2>2. tasks' = [tasks EXCEPT ![t] = r]
      BY <1>0, <1>5 DEF EnqueueInsert
    <2> HIDE DEF b
    <2>3. ASSUME NEW k \in Task
          PROVE  /\ [k EXCEPT !.queued = b] \in Task /\ [k EXCEPT !.queued = b].queued = b
                 /\ [k EXCEPT !.queued = b].op = k.op /\ [k EXCEPT !.queued = b].job = k.job
                 /\ [k EXCEPT !.queued = b].copy = k.copy /\ [k EXCEPT !.queued = b].pc = k.pc
                 /\ [k EXCEPT !.queued = b].row = k.row
      BY <2>1, Zenon DEF Task
    <2>4. r \in Task /\ Same(r) /\ r.pc = "enqueue" /\ r.row = q.row /\ r.queued = b
      BY <1>2, <2>3
    <2> HIDE DEF r
    <2>5. r.queued <=> ~Contains(queue, q.row)
      BY <2>1, <2>4 DEF b
    <2> QED
      BY <1>1, <1>5, <2>2, <2>4, <2>5
  <1>6. CASE EnqueueSetPending(t)
    <2>1. CASE Finish(t)
      BY <1>1, <1>6, <2>1, FinishTyped DEF Finish
    <2>2. CASE tasks' = [tasks EXCEPT ![t] = NextRow(q)]
      BY <1>1, <1>3, <1>6, <2>2
    <2> QED
      BY <1>6, <2>1, <2>2 DEF EnqueueSetPending
  <1> QED
    BY <1>4, <1>5, <1>6 DEF QueueCall

LEMMA QueueCallKeepsType ==
    ASSUME TypeInv, NEW t \in Threads, QueueCall(t)
    PROVE  TypeInv'
  <1>0. /\ workers \in [Workers -> WorkerRow]
        /\ terminating \in SUBSET Workers
        /\ queue \in Seq(Jobs)
    BY DEF TypeInv, TypeOK
  <1>1. PICK r \in Task :
          /\ tasks' = [tasks EXCEPT ![t] = r]
          /\ \/ r = Idle
             \/ /\ r.op = tasks[t].op /\ r.job = tasks[t].job /\ r.copy = tasks[t].copy
                /\ r.pc = "remove" \/ r.row = tasks[t].row
    BY QueueCallShape
  <1>2. tasks[t].row \in Jobs /\ jobs[tasks[t].row] # NoJob
    BY QueueCallShape
  <1>3. /\ jobs' \in [Jobs -> Job \cup {NoJob}] /\ RowsStay
        /\ queue' \in Seq(Jobs) /\ workers' \in [Workers -> WorkerRow]
        /\ UNCHANGED << agents, terminating >>
    <2>1. CASE Dequeue(t)
      <3>1. jobs' \in [Jobs -> Job \cup {NoJob}] /\ RowsStay
        BY <1>2, <2>1, UpdateStateKeeps DEF Dequeue, JobState
      <3>2. queue' \in Seq(Jobs)
        BY <1>0, <2>1, RemoveAtProps DEF Dequeue
      <3> QED
        BY <1>0, <2>1, <3>1, <3>2 DEF Dequeue
    <2>2. CASE EnqueueInsert(t)
      <3>1. workers' \in [Workers -> WorkerRow]
        BY <1>0, <1>2, <2>2, WorkerWrites DEF EnqueueInsert, Provision
      <3> QED
        BY <1>0, <2>2, <3>1 DEF EnqueueInsert, RowsStay, TypeInv, TypeOK
    <2>3. CASE EnqueueSetPending(t)
      <3>1. jobs' \in [Jobs -> Job \cup {NoJob}] /\ RowsStay
        BY <1>2, <2>3, UpdateStateKeeps DEF EnqueueSetPending, JobState
      <3>2. queue' \in Seq(Jobs)
        BY <1>0, <1>2, <2>3 DEF EnqueueSetPending
      <3> QED
        BY <1>0, <2>3, <3>1, <3>2 DEF EnqueueSetPending
    <2> QED
      BY <2>1, <2>2, <2>3 DEF QueueCall
  <1>4. tasks' \in [Threads -> Task] /\ HandlersHaveJobs'
    <2>1. CASE r = Idle
      BY <1>1, <1>3, <2>1, FinishKeeps DEF Finish
    <2>2. CASE r # Idle
      <3>1. r.pc \in QueuePcs => r.row \in Jobs /\ jobs[r.row] # NoJob
        BY <1>1, <1>2, <2>2 DEF QueuePcs
      <3> QED
        BY <1>1, <1>3, <2>2, <3>1, GoesOnKeeps
    <2> QED
      BY <2>1, <2>2
  <1> QED
    BY <1>3, <1>4, JobsOnlyKeeps

\* The dispatcher claims a row.
LEMMA ClaimShape ==
    ASSUME TypeInv, NEW d \in Threads, ClaimQueueRow(d)
    PROVE  \E i \in DOMAIN queue, r \in Task :
             /\ tasks' = [tasks EXCEPT ![d] = r]
             /\ r.op = "dispatch_once" /\ r.pc = "dequeue" /\ r.row = queue[i] /\ r.job = NoJob
             /\ Claimable(i) /\ queue[i] \in Jobs /\ jobs[queue[i]] # NoJob
             /\ jobs[queue[i]].state = "Pending"
  <1> PICK i \in DOMAIN queue :
        /\ Oldest(i)
        /\ tasks' = [tasks EXCEPT ![d] = [Idle EXCEPT !.op = "dispatch_once", !.pc = "dequeue",
                                                      !.row = queue[i]]]
    BY DEF ClaimQueueRow
  <1> DEFINE k == queue[i]
             k1 == [Idle EXCEPT !.op = "dispatch_once"]
             k2 == [k1 EXCEPT !.pc = "dequeue"]
             r == [k2 EXCEPT !.row = k]
  <1>1. k \in Jobs /\ Claimable(i) /\ jobs[k] # NoJob /\ jobs[k].state = "Pending"
    BY DEF TypeInv, TypeOK, Oldest, Claimable, Waiting
  <1>2. tasks' = [tasks EXCEPT ![d] = r]
    OBVIOUS
  <1> HIDE DEF k
  <1>3. r \in Task
    <2>1. ASSUME NEW x \in Task
          PROVE  /\ [x EXCEPT !.op = "dispatch_once"] \in Task
                 /\ [x EXCEPT !.pc = "dequeue"] \in Task
                 /\ [x EXCEPT !.row = k] \in Task
      BY <1>1, Zenon DEF Task, QueuePcs
    <2> QED
      BY <2>1, FinishTyped
  <1>4. r.op = "dispatch_once" /\ r.pc = "dequeue" /\ r.row = k /\ r.job = NoJob
    BY DEF Idle
  <1> HIDE DEF r
  <1> QED
    BY <1>1, <1>2, <1>3, <1>4 DEF k

LEMMA DispatchKeepsType ==
    ASSUME TypeInv, NEW d \in Dispatchers, Dispatch(d)
    PROVE  TypeInv'
  <1> d \in Threads
    BY DEF Threads
  <1>1. CASE ClaimQueueRow(d)
    <2>1. RowsStay /\ UNCHANGED << jobs, queue, workers, agents, terminating >>
      BY <1>1 DEF ClaimQueueRow, RowsStay, tables
    <2>2. PICK i \in DOMAIN queue, r \in Task :
             /\ tasks' = [tasks EXCEPT ![d] = r]
             /\ r.op = "dispatch_once" /\ r.pc = "dequeue" /\ r.row = queue[i]
             /\ queue[i] \in Jobs /\ jobs[queue[i]] # NoJob
      BY <1>1, ClaimShape
    <2>3. Fits(r)
      BY <2>1, <2>2 DEF Fits
    <2>4. tasks' \in [Threads -> Task] /\ HandlersHaveJobs'
      BY <2>1, <2>2, <2>3, OneHandlerMoves
    <2> QED
      BY <2>1, <2>4, JobsOnlyKeeps DEF TypeInv, TypeOK
  <1>2. CASE DispatchFails(d)
    BY <1>2, TailKeeps DEF DispatchFails, tables, TypeInv, TypeOK
  <1> QED
    BY <1>1, <1>2, QueueCallKeepsType DEF Dispatch

\* schedule_job goes on as op with a copy.
LEMMA ProceedShape ==
    ASSUME TypeInv, NEW t \in Threads, NEW op \in {"make_decision", "schedule_job", "enqueue_job"},
           NEW pc \in {"before", "write"}, NEW w \in Workers \cup {NoWorker}, NEW copy \in Job,
           Proceed(t, op, pc, w, copy)
    PROVE  \E r \in Task : /\ tasks' = [tasks EXCEPT ![t] = r]
                           /\ r.op = op /\ r.pc = pc /\ r.job = tasks[t].job /\ r.copy = copy
                           /\ r.pc \notin QueuePcs
  <1> DEFINE q == tasks[t]
             k1 == [q EXCEPT !.op = op]
             k2 == [k1 EXCEPT !.pc = pc]
             k3 == [k2 EXCEPT !.worker = w]
             r  == [k3 EXCEPT !.copy = copy]
  <1>0. q \in Task /\ tasks \in [Threads -> Task]
    BY DEF TypeInv, TypeOK
  <1>1. tasks' = [tasks EXCEPT ![t] = r]
    BY <1>0 DEF Proceed
  <1>2. r \in Task
    <2>1. op \in SaveOps \cup {"make_decision"}
      BY DEF SaveOps
    <2>2. ASSUME NEW x \in Task
          PROVE  /\ [x EXCEPT !.op = op] \in Task /\ [x EXCEPT !.pc = pc] \in Task
                 /\ [x EXCEPT !.worker = w] \in Task /\ [x EXCEPT !.copy = copy] \in Task
      BY <2>1, Zenon DEF Task
    <2> QED
      BY <1>0, <2>2
  <1>3. r.op = op /\ r.pc = pc /\ r.job = q.job /\ r.copy = copy
    BY <1>0 DEF Task
  <1>4. r.pc \notin QueuePcs
    BY <1>3 DEF QueuePcs
  <1> QED
    BY <1>1, <1>2, <1>3, <1>4

\* What a step of schedule_job does to its thread.
LEMMA ScheduleShape ==
    ASSUME TypeInv, NEW t \in Threads, Schedule(t)
    PROVE  /\ tasks[t].job \in Jobs /\ jobs[tasks[t].job] # NoJob
           /\ UNCHANGED << jobs, queue, agents, terminating >>
           /\ workers' \in [Workers -> WorkerRow]
           /\ \E r \in Task :
                /\ tasks' = [tasks EXCEPT ![t] = r]
                /\ \/ r = Idle
                   \/ r.job = tasks[t].job /\ r.pc \notin QueuePcs /\
                      \/ /\ tasks[t].op = "schedule_read" /\ r.op = "make_decision"
                         /\ r.copy = jobs[r.job]
                      \/ /\ tasks[t].op = "make_decision" /\ r.op = "schedule_job"
                         /\ r.copy \in SubmitToProvider(tasks[t].copy) \cup Fail(tasks[t].copy)
                      \/ /\ tasks[t].op = "make_decision" /\ r.op = "enqueue_job"
                         /\ r.copy = tasks[t].copy
                      \/ /\ tasks[t].op = "schedule_job" /\ r.op = "schedule_job" /\ tasks[t].pc # "after"
                         /\ r.copy = tasks[t].copy
                   \/ /\ tasks[t].op = "schedule_job" /\ r.op = "schedule_job" /\ tasks[t].pc # "after"
                      /\ r.job = tasks[t].job /\ r.copy = tasks[t].copy /\ r.pc = "dequeue"
                      /\ \E i \in DOMAIN queue :
                            /\ r.row = queue[i] /\ Claimable(i) /\ queue[i] \in Jobs
                            /\ jobs[queue[i]] # NoJob /\ jobs[queue[i]].state = "Pending"
  <1> DEFINE q == tasks[t]
  <1>0. /\ q \in Task /\ tasks \in [Threads -> Task] /\ workers \in [Workers -> WorkerRow]
        /\ queue \in Seq(Jobs)
    BY DEF TypeInv, TypeOK
  <1>1. q.op \in {"schedule_read", "make_decision", "schedule_job"}
    BY DEF Schedule, ScheduleReads, ScheduleEnqueues, ScheduleRejects, ScheduleAssigns,
       ScheduleTakesWorker, CountRows, RemoveClaims, RemoveEnds, At
  <1>2. q.job \in Jobs /\ jobs[q.job] # NoJob
    BY <1>1 DEF TypeInv, HandlersHaveJobs
  <1>3. jobs[q.job] \in Job /\ q.copy \in Job
    BY <1>0, <1>2 DEF TypeInv, TypeOK, Task
  <1>4. SubmitToProvider(q.copy) \subseteq Job /\ Fail(q.copy) \subseteq Job
    BY <1>3, MethodsTyped
  <1>u. UNCHANGED << jobs, queue, agents, terminating >>
    BY DEF Schedule, ScheduleReads, ScheduleEnqueues, ScheduleRejects, ScheduleAssigns,
       ScheduleTakesWorker, CountRows, RemoveClaims, RemoveEnds, tables
  <1>w. workers' \in [Workers -> WorkerRow]
    <2>1. CASE ScheduleTakesWorker(t)
      <3>1. CASE Registered(q.worker) /\ AssignToJob(q.worker, q.job)
        BY <1>0, <1>2, <3>1 DEF AssignToJob, WorkerRow, WorkerState
      <3>2. CASE UNCHANGED workers
        BY <1>0, <3>2
      <3> QED
        BY <2>1, <3>1, <3>2 DEF ScheduleTakesWorker
    <2> QED
      BY <1>0, <2>1 DEF Schedule, ScheduleReads, ScheduleEnqueues, ScheduleRejects, ScheduleAssigns,
       CountRows, RemoveClaims, RemoveEnds, tables
  <1>5. CASE ScheduleReads(t)
    <2>1. q.op = "schedule_read" /\ Proceed(t, "make_decision", "before", NoWorker, jobs[q.job])
      BY <1>5 DEF ScheduleReads, At
    <2>2. \E r \in Task : /\ tasks' = [tasks EXCEPT ![t] = r]
                          /\ r.op = "make_decision" /\ r.job = q.job /\ r.copy = jobs[q.job]
                          /\ r.pc \notin QueuePcs
      BY <1>3, <2>1, ProceedShape
    <2> QED
      BY <1>2, <1>u, <1>w, <2>1, <2>2
  <1>6. CASE Finish(t)
    BY <1>2, <1>u, <1>w, <1>6, FinishTyped DEF Finish
  <1>7. ASSUME NEW w \in Workers, ScheduleAssigns(t, w), ~Finish(t)
        PROVE  \E r \in Task : /\ tasks' = [tasks EXCEPT ![t] = r]
                               /\ r.op = "schedule_job" /\ r.job = q.job /\ r.pc \notin QueuePcs
                               /\ r.copy \in SubmitToProvider(q.copy)
    <2>1. PICK copy \in SubmitToProvider(q.copy) : Proceed(t, "schedule_job", "before", w, copy)
      BY <1>7 DEF ScheduleAssigns
    <2>2. copy \in Job
      BY <1>4
    <2> QED
      BY <2>1, <2>2, ProceedShape
  <1>8. ASSUME ScheduleRejects(t), ~Finish(t)
        PROVE  \E r \in Task : /\ tasks' = [tasks EXCEPT ![t] = r]
                               /\ r.op = "schedule_job" /\ r.job = q.job /\ r.pc \notin QueuePcs
                               /\ r.copy \in Fail(q.copy)
    <2>1. PICK copy \in Fail(q.copy) : Proceed(t, "schedule_job", "write", NoWorker, copy)
      BY <1>8 DEF ScheduleRejects
    <2>2. copy \in Job
      BY <1>4
    <2> QED
      BY <2>1, <2>2, ProceedShape
  <1>9. CASE ScheduleRejects(t) \/ \E w \in Workers : ScheduleAssigns(t, w)
    <2>1. q.op = "make_decision"
      BY <1>9 DEF ScheduleRejects, ScheduleAssigns, At
    <2>2. CASE Finish(t)
      BY <1>6, <2>2
    <2>3. CASE ~Finish(t)
      <3>1. PICK r \in Task : /\ tasks' = [tasks EXCEPT ![t] = r]
                             /\ r.op = "schedule_job" /\ r.job = q.job /\ r.pc \notin QueuePcs
                             /\ r.copy \in SubmitToProvider(q.copy) \cup Fail(q.copy)
        BY <1>7, <1>8, <1>9, <2>3
      <3> QED
        BY <1>2, <1>u, <1>w, <2>1, <3>1
    <2> QED
      BY <2>2, <2>3
  <1>10. CASE ScheduleEnqueues(t)
    <2>1. q.op = "make_decision" /\ Proceed(t, "enqueue_job", "write", NoWorker, q.copy)
      BY <1>10 DEF ScheduleEnqueues, At
    <2>2. \E r \in Task : /\ tasks' = [tasks EXCEPT ![t] = r]
                          /\ r.op = "enqueue_job" /\ r.job = q.job /\ r.copy = q.copy
                          /\ r.pc \notin QueuePcs
      BY <1>3, <2>1, ProceedShape
    <2> QED
      BY <1>2, <1>u, <1>w, <2>1, <2>2
  <1>11. CASE ScheduleTakesWorker(t)
    <2> DEFINE r == [q EXCEPT !.pc = "count"]
    <2>1. q.op = "schedule_job" /\ q.pc # "after" /\ tasks' = [tasks EXCEPT ![t] = r]
      BY <1>11 DEF ScheduleTakesWorker, At, Goto
    <2>2. r \in Task /\ r.op = q.op /\ r.job = q.job /\ r.copy = q.copy /\ r.pc \notin QueuePcs
      BY <1>0 DEF Task, QueuePcs
    <2> QED
      BY <1>2, <1>u, <1>w, <2>1, <2>2
  <1>12. CASE CountRows(t)
    <2> DEFINE n == Cardinality({i \in DOMAIN queue : Waiting(i)})
               r == [[q EXCEPT !.pc = "remove"] EXCEPT !.left = n]
    <2>1. q.op = "schedule_job" /\ q.pc # "after" /\ tasks' = [tasks EXCEPT ![t] = r]
      BY <1>0, <1>12 DEF CountRows, At
    <2>2. n \in Nat
      <3>1. IsFiniteSet(1 .. Len(queue))
        BY <1>0, FS_Interval
      <3>2. DOMAIN queue = 1 .. Len(queue)
        BY <1>0
      <3> QED
        BY <3>1, <3>2, FS_Subset, FS_CardinalityType
    <2> HIDE DEF n
    <2>3. r \in Task /\ r.op = q.op /\ r.job = q.job /\ r.copy = q.copy /\ r.pc = "remove"
      BY <1>0, <2>2 DEF Task
    <2>4. r.pc \notin QueuePcs
      BY <2>3 DEF QueuePcs
    <2> HIDE DEF r
    <2> QED
      BY <1>2, <1>u, <1>w, <2>1, <2>3, <2>4
  <1>13. CASE RemoveClaims(t)
    <2>1. PICK i \in DOMAIN queue :
            /\ Oldest(i)
            /\ tasks' = [tasks EXCEPT ![t].pc = "dequeue", ![t].row = queue[i], ![t].left = @ - 1]
      BY <1>13 DEF RemoveClaims
    <2> DEFINE k == queue[i]
               n == q.left - 1
               r == [[[q EXCEPT !.pc = "dequeue"] EXCEPT !.row = k] EXCEPT !.left = n]
    <2>2. /\ k \in Jobs /\ Claimable(i) /\ jobs[k] # NoJob /\ jobs[k].state = "Pending"
          /\ q.op = "schedule_job" /\ q.pc # "after" /\ q.left > 0
      BY <1>0, <1>13, <2>1 DEF Oldest, Claimable, Waiting, RemoveClaims, At
    <2>3. tasks' = [tasks EXCEPT ![t] = r]
      BY <1>0, <2>1 DEF Task
    <2>4. n \in Nat
      BY <1>0, <2>2 DEF Task
    <2> HIDE DEF k, n
    <2>5. /\ r \in Task /\ r.op = q.op /\ r.job = q.job /\ r.copy = q.copy /\ r.pc = "dequeue"
          /\ r.row = k
      BY <1>0, <2>2, <2>4 DEF Task, QueuePcs
    <2> HIDE DEF r
    <2> QED
      BY <1>2, <1>u, <1>w, <2>2, <2>3, <2>5 DEF k
  <1>14. CASE RemoveEnds(t)
    <2> DEFINE r == [[q EXCEPT !.pc = "write"] EXCEPT !.left = 0]
    <2>1. q.op = "schedule_job" /\ q.pc # "after" /\ tasks' = [tasks EXCEPT ![t] = r]
      BY <1>0, <1>14 DEF RemoveEnds, At
    <2>2. r \in Task /\ r.op = q.op /\ r.job = q.job /\ r.copy = q.copy /\ r.pc = "write"
      BY <1>0 DEF Task
    <2>3. r.pc \notin QueuePcs
      BY <2>2 DEF QueuePcs
    <2> HIDE DEF r
    <2> QED
      BY <1>2, <1>u, <1>w, <2>1, <2>2, <2>3
  <1> QED
    BY <1>5, <1>9, <1>10, <1>11, <1>12, <1>13, <1>14 DEF Schedule

LEMMA ScheduleKeepsType ==
    ASSUME TypeInv, NEW t \in Threads, Schedule(t)
    PROVE  TypeInv'
  <1>1. /\ UNCHANGED << jobs, queue, agents, terminating >>
        /\ workers' \in [Workers -> WorkerRow]
        /\ tasks[t].job \in Jobs /\ jobs[tasks[t].job] # NoJob
    BY ScheduleShape
  <1>2. PICK r \in Task :
          /\ tasks' = [tasks EXCEPT ![t] = r]
          /\ \/ r = Idle
             \/ /\ r.op \in {"make_decision", "schedule_job", "enqueue_job"} /\ r.job = tasks[t].job
                /\ r.pc \in QueuePcs => r.row \in Jobs /\ jobs[r.row] # NoJob
    BY ScheduleShape
  <1>3. RowsStay
    BY <1>1 DEF RowsStay
  <1>4. tasks' \in [Threads -> Task] /\ HandlersHaveJobs'
    <2>1. CASE r = Idle
      BY <1>2, <1>3, <2>1, FinishKeeps DEF Finish
    <2>2. CASE r # Idle
      <3>1. Fits(r)
        BY <1>1, <1>2, <2>2 DEF Fits
      <3> QED
        BY <1>2, <1>3, <3>1, OneHandlerMoves
    <2> QED
      BY <2>1, <2>2
  <1> QED
    BY <1>1, <1>3, <1>4, JobsOnlyKeeps DEF TypeInv, TypeOK

\* What a save does to its thread.
LEMMA SaveMoves ==
    ASSUME TypeInv, NEW t \in Threads, Save(t)
    PROVE  \E r \in Task :
             /\ tasks' = [tasks EXCEPT ![t] = r]
             /\ \/ r = Idle
                \/ /\ r.op = tasks[t].op /\ r.job = tasks[t].job /\ r.copy = tasks[t].copy
                   /\ \/ r.pc = "after"
                      \/ r.op = "enqueue_job" /\ r.pc = "dispatch" /\ r.row = tasks[t].job
  <1> DEFINE q == tasks[t]
  <1>0. q \in Task /\ tasks \in [Threads -> Task]
    BY DEF TypeInv, TypeOK
  <1>1. CASE Finish(t)
    BY <1>1, FinishTyped DEF Finish
  <1>2. CASE Goto(t, "after")
    <2> DEFINE r == [q EXCEPT !.pc = "after"]
    <2>1. r \in Task /\ r.op = q.op /\ r.job = q.job /\ r.copy = q.copy /\ r.pc = "after"
      BY <1>0 DEF Task
    <2> QED
      BY <1>2, <2>1 DEF Goto
  <1>3. CASE q.op = "enqueue_job" /\ tasks' = [tasks EXCEPT ![t].pc = "dispatch", ![t].row = q.job]
    <2> DEFINE r == [[q EXCEPT !.pc = "dispatch"] EXCEPT !.row = q.job]
    <2>1. tasks' = [tasks EXCEPT ![t] = r]
      BY <1>0, <1>3
    <2>2. r \in Task /\ r.op = q.op /\ r.job = q.job /\ r.copy = q.copy /\ r.pc = "dispatch" /\ r.row = q.job
      BY <1>0 DEF Task, QueuePcs
    <2> HIDE DEF r
    <2> QED
      BY <1>3, <2>1, <2>2
  <1> QED
    BY <1>1, <1>2, <1>3 DEF Save

LEMMA SaveKeepsType ==
    ASSUME TypeInv, NEW t \in Threads, Save(t)
    PROVE  TypeInv'
  <1>0. tasks[t] \in Task
    BY DEF TypeInv, TypeOK
  <1>1. tasks[t].op \notin {"idle", "on_worker_heartbeat", "dispatch_once"}
    BY DEF Save, SaveOps
  <1>2. tasks[t].job \in Jobs /\ tasks[t].copy \in Job /\ jobs[tasks[t].job] # NoJob
    BY <1>0, <1>1 DEF TypeInv, HandlersHaveJobs, Task
  <1>3. jobs' \in [Jobs -> Job \cup {NoJob}] /\ queue' \in Seq(Jobs) /\ RowsStay
    BY <1>2, SaveRowKeeps DEF Save
  <1>4. tasks' \in [Threads -> Task] /\ HandlersHaveJobs'
    <2>1. PICK r \in Task :
            /\ tasks' = [tasks EXCEPT ![t] = r]
            /\ \/ r = Idle
               \/ /\ r.op = tasks[t].op /\ r.job = tasks[t].job /\ r.copy = tasks[t].copy
                  /\ r.pc = "after" \/ r.row = tasks[t].job
      BY SaveMoves
    <2>2. CASE r = Idle
      BY <1>3, <2>1, <2>2, FinishKeeps DEF Finish
    <2>3. CASE r # Idle
      <3>1. r.pc \in QueuePcs => r.row \in Jobs /\ jobs[r.row] # NoJob
        BY <1>2, <2>1, <2>3 DEF QueuePcs
      <3> QED
        BY <1>3, <2>1, <2>3, <3>1, GoesOnKeeps
    <2> QED
      BY <2>2, <2>3
  <1> QED
    BY <1>3, <1>4, JobsOnlyKeeps DEF Save, TypeInv, TypeOK

\* Statements outside a handler in flight.
LEMMA ReleaseKeepsType ==
    ASSUME TypeInv, NEW t \in Tasks, NEW w \in Workers, ReleaseWorker(t, w)
    PROVE  TypeInv'
  <1>1. RowsStay /\ UNCHANGED << jobs, queue, tasks, agents, terminating >>
    BY DEF ReleaseWorker, RowsStay
  <1>2. workers' \in [Workers -> WorkerRow]
    BY WorkerWrites DEF ReleaseWorker, WorkerState
  <1>3. tasks' \in [Threads -> Task] /\ HandlersHaveJobs'
    BY <1>1, IdleHandlersKeep
  <1> QED
    BY <1>1, <1>2, <1>3, JobsOnlyKeeps DEF TypeInv, TypeOK

LEMMA BlindKeepsType ==
    ASSUME TypeInv, BlindNext \/ RecoveryNext
    PROVE  TypeInv'
  <1>1. ASSUME NEW j \in Jobs, jobs[j] # NoJob, NEW s \in JobState, UpdateState(j, s),
               UNCHANGED << queue, workers, tasks, agents, terminating >>
        PROVE  TypeInv'
    <2>1. jobs' \in [Jobs -> Job \cup {NoJob}] /\ RowsStay
      BY <1>1, UpdateStateKeeps
    <2>2. tasks' \in [Threads -> Task] /\ HandlersHaveJobs'
      BY <1>1, <2>1, IdleHandlersKeep
    <2> QED
      BY <1>1, <2>1, <2>2, JobsOnlyKeeps DEF TypeInv, TypeOK
  <1>3. {"Cancelled", "Failed", "Pending"} \subseteq JobState
    BY DEF JobState
  <1>4. ASSUME NEW t \in Tasks, NEW j \in Jobs,
               UpdateJobState(t, j) \/ MarkJobFailed(t, j) \/ MarkJobForRecovery(t, j)
        PROVE  TypeInv'
    BY <1>1, <1>3, <1>4 DEF UpdateJobState, MarkJobFailed, MarkJobForRecovery
  <1> QED
    BY <1>4 DEF BlindNext, RecoveryNext

\* Every handler of the server keeps the tables typed and refers to rows that
\* exist, with any number of dispatchers, recovery commands included.
LEMMA TypeInvStep ==
    ASSUME TypeInv, [FullNext]_vars
    PROVE  TypeInv'
  <1>1. ASSUME NEW t \in Threads, Abort(t) PROVE TypeInv'
    BY <1>1, TailKeeps DEF Abort, tables, TypeInv, TypeOK
  <1>2. CASE CheckedNext
    BY <1>1, <1>2, RequestKeepsType, ContinueKeepsType, ScheduleKeepsType, QueueCallKeepsType,
       AgentKeepsType, StreamKeepsType, DispatchKeepsType, SaveKeepsType, ReleaseKeepsType
       DEF CheckedNext, Threads
  <1>3. CASE UNCHANGED vars
    BY <1>3 DEF vars, TypeInv, TypeOK, HandlersHaveJobs, AgentsHaveJobs
  <1> QED
    BY <1>2, <1>3, BlindKeepsType DEF FullNext, Next

LEMMA TypeInvInit == Init => TypeInv
  <1> SUFFICES ASSUME Init PROVE TypeInv
    OBVIOUS
  <1>1. Idle \in Task /\ Idle.op = "idle"
    BY DEF Idle, Task, NewJob, Job, JobState
  <1>2. TypeOK
    BY <1>1 DEF Init, TypeOK, WorkerRow
  <1>3. HandlersHaveJobs
    BY <1>1 DEF Init, HandlersHaveJobs, QueuePcs, Idle
  <1>4. AgentsHaveJobs
    BY DEF Init, AgentsHaveJobs
  <1> QED
    BY <1>2, <1>3, <1>4 DEF TypeInv

\* Type correctness of the tables, the handlers in flight and the streams under
\* every handler of the server: no handler ever writes a row that was not there
\* to be read, so no state column is set on a missing job.
THEOREM TypeCorrect == FullSpec => []TypeOK
  <1>1. TypeInv => TypeOK
    BY DEF TypeInv
  <1> QED
    BY <1>1, TypeInvInit, TypeInvStep, PTL DEF FullSpec

-----------------------------------------------------------------------------
(* PENDING rows and the queue.                                             *)

\* No thread enters a dequeue or an enqueue in this step.
NoNewQueueOps ==
    \A u \in Threads : tasks'[u].pc \in {"dequeue", "enqueue"} => tasks'[u] = tasks[u]

QueueInv == QueueIsKeyed /\ RowsInFlight

\* This step ends an enqueue of j whose insert found the key.
TornEnqueue(j) ==
    \E t \in Threads : /\ tasks[t].pc = "enqueue" /\ tasks'[t].pc # "enqueue"
                       /\ tasks[t].row = j /\ ~tasks[t].queued

\* The step keeps the queue in order and strands no job, unless by such an end.
NoneStranded == \A j \in Jobs : Stranded(j)' => Stranded(j) \/ TornEnqueue(j)
QueueStep == QueueInv' /\ NoneStranded

LEMMA MovesOut ==
    ASSUME TypeInv, NEW t \in Threads, NEW r, tasks' = [tasks EXCEPT ![t] = r],
           r.pc \notin {"dequeue", "enqueue"}
    PROVE  NoNewQueueOps
  BY DEF TypeInv, TypeOK, NoNewQueueOps

LEMMA FinishIsNoQueueOp ==
    ASSUME TypeInv, NEW t \in Threads, Finish(t)
    PROVE  NoNewQueueOps
  BY MovesOut DEF Finish, Idle

LEMMA GotoIsNoQueueOp ==
    ASSUME TypeInv, NEW t \in Threads, NEW pc \in {"count", "write", "after"}, Goto(t, pc)
    PROVE  NoNewQueueOps
  <1> DEFINE r == [tasks[t] EXCEPT !.pc = pc]
  <1>1. tasks[t] \in Task /\ tasks' = [tasks EXCEPT ![t] = r]
    BY DEF Goto, TypeInv, TypeOK
  <1>2. r.pc = pc
    BY <1>1 DEF Task
  <1> QED
    BY <1>1, <1>2, MovesOut

LEMMA StartIsNoQueueOp ==
    ASSUME TypeInv, NEW t \in Threads, NEW op, NEW pc \in {"before", "write"}, NEW j, NEW w, NEW copy,
           Start(t, op, pc, j, w, copy)
    PROVE  NoNewQueueOps
  <1> DEFINE r == [ op |-> op, pc |-> pc, job |-> j, worker |-> w, copy |-> copy,
                    row |-> NoJob, queued |-> FALSE, left |-> 0 ]
  <1>1. tasks' = [tasks EXCEPT ![t] = r] /\ r.pc = pc
    BY DEF Start
  <1> QED
    BY <1>1, MovesOut

\* Handlers in flight neither claim nor insert, and no row changes.
LEMMA QuietStep ==
    ASSUME TypeInv, QueueInv, UNCHANGED << jobs, queue >>, NoNewQueueOps
    PROVE  QueueStep
  <1>1. RowsInFlight'
    BY DEF QueueInv, RowsInFlight, NoNewQueueOps
  <1>2. QueueIsKeyed' /\ NoneStranded
    BY DEF QueueInv, QueueIsKeyed, NoneStranded, Stranded
  <1> QED
    BY <1>1, <1>2 DEF QueueInv, QueueStep

\* A state column is set; a job is stranded only when it is set to PENDING.
LEMMA UpdateStateStep ==
    ASSUME TypeInv, QueueInv, NEW j \in Jobs, jobs[j] # NoJob, NEW s \in JobState,
           UpdateState(j, s), UNCHANGED queue, NoNewQueueOps
    PROVE  QueueInv' /\ (s # "Pending" \/ TornEnqueue(j) => NoneStranded)
  <1>0. jobs \in [Jobs -> Job \cup {NoJob}] /\ queue \in Seq(Jobs)
    BY DEF TypeInv, TypeOK
  <1>1. RowsInFlight'
    BY DEF QueueInv, RowsInFlight, NoNewQueueOps
  <1>2. RowsStay
    BY UpdateStateKeeps
  <1>3. QueueIsKeyed'
    BY <1>0, <1>2 DEF QueueInv, QueueIsKeyed, RowsStay
  <1>4. jobs'[j].state = s /\ \A k \in Jobs : k # j => jobs'[k] = jobs[k]
    <2>1. jobs[j] \in Job
      BY <1>0
    <2>2. jobs'[j] = [jobs[j] EXCEPT !.state = s]
      BY <1>0 DEF UpdateState
    <2>3. jobs'[j].state = s
      BY <2>1, <2>2 DEF Job
    <2> QED
      BY <1>0, <2>3 DEF UpdateState
  <1>5. s # "Pending" \/ TornEnqueue(j) => NoneStranded
    BY <1>4 DEF NoneStranded, Stranded
  <1> QED
    BY <1>1, <1>3, <1>5 DEF QueueInv

\* A save: a Pending copy brings its queue row along.
LEMMA SaveRowStep ==
    ASSUME TypeInv, QueueInv, NEW j \in Jobs, NEW copy \in Job, SaveRow(j, copy), NoNewQueueOps
    PROVE  QueueStep
  <1>0. jobs \in [Jobs -> Job \cup {NoJob}] /\ queue \in Seq(Jobs) /\ tasks \in [Threads -> Task]
    BY DEF TypeInv, TypeOK
  <1>1. jobs'[j] = copy /\ copy # NoJob /\ \A k \in Jobs : k # j => jobs'[k] = jobs[k]
    BY <1>0, JobExecutionAssumption DEF SaveRow
  <1>2. RowsStay /\ queue' \in Seq(Jobs)
    BY SaveRowKeeps
  <1>3. /\ \A k \in Jobs : Contains(queue, k) => Contains(queue', k)
        /\ \A k \in Jobs : Contains(queue', k) => Contains(queue, k) \/ (k = j /\ copy.state = "Pending")
        /\ copy.state = "Pending" => Contains(queue', j)
        /\ Keyed(queue) => Keyed(queue')
        /\ \A i \in 1 .. Len(queue') : queue'[i] = j \/ Contains(queue, queue'[i])
    <2>1. CASE copy.state = "Pending"
      BY <1>0, <2>1, QueuedProps DEF SaveRow
    <2>2. CASE copy.state # "Pending"
      BY <1>0, <2>2 DEF SaveRow, Contains
    <2> QED
      BY <2>1, <2>2
  <1>4. QueueIsKeyed'
    <2>1. ASSUME NEW k \in Jobs, Contains(queue, k) PROVE jobs[k] # NoJob
      BY <1>0, <2>1 DEF QueueInv, QueueIsKeyed, Contains
    <2>2. ASSUME NEW i \in 1 .. Len(queue') PROVE jobs'[queue'[i]] # NoJob
      <3>1. queue'[i] \in Jobs
        BY <1>2
      <3> QED
        BY <1>1, <1>2, <1>3, <2>1, <3>1 DEF RowsStay
    <2> QED
      BY <1>3, <2>2 DEF QueueInv, QueueIsKeyed
  <1>5. NoneStranded
    BY <1>1, <1>3 DEF NoneStranded, Stranded
  <1>6. ASSUME NEW u \in Threads
        PROVE  /\ tasks'[u].pc = "dequeue" => Contains(queue', tasks'[u].row)
               /\ tasks'[u].pc = "enqueue" /\ tasks'[u].queued => ~Contains(queue', tasks'[u].row)
    <2>1. CASE tasks'[u].pc \notin {"dequeue", "enqueue"}
      BY <2>1
    <2>2. CASE tasks'[u].pc \in {"dequeue", "enqueue"}
      <3>1. tasks'[u] = tasks[u]
        BY <2>2 DEF NoNewQueueOps
      <3>2. tasks[u].row \in Jobs
        BY <2>2, <3>1 DEF TypeInv, HandlersHaveJobs, QueuePcs
      <3>3. ASSUME tasks[u].pc = "enqueue", tasks[u].queued
            PROVE  ~Contains(queue', tasks[u].row)
        <4>1. ~Contains(queue, tasks[u].row)
          BY <3>3 DEF QueueInv, RowsInFlight
        <4>2. ~(tasks[u].row = j /\ copy.state = "Pending")
          BY <3>2, <3>3 DEF SaveRow, InsertPending
        <4> QED
          BY <1>3, <3>2, <4>1, <4>2
      <3>4. CASE tasks[u].pc = "dequeue"
        BY <1>3, <3>1, <3>2, <3>4 DEF QueueInv, RowsInFlight
      <3>5. CASE tasks[u].pc = "enqueue"
        BY <3>1, <3>3, <3>5
      <3> QED
        BY <2>2, <3>1, <3>4, <3>5
    <2> QED
      BY <2>1, <2>2
  <1>7. RowsInFlight'
    BY <1>6 DEF QueueInv, RowsInFlight, NoNewQueueOps
  <1> QED
    BY <1>4, <1>5, <1>7 DEF QueueInv, QueueStep

\* A dequeue locks a row that no other one has locked.
LEMMA ClaimStep ==
    ASSUME TypeInv, QueueInv, NEW t \in Threads, NEW r \in Task, NEW i \in DOMAIN queue,
           tasks' = [tasks EXCEPT ![t] = r], r.pc = "dequeue", r.row = queue[i], Claimable(i),
           UNCHANGED << jobs, queue >>
    PROVE  QueueStep
  <1>1. tasks'[t] = r /\ \A u \in Threads : u # t => tasks'[u] = tasks[u]
    BY DEF TypeInv, TypeOK
  <1>2. Contains(queue, queue[i])
    BY DEF Contains, TypeInv, TypeOK
  <1>3. \A u \in Threads : tasks[u].pc = "dequeue" => tasks[u].row # queue[i]
    BY DEF Claimable, Locked
  <1>4. RowsInFlight'
    BY <1>1, <1>2, <1>3 DEF QueueInv, RowsInFlight
  <1>5. QueueIsKeyed' /\ NoneStranded
    BY DEF QueueInv, QueueIsKeyed, NoneStranded, Stranded
  <1> QED
    BY <1>4, <1>5 DEF QueueInv, QueueStep

\* A dequeue deletes its own row, an enqueue inserts a key that is not there.
LEMMA QueueCallStep ==
    ASSUME TypeInv, QueueInv, NEW t \in Threads, QueueCall(t)
    PROVE  QueueStep
  <1> DEFINE j == tasks[t].row
  <1>0. jobs \in [Jobs -> Job \cup {NoJob}] /\ queue \in Seq(Jobs) /\ tasks \in [Threads -> Task]
    BY DEF TypeInv, TypeOK
  <1>1. j \in Jobs /\ jobs[j] # NoJob
    BY QueueCallShape
  <1>2. \A u \in Threads : u # t => tasks'[u] = tasks[u]
    BY <1>0 DEF QueueCall, Dequeue, EnqueueInsert, EnqueueSetPending, Finish
  <1>k. \A i \in 1 .. Len(queue) : jobs[queue[i]] # NoJob
    BY DEF QueueInv, QueueIsKeyed
  <1>3. CASE Dequeue(t)
    <2>1. tasks[t].pc = "dequeue" /\ UpdateState(j, "Assigned")
      BY <1>3 DEF Dequeue
    <2>2. tasks'[t].pc \notin {"dequeue", "enqueue"}
      <3>1. CASE tasks[t].row = tasks[t].job
        <4>1. tasks'[t] = NextRow(tasks[t]) /\ tasks[t] \in Task
          BY <1>0, <1>3, <3>1 DEF Dequeue
        <4>2. NextRow(tasks[t]).pc = "remove"
          BY <4>1 DEF NextRow, Task
        <4> QED
          BY <4>1, <4>2
      <3>2. CASE tasks[t].row # tasks[t].job
        <4>1. tasks'[t] = [tasks[t] EXCEPT !.pc = "dispatch"] /\ tasks[t] \in Task
          BY <1>0, <1>3, <3>2 DEF Dequeue
        <4>2. tasks'[t].pc = "dispatch"
          BY <4>1 DEF Task
        <4> QED
          BY <4>2
      <3> QED
        BY <3>1, <3>2
    <2>3. /\ jobs'[j].state = "Assigned" /\ \A k \in Jobs : k # j => jobs'[k] = jobs[k]
      <3>1. jobs[j] \in Job /\ jobs'[j] = [jobs[j] EXCEPT !.state = "Assigned"]
        BY <1>0, <1>1, <2>1 DEF UpdateState
      <3>2. jobs'[j].state = "Assigned"
        BY <3>1 DEF Job
      <3> QED
        BY <1>0, <2>1, <3>2 DEF UpdateState
    <2>4. RowsStay
      BY <1>1, <2>1, UpdateStateKeeps DEF JobState
    <2>5. PICK i \in 1 .. Len(queue) : queue[i] = j /\ queue' = RemoveAt(queue, i)
      BY <1>0, <1>3 DEF Dequeue
    <2>u. \A u \in Threads : u # t /\ tasks[u].pc = "dequeue" => tasks[u].row # j
      BY <2>1 DEF QueueInv, RowsInFlight
    <2> HIDE DEF j
    <2>6. /\ queue' \in Seq(Jobs)
          /\ \A k \in Jobs : k # j => (Contains(queue', k) <=> Contains(queue, k))
          /\ Keyed(queue')
          /\ ~Contains(queue', j)
          /\ \A k \in 1 .. Len(queue') : Contains(queue, queue'[k])
      BY <1>0, <2>5, RemoveAtProps DEF QueueInv, QueueIsKeyed
    <2>7. \A k \in 1 .. Len(queue') : jobs'[queue'[k]] # NoJob
      <3> SUFFICES ASSUME NEW k \in 1 .. Len(queue') PROVE jobs'[queue'[k]] # NoJob
        OBVIOUS
      <3>1. queue'[k] \in Jobs /\ \E n \in 1 .. Len(queue) : queue[n] = queue'[k]
        BY <2>6 DEF Contains
      <3> QED
        BY <1>k, <2>4, <3>1 DEF RowsStay
    <2>8. NoneStranded
      BY <2>3, <2>6 DEF NoneStranded, Stranded
    <2>9. ASSUME NEW u \in Threads
          PROVE  /\ tasks'[u].pc = "dequeue" => Contains(queue', tasks'[u].row)
                 /\ tasks'[u].pc = "enqueue" /\ tasks'[u].queued => ~Contains(queue', tasks'[u].row)
      <3>1. CASE u = t
        BY <2>2, <3>1
      <3>2. CASE u # t /\ tasks'[u].pc \in {"dequeue", "enqueue"}
        <4>1. tasks'[u] = tasks[u]
          BY <1>2, <3>2
        <4>2. tasks[u].row \in Jobs
          BY <3>2, <4>1 DEF TypeInv, HandlersHaveJobs, QueuePcs
        <4> QED
          BY <2>u, <2>6, <3>2, <4>1, <4>2 DEF QueueInv, RowsInFlight
      <3> QED
        BY <3>1, <3>2
    <2>10. RowsInFlight'
      BY <1>2, <2>2, <2>9 DEF QueueInv, RowsInFlight
    <2> QED
      BY <2>6, <2>7, <2>8, <2>10 DEF QueueInv, QueueIsKeyed, QueueStep
  <1>4. CASE EnqueueInsert(t)
    <2>1. UNCHANGED << jobs, queue >> /\ tasks[t].pc = "dispatch" /\ ~InsertPending(j)
      BY <1>4 DEF EnqueueInsert
    <2>2. \E r \in Task : /\ tasks' = [tasks EXCEPT ![t] = r]
                          /\ r.pc = "enqueue" /\ r.row = j /\ (r.queued <=> ~Contains(queue, j))
      <3>1. ~Dequeue(t) /\ ~EnqueueSetPending(t)
        BY <2>1 DEF Dequeue, EnqueueSetPending
      <3> QED
        BY <3>1, QueueCallShape
    <2>3. tasks'[t].pc = "enqueue" /\ tasks'[t].row = j /\ (tasks'[t].queued <=> ~Contains(queue, j))
      BY <1>0, <2>2
    <2>4. \A u \in Threads : tasks[u].pc = "enqueue" /\ tasks[u].queued => tasks[u].row # j
      BY <2>1 DEF InsertPending
    <2> HIDE DEF j
    <2>5. RowsInFlight'
      BY <1>2, <2>1, <2>3, <2>4 DEF QueueInv, RowsInFlight
    <2>6. QueueIsKeyed' /\ NoneStranded
      BY <2>1 DEF QueueInv, QueueIsKeyed, NoneStranded, Stranded
    <2> QED
      BY <2>5, <2>6 DEF QueueInv, QueueStep
  <1>5. CASE EnqueueSetPending(t)
    <2>1. /\ tasks[t].pc = "enqueue" /\ UpdateState(j, "Pending")
          /\ queue' = IF tasks[t].queued THEN Append(queue, j) ELSE queue
      BY <1>5 DEF EnqueueSetPending
    <2>2. tasks'[t].pc \notin {"dequeue", "enqueue"}
      <3>1. CASE Finish(t)
        BY <1>0, <3>1 DEF Finish, Idle
      <3>2. CASE tasks' = [tasks EXCEPT ![t] = NextRow(tasks[t])]
        <4>1. tasks'[t] = NextRow(tasks[t]) /\ tasks[t] \in Task
          BY <1>0, <3>2
        <4>2. NextRow(tasks[t]).pc = "remove"
          BY <4>1 DEF NextRow, Task
        <4> QED
          BY <4>1, <4>2
      <3> QED
        BY <1>5, <3>1, <3>2 DEF EnqueueSetPending
    <2>n. NoNewQueueOps
      BY <1>2, <2>2 DEF NoNewQueueOps
    <2>3. CASE ~tasks[t].queued
      <3>1. TornEnqueue(j)
        BY <2>1, <2>2, <2>3 DEF TornEnqueue
      <3>2. queue' = queue
        BY <2>1, <2>3
      <3> QED
        BY <1>1, <2>1, <2>n, <3>1, <3>2, UpdateStateStep DEF JobState, QueueStep
    <2>4. CASE tasks[t].queued
      <3>1. ~Contains(queue, j)
        BY <2>1, <2>4 DEF QueueInv, RowsInFlight
      <3>2. queue' = Queued(queue, j)
        BY <2>1, <2>4, <3>1 DEF Queued
      <3>3. RowsStay
        BY <1>1, <2>1, UpdateStateKeeps DEF JobState
      <3>4. \A k \in Jobs : k # j => jobs'[k] = jobs[k]
        BY <1>0, <2>1 DEF UpdateState
      <3>u. \A u \in Threads : u # t /\ tasks[u].pc = "enqueue" /\ tasks[u].queued => tasks[u].row # j
        BY <2>1, <2>4 DEF QueueInv, RowsInFlight
      <3> HIDE DEF j
      <3>5. /\ queue' \in Seq(Jobs)
            /\ Contains(queue', j)
            /\ \A k \in Jobs : k # j => (Contains(queue', k) <=> Contains(queue, k))
            /\ Keyed(queue')
            /\ \A i \in 1 .. Len(queue') : queue'[i] = j \/ Contains(queue, queue'[i])
        BY <1>0, <1>1, <3>2, QueuedProps DEF QueueInv, QueueIsKeyed
      <3>6. NoneStranded
        BY <3>4, <3>5 DEF NoneStranded, Stranded
      <3>7. \A i \in 1 .. Len(queue') : jobs'[queue'[i]] # NoJob
        <4> SUFFICES ASSUME NEW i \in 1 .. Len(queue') PROVE jobs'[queue'[i]] # NoJob
          OBVIOUS
        <4>1. queue'[i] \in Jobs /\ (queue'[i] = j \/ \E n \in 1 .. Len(queue) : queue[n] = queue'[i])
          BY <3>5 DEF Contains
        <4> QED
          BY <1>1, <1>k, <3>3, <4>1 DEF RowsStay
      <3>8. ASSUME NEW u \in Threads
            PROVE  /\ tasks'[u].pc = "dequeue" => Contains(queue', tasks'[u].row)
                   /\ tasks'[u].pc = "enqueue" /\ tasks'[u].queued => ~Contains(queue', tasks'[u].row)
        <4>1. CASE u = t
          BY <2>2, <4>1
        <4>2. CASE u # t /\ tasks'[u].pc \in {"dequeue", "enqueue"}
          <5>1. tasks'[u] = tasks[u]
            BY <1>2, <4>2
          <5>2. tasks[u].row \in Jobs
            BY <4>2, <5>1 DEF TypeInv, HandlersHaveJobs, QueuePcs
          <5> QED
            BY <3>u, <3>5, <4>2, <5>1, <5>2 DEF QueueInv, RowsInFlight
        <4> QED
          BY <4>1, <4>2
      <3>9. RowsInFlight'
        BY <1>2, <2>2, <3>8 DEF QueueInv, RowsInFlight
      <3> QED
        BY <3>5, <3>6, <3>7, <3>9 DEF QueueInv, QueueIsKeyed, QueueStep
    <2> QED
      BY <2>3, <2>4
  <1> QED
    BY <1>3, <1>4, <1>5 DEF QueueCall

LEMMA DispatchStep ==
    ASSUME TypeInv, QueueInv, NEW d \in Dispatchers, Dispatch(d)
    PROVE  QueueStep
  <1> d \in Threads
    BY DEF Threads
  <1>1. CASE ClaimQueueRow(d)
    <2>1. UNCHANGED << jobs, queue >>
      BY <1>1 DEF ClaimQueueRow, tables
    <2>2. PICK i \in DOMAIN queue, r \in Task :
             tasks' = [tasks EXCEPT ![d] = r] /\ r.pc = "dequeue" /\ r.row = queue[i] /\ Claimable(i)
      BY <1>1, ClaimShape
    <2> QED
      BY <2>1, <2>2, ClaimStep
  <1>2. CASE DispatchFails(d)
    BY <1>2, FinishIsNoQueueOp, QuietStep DEF DispatchFails, tables
  <1> QED
    BY <1>1, <1>2, QueueCallStep DEF Dispatch

LEMMA ScheduleStep ==
    ASSUME TypeInv, QueueInv, NEW t \in Threads, Schedule(t)
    PROVE  QueueStep
  <1>1. UNCHANGED << jobs, queue >>
    BY ScheduleShape
  <1>2. PICK r \in Task :
          /\ tasks' = [tasks EXCEPT ![t] = r]
          /\ \/ r = Idle \/ r.pc \notin QueuePcs
             \/ r.pc = "dequeue" /\ \E i \in DOMAIN queue : r.row = queue[i] /\ Claimable(i)
    BY ScheduleShape
  <1>3. CASE r = Idle \/ r.pc \notin QueuePcs
    <2>1. r.pc \notin {"dequeue", "enqueue"}
      BY <1>3 DEF Idle, QueuePcs
    <2> QED
      BY <1>1, <1>2, <2>1, MovesOut, QuietStep
  <1>4. CASE r.pc = "dequeue" /\ \E i \in DOMAIN queue : r.row = queue[i] /\ Claimable(i)
    BY <1>1, <1>2, <1>4, ClaimStep
  <1> QED
    BY <1>2, <1>3, <1>4

\* A request that only reads, or that creates the job.
LEMMA RequestStep ==
    ASSUME TypeInv, QueueInv, NEW t \in Tasks, Request(t)
    PROVE  QueueStep
  <1> t \in Threads
    BY DEF Threads
  <1>1. ASSUME NEW op, NEW pc \in {"before", "write"}, NEW j, NEW w, NEW results,
               ReadModify(t, op, pc, j, w, results)
        PROVE  QueueStep
    <2>1. NoNewQueueOps
      BY <1>1, StartIsNoQueueOp DEF ReadModify
    <2> QED
      BY <1>1, <2>1, QuietStep DEF ReadModify, tables
  <1>2. ASSUME NEW j \in Jobs, CreateJob(t, j) \/ ScheduleJob(t, j) PROVE QueueStep
    <2>1. NewJob \in Job /\ SaveRow(j, NewJob)
      BY <1>2 DEF CreateJob, ScheduleJob, NewJob, Job, JobState
    <2>2. NoNewQueueOps
      BY <1>2, StartIsNoQueueOp DEF CreateJob, ScheduleJob, NoNewQueueOps
    <2> QED
      BY <2>1, <2>2, SaveRowStep
  <1>3. ASSUME NEW j \in Jobs, NEW w \in Workers, ExecuteJob(t, j, w) PROVE QueueStep
    <2>1. NoNewQueueOps
      <3>1. CASE UNCHANGED tasks
        BY <3>1 DEF NoNewQueueOps
      <3>2. ASSUME NEW copy, Start(t, "execute_job", "write", j, w, copy) PROVE NoNewQueueOps
        BY <3>2, StartIsNoQueueOp
      <3> QED
        BY <1>3, <3>1, <3>2 DEF ExecuteJob
    <2> QED
      BY <1>3, <2>1, QuietStep DEF ExecuteJob, tables
  <1>4. ASSUME NEW j \in Jobs,
               \/ CancelJob(t, j) \/ RetryJob(t, j) \/ StartJob(t, j) \/ UpdateProgress(t, j)
               \/ CompleteJob(t, j) \/ FailJob(t, j) \/ TimeoutJob(t, j)
               \/ RequestWorkerProvisioning(t, j)
               \/ \E s \in {"Succeeded", "Failed"} : CompleteJobCommand(t, j, s)
               \/ \E w \in Workers : AssignJob(t, j, w) \/ AssignWorker(t, j, w)
        PROVE  QueueStep
    BY <1>1, <1>4 DEF CancelJob, RetryJob, StartJob, UpdateProgress, CompleteJob, FailJob, TimeoutJob,
       RequestWorkerProvisioning, CompleteJobCommand, AssignJob, AssignWorker
  <1> QED
    BY <1>2, <1>3, <1>4 DEF Request

LEMMA ContinueStep ==
    ASSUME TypeInv, QueueInv, NEW t \in Tasks, Continue(t)
    PROVE  QueueStep
  <1> t \in Threads
    BY DEF Threads
  <1>1. ASSUME NEW w \in Workers, AssignJobWorker(t, w) PROVE QueueStep
    <2>1. NoNewQueueOps
      BY <1>1, GotoIsNoQueueOp DEF AssignJobWorker
    <2> QED
      BY <1>1, <2>1, QuietStep DEF AssignJobWorker
  <1>2. CASE \/ \E w \in Workers : MarkWorkerBusy(t, w)
             \/ CleanUpWorker(t) \/ CompleteJobReleaseWorker(t) \/ ProvisionAfterAssign(t)
    <2>1. Finish(t) /\ UNCHANGED << jobs, queue >>
      BY <1>2 DEF MarkWorkerBusy, CleanUpWorker, CompleteJobReleaseWorker, ProvisionAfterAssign, tables
    <2> QED
      BY <2>1, FinishIsNoQueueOp, QuietStep
  <1>3. CASE CompleteJobSetState(t)
    <2>0. tasks[t] \in Task
      BY DEF TypeInv, TypeOK
    <2>1. tasks[t].job \in Jobs /\ jobs[tasks[t].job] # NoJob
      BY <1>3 DEF CompleteJobSetState, At, TypeInv, HandlersHaveJobs
    <2>2. NoNewQueueOps
      BY <1>3, FinishIsNoQueueOp, GotoIsNoQueueOp DEF CompleteJobSetState
    <2>3. tasks[t].copy.state \in JobState \ {"Pending"}
      BY <1>3, <2>0 DEF CompleteJobSetState, At, TypeInv, HandlersHaveJobs, Task, Job
    <2> QED
      BY <1>3, <2>1, <2>2, <2>3, UpdateStateStep DEF CompleteJobSetState, QueueStep
  <1> QED
    BY <1>1, <1>2, <1>3 DEF Continue

LEMMA StreamStep ==
    ASSUME TypeInv, QueueInv, NEW w \in Workers, Stream(w)
    PROVE  QueueStep
  <1> w \in Threads
    BY DEF Threads
  <1>1. ASSUME NEW op, NEW results, Receive(w, op, results) PROVE QueueStep
    <2>1. NoNewQueueOps
      <3>1. CASE UNCHANGED tasks
        BY <3>1 DEF NoNewQueueOps
      <3>2. ASSUME NEW copy, Start(w, op, "write", Head(stream[w]).job, w, copy) PROVE NoNewQueueOps
        BY <3>2, StartIsNoQueueOp
      <3> QED
        BY <1>1, <3>1, <3>2 DEF Receive
    <2> QED
      BY <1>1, <2>1, QuietStep DEF Receive, tables
  <1>2. CASE OnJobAcknowledged(w) \/ OnJobResult(w)
    BY <1>1, <1>2 DEF OnJobAcknowledged, OnJobResult
  <1>3. CASE ReleaseAfterResult(w) \/ HeartbeatSetsReady(w)
    <2>1. Finish(w) /\ UNCHANGED << jobs, queue >>
      BY <1>3 DEF ReleaseAfterResult, HeartbeatSetsReady
    <2> QED
      BY <2>1, FinishIsNoQueueOp, QuietStep
  <1>4. CASE OnWorkerHeartbeat(w)
    <2>1. NoNewQueueOps
      BY <1>4, StartIsNoQueueOp DEF OnWorkerHeartbeat
    <2> QED
      BY <1>4, <2>1, QuietStep DEF OnWorkerHeartbeat, tables
  <1> QED
    BY <1>2, <1>3, <1>4 DEF Stream

LEMMA SaveStep ==
    ASSUME TypeInv, QueueInv, NEW t \in Threads, Save(t)
    PROVE  QueueStep
  <1>0. tasks[t] \in Task
    BY DEF TypeInv, TypeOK
  <1>1. tasks[t].op \notin {"idle", "on_worker_heartbeat", "dispatch_once"}
    BY DEF Save, SaveOps
  <1>2. tasks[t].job \in Jobs /\ tasks[t].copy \in Job
    BY <1>0, <1>1 DEF TypeInv, HandlersHaveJobs, Task
  <1>3. NoNewQueueOps
    <2>1. PICK r \in Task : /\ tasks' = [tasks EXCEPT ![t] = r]
                            /\ r = Idle \/ r.pc = "after" \/ r.pc = "dispatch"
      BY SaveMoves
    <2>2. r.pc \notin {"dequeue", "enqueue"}
      BY <2>1 DEF Idle
    <2> QED
      BY <2>1, <2>2, MovesOut
  <1> QED
    BY <1>2, <1>3, SaveRowStep DEF Save

\* One step of any handler keeps the queue in order; the recovery command is the
\* only one that sets PENDING without it.
LEMMA QueueInvStep ==
    ASSUME TypeInv, QueueInv
    PROVE  /\ [Next]_vars => QueueStep
           /\ [FullNext]_vars => QueueInv'
  <1>1. ASSUME NEW t \in Threads, Abort(t) PROVE QueueStep
    BY <1>1, FinishIsNoQueueOp, QuietStep DEF Abort, tables
  <1>2. ASSUME NEW w \in Workers, Agent(w) PROVE QueueStep
    <2>1. UNCHANGED << jobs, queue, tasks >>
      BY <1>2 DEF Agent, AgentFinishes, AgentCrashes, tables
    <2> QED
      BY <2>1, QuietStep DEF NoNewQueueOps
  <1>3. ASSUME NEW t \in Tasks, NEW w \in Workers, ReleaseWorker(t, w) PROVE QueueStep
    BY <1>3, QuietStep DEF ReleaseWorker, NoNewQueueOps
  <1>4. ASSUME CheckedNext PROVE QueueStep
    BY <1>1, <1>2, <1>3, <1>4, RequestStep, ContinueStep, ScheduleStep, QueueCallStep, StreamStep,
       DispatchStep, SaveStep DEF CheckedNext, Threads
  <1>5. ASSUME BlindNext PROVE QueueStep
    <2>1. NoNewQueueOps
      BY <1>5 DEF BlindNext, UpdateJobState, MarkJobFailed, NoNewQueueOps
    <2>2. ASSUME NEW t \in Tasks, NEW j \in Jobs, UpdateJobState(t, j) \/ MarkJobFailed(t, j) PROVE QueueStep
      BY <2>1, <2>2, UpdateStateStep DEF UpdateJobState, MarkJobFailed, JobState, QueueStep
    <2> QED
      BY <1>5, <2>2 DEF BlindNext
  <1>6. ASSUME RecoveryNext PROVE QueueInv'
    <2>1. NoNewQueueOps
      BY <1>6 DEF RecoveryNext, MarkJobForRecovery, NoNewQueueOps
    <2> QED
      BY <1>6, <2>1, UpdateStateStep DEF RecoveryNext, MarkJobForRecovery, JobState
  <1>7. ASSUME UNCHANGED vars PROVE QueueStep
    BY <1>7, QuietStep DEF vars, NoNewQueueOps
  <1> QED
    BY <1>4, <1>5, <1>6, <1>7 DEF Next, FullNext, QueueStep

LEMMA TablesInvInit == Init => TablesInv
  <1> SUFFICES ASSUME Init PROVE TablesInv
    OBVIOUS
  <1>1. QueueIsKeyed
    BY DEF Init, QueueIsKeyed, Keyed
  <1>2. RowsInFlight
    BY DEF Init, RowsInFlight, Idle
  <1> QED
    BY <1>1, <1>2, TypeInvInit DEF TablesInv

LEMMA TablesInvStep == ASSUME TablesInv, [FullNext]_vars PROVE TablesInv'
  <1>1. TypeInv'
    BY TypeInvStep DEF TablesInv
  <1>2. QueueInv'
    BY QueueInvStep DEF TablesInv, QueueInv
  <1> QED
    BY <1>1, <1>2 DEF TablesInv, QueueInv

\* However the handlers, the scheduler service and any number of dispatchers
\* interleave, and whichever of them fails between two statements, a job gets
\* PENDING without a queue row in one way only: the commit of an enqueue whose
\* insert found the key, which another dequeue has deleted since.
THEOREM PendingStaysQueued == Spec => PendingIsQueued
  <1>1. ASSUME TablesInv, [Next]_vars PROVE TablesInv'
    BY <1>1, TablesInvStep DEF FullNext
  <1>2. ASSUME TablesInv, [Next]_vars
        PROVE  [ \A j \in Jobs : ~Stranded(j) /\ Stranded(j)' =>
                   \E t \in Threads : /\ tasks[t].pc = "enqueue" /\ tasks'[t].pc # "enqueue"
                                      /\ tasks[t].row = j /\ ~tasks[t].queued ]_vars
    <2>1. NoneStranded
      BY <1>2, QueueInvStep DEF TablesInv, QueueInv, QueueStep
    <2> QED
      BY <2>1 DEF NoneStranded, TornEnqueue
  <1> QED
    BY <1>1, <1>2, TablesInvInit, PTL DEF Spec, PendingIsQueued

\* A job is in the queue at most once, and never without a row in the jobs table,
\* under every handler and with any number of dispatchers.
THEOREM QueueStaysKeyed == FullSpec => []QueueIsKeyed
  <1>1. TablesInv => QueueIsKeyed
    BY DEF TablesInv
  <1> QED
    BY <1>1, TablesInvInit, TablesInvStep, PTL DEF FullSpec

-----------------------------------------------------------------------------
(* What a step does to the rows and to the handlers in flight.  Both proofs *)
(* below look at a step only through this.                                  *)

\* The copies a saving handler may take of a row.
Methods(row) ==
    {row} \cup SubmitToProvider(row) \cup AssignToProvider(row) \cup MarkRunning(row)
          \cup SetState(row, "Assigned") \cup Complete(row, "Succeeded") \cup Fail(row)
          \cup Cancel(row) \cup TimeOut(row) \cup PrepareRetry(row)

\* Handler q has a copy that it will save.
ToSave(q) ==
    /\ q.op \in SaveOps
    /\ q.pc # "after"
    /\ q.op = "enqueue_job" => q.pc = "write"

\* Handler q ends as r, or goes on as r with the job and the copy it has.
SameHandler(q, r) ==
    \/ r = Idle
    \/ /\ q.pc # "idle"
       /\ r.op = q.op /\ r.job = q.job /\ r.copy = q.copy
       /\ ToSave(r) => ToSave(q)
       /\ q.pc = "after" => r.pc = "after"

\* A queue row is the one the handler has already, or a PENDING one just locked.
TakesRow(q, r) ==
    r.pc \in QueuePcs => \/ q.pc \in QueuePcs /\ r.row = q.row
                         \/ r.row \in Jobs /\ jobs[r.row] # NoJob /\ jobs[r.row].state = "Pending"

Follows(q, r) == SameHandler(q, r) /\ TakesRow(q, r)

\* Handler r starts: it has just read the row of its job, or locked a queue row.
Begins(r) ==
    LET row == jobs[r.job] IN
    /\ r.op \in SaveOps \cup {"complete_job_command"} => r.job \in Jobs /\ row # NoJob
    /\ r.op \in SaveOps => r.copy \in Methods(row)
    /\ r.op = "complete_job_command" =>
          r.copy \in SetState(row, "Succeeded") \cup SetState(row, "Failed")
    /\ r.op \notin {"idle", "schedule_read", "make_decision", "enqueue_job"}
    /\ TakesRow(Idle, r)
    /\ Cardinality(InFlight) < MaxInFlight

\* schedule_job goes on from one of its phases to the next.
Decides(q, r) ==
    /\ r.job = q.job /\ r.job \in Jobs /\ jobs[r.job] # NoJob
    /\ r.pc \notin QueuePcs
    /\ \/ q.op = "schedule_read" /\ r.op = "make_decision" /\ r.copy = jobs[r.job]
       \/ q.op = "make_decision" /\ r.op = "schedule_job" /\ r.copy \in Methods(q.copy)
       \/ q.op = "make_decision" /\ r.op = "enqueue_job" /\ r.copy = q.copy

\* Handler q writes the row of its job, or of its queue row, and is r afterwards.
Writes(q, r) ==
    \/ /\ q.op \in SaveOps /\ q.pc = "write"
       /\ jobs' = [jobs EXCEPT ![q.job] = q.copy]
       /\ r = Idle \/ r.pc = "after" \/ (q.op = "enqueue_job" /\ r.pc = "dispatch" /\ r.row = q.job)
    \/ /\ q.op = "complete_job_command" /\ q.pc = "write"
       /\ UpdateState(q.job, q.copy.state)
       /\ r = Idle \/ r.pc = "after"
    \/ /\ q.pc = "dequeue" /\ UpdateState(q.row, "Assigned")
       /\ r.pc \in QueuePcs => r.row = q.row
    \/ /\ q.pc = "enqueue" /\ UpdateState(q.row, "Pending")
       /\ r.pc \notin QueuePcs

\* schedule_job starts on the job it has created.
Schedules(r, j) ==
    /\ r.op = "schedule_read" /\ r.job = j
    /\ r.pc \notin QueuePcs
    /\ Cardinality(InFlight) < MaxInFlight

\* One handler moves and the rows stay; one handler writes; a job is created.
Turn == UNCHANGED jobs /\ \E t \in Threads, r \in Task :
            /\ tasks' = [tasks EXCEPT ![t] = r]
            /\ Follows(tasks[t], r) \/ Begins(r) \/ Decides(tasks[t], r)
Write == \E t \in Threads, r \in Task :
            /\ tasks' = [tasks EXCEPT ![t] = r]
            /\ SameHandler(tasks[t], r)
            /\ Writes(tasks[t], r)
Creation == \E j \in Jobs :
            /\ jobs' = [jobs EXCEPT ![j] = NewJob]
            /\ \/ UNCHANGED tasks
               \/ \E t \in Threads, r \in Task : tasks' = [tasks EXCEPT ![t] = r] /\ Schedules(r, j)
CheckedShape == UNCHANGED << jobs, tasks >> \/ Turn \/ Write \/ Creation

\* A terminal state written without looking.
Blind == UNCHANGED tasks /\ \E j \in Jobs, s \in {"Cancelled", "Failed"} :
            jobs[j] # NoJob /\ UpdateState(j, s)

LEMMA IdleTyped ==
    /\ Idle \in Task /\ Idle.op = "idle" /\ Idle.pc = "idle" /\ Idle.pc \notin QueuePcs
    /\ Idle.job = NoJob /\ Idle.row = NoJob
  BY DEF Idle, Task, NewJob, Job, JobState, QueuePcs

\* A handler that ends without a write.
LEMMA FinishTurn ==
    ASSUME NEW t \in Threads, Finish(t), UNCHANGED jobs
    PROVE  Turn
  BY IdleTyped DEF Finish, Turn, Follows, SameHandler, TakesRow

\* A handler that goes on without a write.
LEMMA GotoFollows ==
    ASSUME TypeInv, NEW t \in Threads, NEW pc \in {"write", "after"}, Goto(t, pc),
           tasks[t].pc \notin {"idle", "after"}, tasks[t].op # "enqueue_job"
    PROVE  \E r \in Task : /\ tasks' = [tasks EXCEPT ![t] = r]
                           /\ Follows(tasks[t], r)
                           /\ SameHandler(tasks[t], r)
                           /\ r.pc = pc
  <1> DEFINE r == [tasks[t] EXCEPT !.pc = pc]
  <1>0. tasks[t] \in Task
    BY DEF TypeInv, TypeOK
  <1>1. r \in Task /\ r.op = tasks[t].op /\ r.job = tasks[t].job /\ r.copy = tasks[t].copy /\ r.pc = pc
    BY <1>0 DEF Task
  <1>2. tasks' = [tasks EXCEPT ![t] = r]
    BY DEF Goto
  <1> HIDE DEF r
  <1>3. SameHandler(tasks[t], r)
    BY <1>1 DEF SameHandler, ToSave
  <1>4. Follows(tasks[t], r)
    BY <1>1, <1>3 DEF Follows, TakesRow, QueuePcs
  <1> QED
    BY <1>1, <1>2, <1>3, <1>4

\* A handler that starts.
LEMMA StartTurn ==
    ASSUME TypeInv, NEW t \in Threads, NEW op, NEW pc \in {"before", "write"},
           NEW j \in Jobs, NEW w \in Workers \cup {NoWorker}, NEW copy \in Job,
           jobs[j] # NoJob, UNCHANGED jobs, Start(t, op, pc, j, w, copy),
           \/ op \in SaveOps \ {"enqueue_job"} /\ copy \in Methods(jobs[j])
           \/ /\ op = "complete_job_command"
              /\ copy \in SetState(jobs[j], "Succeeded") \cup SetState(jobs[j], "Failed")
    PROVE  Turn
  <1> DEFINE r == [ op |-> op, pc |-> pc, job |-> j, worker |-> w, copy |-> copy,
                    row |-> NoJob, queued |-> FALSE, left |-> 0 ]
  <1>1. r \in Task
    BY DEF Task
  <1>2. tasks' = [tasks EXCEPT ![t] = r]
    BY DEF Start
  <1>3. r.op = op /\ r.job = j /\ r.copy = copy /\ r.pc = pc
    OBVIOUS
  <1> HIDE DEF r
  <1>4. Begins(r)
    BY <1>3 DEF Begins, TakesRow, SaveOps, QueuePcs, Start, MayStart
  <1> QED
    BY <1>1, <1>2, <1>4 DEF Turn

\* The reading half of a saving handler.
LEMMA ReadModifyTurn ==
    ASSUME TypeInv, NEW t \in Threads, NEW op \in SaveOps \ {"enqueue_job"}, NEW pc \in {"before", "write"},
           NEW j \in Jobs, NEW w \in Workers \cup {NoWorker}, NEW results,
           jobs[j] # NoJob => results \subseteq Job /\ results \subseteq Methods(jobs[j]),
           ReadModify(t, op, pc, j, w, results)
    PROVE  Turn
  <1>1. jobs[j] # NoJob /\ UNCHANGED jobs
    BY DEF ReadModify, tables
  <1>2. PICK copy \in results : Start(t, op, pc, j, w, copy)
    BY DEF ReadModify
  <1>3. copy \in Job /\ copy \in Methods(jobs[j])
    BY <1>1
  <1> QED
    BY <1>1, <1>2, <1>3, StartTurn

\* Each step of a client's request or saga command.
LEMMA RequestShape ==
    ASSUME TypeInv, NEW t \in Tasks, Request(t)
    PROVE  CheckedShape
  <1> t \in Threads
    BY DEF Threads
  <1> PICK j \in Jobs :
        \/ CreateJob(t, j) \/ ScheduleJob(t, j) \/ CancelJob(t, j) \/ RetryJob(t, j)
        \/ StartJob(t, j) \/ UpdateProgress(t, j) \/ CompleteJob(t, j) \/ FailJob(t, j)
        \/ TimeoutJob(t, j) \/ RequestWorkerProvisioning(t, j)
        \/ \E s \in {"Succeeded", "Failed"} : CompleteJobCommand(t, j, s)
        \/ \E w \in Workers : AssignJob(t, j, w) \/ AssignWorker(t, j, w) \/ ExecuteJob(t, j, w)
    BY DEF Request
  <1> DEFINE Allowed(results) ==
               jobs[j] # NoJob => results \subseteq Job /\ results \subseteq Methods(jobs[j])
  <1>0. jobs[j] # NoJob => jobs[j] \in Job
    BY DEF TypeInv, TypeOK
  <1>1. /\ Allowed({jobs[j]})
        /\ Allowed(SetState(jobs[j], "Assigned")) /\ Allowed(Complete(jobs[j], "Succeeded"))
        /\ Allowed(SubmitToProvider(jobs[j])) /\ Allowed(AssignToProvider(jobs[j]))
        /\ Allowed(MarkRunning(jobs[j])) /\ Allowed(Fail(jobs[j]))
        /\ Allowed(Cancel(jobs[j])) /\ Allowed(PrepareRetry(jobs[j]))
    BY <1>0, MethodsTyped DEF Methods, JobState
  <1>2. ASSUME NEW results, Allowed(results) PROVE Allowed(WithContext(j, results))
    BY <1>2 DEF WithContext
  <1>3. ASSUME NEW op \in SaveOps \ {"enqueue_job"}, NEW pc \in {"before", "write"}, NEW w \in Workers \cup {NoWorker},
               NEW results, Allowed(results), ReadModify(t, op, pc, j, w, results)
        PROVE  Turn
    BY <1>3, ReadModifyTurn
  <1> HIDE DEF Allowed
  <1>4. CASE CreateJob(t, j)
    BY <1>4 DEF CreateJob, SaveRow, Creation, CheckedShape
  <1>10. CASE ScheduleJob(t, j)
    <2> DEFINE r == [ op |-> "schedule_read", pc |-> "before", job |-> j, worker |-> NoWorker,
                      copy |-> NewJob, row |-> NoJob, queued |-> FALSE, left |-> 0 ]
    <2>1. r \in Task
      BY DEF Task, NewJob, Job, JobState
    <2>2. /\ tasks' = [tasks EXCEPT ![t] = r] /\ jobs' = [jobs EXCEPT ![j] = NewJob]
          /\ Cardinality(InFlight) < MaxInFlight
      BY <1>10 DEF ScheduleJob, SaveRow, Start, MayStart
    <2>3. r.op = "schedule_read" /\ r.job = j /\ r.pc \notin QueuePcs
      BY DEF QueuePcs
    <2> HIDE DEF r
    <2>4. Schedules(r, j)
      BY <2>2, <2>3 DEF Schedules
    <2> QED
      BY <2>1, <2>2, <2>4 DEF Creation, CheckedShape
  <1>5. CASE CancelJob(t, j) \/ RetryJob(t, j) \/ TimeoutJob(t, j) \/ RequestWorkerProvisioning(t, j)
    BY <1>1, <1>3, <1>5
       DEF CancelJob, RetryJob, TimeoutJob, RequestWorkerProvisioning, SaveOps, CheckedShape
  <1>6. CASE StartJob(t, j) \/ UpdateProgress(t, j) \/ CompleteJob(t, j) \/ FailJob(t, j)
    BY <1>1, <1>2, <1>3, <1>6
       DEF StartJob, UpdateProgress, CompleteJob, FailJob, SaveOps, CheckedShape
  <1>7. ASSUME NEW w \in Workers, AssignJob(t, j, w) \/ AssignWorker(t, j, w) PROVE Turn
    BY <1>1, <1>3, <1>7 DEF AssignJob, AssignWorker, SaveOps
  <1>8. ASSUME NEW s \in {"Succeeded", "Failed"}, CompleteJobCommand(t, j, s) PROVE Turn
    <2>1. jobs[j] # NoJob /\ UNCHANGED jobs
      BY <1>8 DEF CompleteJobCommand, ReadModify, tables
    <2>2. PICK copy \in SetState(jobs[j], s) : Start(t, "complete_job_command", "write", j, NoWorker, copy)
      BY <1>8 DEF CompleteJobCommand, ReadModify
    <2>3. copy \in Job
      BY <1>0, <2>1, MethodsTyped DEF JobState
    <2> QED
      BY <2>1, <2>2, <2>3, StartTurn
  <1>9. ASSUME NEW w \in Workers, ExecuteJob(t, j, w) PROVE CheckedShape
    <2>1. jobs[j] # NoJob /\ UNCHANGED jobs
      BY <1>9 DEF ExecuteJob, tables
    <2>2. CASE UNCHANGED tasks
      BY <2>1, <2>2 DEF CheckedShape
    <2>3. ASSUME NEW copy \in MarkRunning(jobs[j]), Start(t, "execute_job", "write", j, w, copy)
          PROVE  Turn
      <3>1. copy \in Job /\ copy \in Methods(jobs[j])
        BY <1>1, <2>1 DEF Allowed
      <3> QED
        BY <2>1, <2>3, <3>1, StartTurn DEF SaveOps
    <2> QED
      BY <1>9, <2>2, <2>3 DEF ExecuteJob, CheckedShape
  <1> QED
    BY <1>4, <1>5, <1>6, <1>7, <1>8, <1>9, <1>10 DEF CheckedShape

\* What a handler does after its write, and the completion command's write.
LEMMA ContinueShape ==
    ASSUME TypeInv, NEW t \in Tasks, Continue(t)
    PROVE  CheckedShape
  <1> t \in Threads
    BY DEF Threads
  <1>1. ASSUME NEW w \in Workers, AssignJobWorker(t, w) PROVE Turn
    <2>1. /\ Goto(t, "write") /\ UNCHANGED jobs
          /\ tasks[t].pc \notin {"idle", "after"} /\ tasks[t].op # "enqueue_job"
      BY <1>1 DEF AssignJobWorker, At
    <2> QED
      BY <2>1, GotoFollows DEF Turn
  <1>2. CASE \/ \E w \in Workers : MarkWorkerBusy(t, w)
             \/ CleanUpWorker(t) \/ CompleteJobReleaseWorker(t) \/ ProvisionAfterAssign(t)
    <2>1. Finish(t) /\ UNCHANGED jobs
      BY <1>2 DEF MarkWorkerBusy, CleanUpWorker, CompleteJobReleaseWorker, ProvisionAfterAssign, tables
    <2> QED
      BY <2>1, FinishTurn DEF CheckedShape
  <1>3. CASE CompleteJobSetState(t)
    <2>1. /\ tasks[t].op = "complete_job_command" /\ tasks[t].pc = "write"
          /\ UpdateState(tasks[t].job, tasks[t].copy.state)
      BY <1>3 DEF CompleteJobSetState, At
    <2>2. CASE Finish(t)
      <3>1. SameHandler(tasks[t], Idle) /\ Writes(tasks[t], Idle)
        BY <2>1 DEF SameHandler, Writes
      <3> QED
        BY <2>2, <3>1, IdleTyped DEF Finish, Write, CheckedShape
    <2>3. CASE Goto(t, "after")
      <3>1. PICK r \in Task : tasks' = [tasks EXCEPT ![t] = r] /\ SameHandler(tasks[t], r) /\ r.pc = "after"
        BY <2>1, <2>3, GotoFollows
      <3>2. Writes(tasks[t], r)
        BY <2>1, <3>1 DEF Writes
      <3> QED
        BY <3>1, <3>2 DEF Write, CheckedShape
    <2> QED
      BY <1>3, <2>2, <2>3 DEF CompleteJobSetState
  <1> QED
    BY <1>1, <1>2, <1>3 DEF Continue, CheckedShape

\* The stream task reads the job of the message it takes.
LEMMA StreamShape ==
    ASSUME TypeInv, NEW w \in Workers, Stream(w)
    PROVE  CheckedShape
  <1> w \in Threads
    BY DEF Threads
  <1> DEFINE j == Head(stream[w]).job
             type == Head(stream[w]).type
  <1>1. stream[w] # << >> =>
           /\ j \in Jobs /\ jobs[j] # NoJob /\ jobs[j] \in Job
           /\ type \in {"ack", "success", "failure", "timeout"}
    <2> SUFFICES ASSUME stream[w] # << >>
                 PROVE  /\ j \in Jobs /\ jobs[j] # NoJob /\ jobs[j] \in Job
                        /\ type \in {"ack", "success", "failure", "timeout"}
      OBVIOUS
    <2>1. stream[w] \in Seq(Message)
      BY DEF TypeInv, TypeOK
    <2>2. Head(stream[w]) = stream[w][1] /\ 1 \in 1 .. Len(stream[w]) /\ stream[w][1] \in Message
      BY <2>1
    <2>3. stream[w][1].job \in Jobs /\ jobs[stream[w][1].job] # NoJob
      BY <2>2 DEF Message, TypeInv, AgentsHaveJobs
    <2> QED
      BY <2>2, <2>3 DEF Message, TypeInv, TypeOK
  <1>2. ASSUME NEW op \in SaveOps \ {"enqueue_job"}, NEW results, stream[w] # << >>, Receive(w, op, results),
               results \subseteq Job, results \subseteq Methods(jobs[j])
        PROVE  CheckedShape
    <2>1. UNCHANGED jobs
      BY <1>2 DEF Receive, tables
    <2>2. CASE UNCHANGED tasks
      BY <2>1, <2>2 DEF CheckedShape
    <2>3. ASSUME NEW copy \in results, Start(w, op, "write", j, w, copy) PROVE Turn
      <3>1. copy \in Job /\ copy \in Methods(jobs[j])
        BY <1>2
      <3> QED
        BY <1>1, <1>2, <2>1, <2>3, <3>1, StartTurn
    <2> QED
      BY <1>2, <2>2, <2>3 DEF Receive, CheckedShape
  <1>3. stream[w] # << >> =>
          /\ MarkRunning(jobs[j]) \subseteq Job
          /\ Complete(jobs[j], "Succeeded") \subseteq Job
          /\ TimeOut(jobs[j]) \subseteq Job
          /\ Fail(jobs[j]) \subseteq Job
    BY <1>1, MethodsTyped DEF JobState
  <1>4. CASE OnJobAcknowledged(w)
    <2>1. stream[w] # << >> /\ Receive(w, "on_job_acknowledged", MarkRunning(jobs[j]))
      BY <1>4 DEF OnJobAcknowledged
    <2>2. MarkRunning(jobs[j]) \subseteq Methods(jobs[j])
      BY DEF Methods
    <2> HIDE DEF j, type
    <2> QED
      BY <1>2, <1>3, <2>1, <2>2 DEF SaveOps
  <1>5. CASE OnJobResult(w)
    <2>1. /\ stream[w] # << >> /\ type # "ack"
          /\ Receive(w, "on_job_result", ResultOf(jobs[j], type))
      BY <1>5 DEF OnJobResult
    <2>2. /\ Complete(jobs[j], "Succeeded") \subseteq Methods(jobs[j])
          /\ TimeOut(jobs[j]) \subseteq Methods(jobs[j])
          /\ Fail(jobs[j]) \subseteq Methods(jobs[j])
      BY DEF Methods
    <2> HIDE DEF j, type
    <2>3. type \in {"success", "failure", "timeout"}
      BY <1>1, <2>1
    <2>4. ResultOf(jobs[j], type) \subseteq Job /\ ResultOf(jobs[j], type) \subseteq Methods(jobs[j])
      BY <1>3, <2>1, <2>2, <2>3 DEF ResultOf
    <2> QED
      BY <1>2, <2>1, <2>4 DEF SaveOps
  <1>6. CASE ReleaseAfterResult(w) \/ HeartbeatSetsReady(w)
    <2>1. Finish(w) /\ UNCHANGED jobs
      BY <1>6 DEF ReleaseAfterResult, HeartbeatSetsReady
    <2> QED
      BY <2>1, FinishTurn DEF CheckedShape
  <1>7. CASE OnWorkerHeartbeat(w)
    <2> DEFINE r == [ op |-> "on_worker_heartbeat", pc |-> "write", job |-> NoJob, worker |-> w,
                      copy |-> NewJob, row |-> NoJob, queued |-> FALSE, left |-> 0 ]
    <2>1. r \in Task /\ r.op = "on_worker_heartbeat" /\ r.pc = "write"
      BY DEF Task, NewJob, Job, JobState
    <2>2. tasks' = [tasks EXCEPT ![w] = r] /\ UNCHANGED jobs
      BY <1>7 DEF OnWorkerHeartbeat, Start, tables
    <2> HIDE DEF r
    <2>3. Begins(r)
      BY <1>7, <2>1 DEF Begins, TakesRow, QueuePcs, SaveOps, OnWorkerHeartbeat, Start, MayStart
    <2> QED
      BY <2>1, <2>2, <2>3 DEF Turn, CheckedShape
  <1> QED
    BY <1>4, <1>5, <1>6, <1>7 DEF Stream

\* The queue writes the column of the job whose row a handler moves.
LEMMA QueueCallWrites ==
    ASSUME TypeInv, NEW t \in Threads, QueueCall(t)
    PROVE  CheckedShape
  <1> DEFINE q == tasks[t]
  <1>0. q.pc \in QueuePcs /\ q.pc # "idle" /\ q.pc # "after"
    BY DEF QueueCall, Dequeue, EnqueueInsert, EnqueueSetPending, QueuePcs
  <1>1. PICK r \in Task :
          /\ tasks' = [tasks EXCEPT ![t] = r]
          /\ \/ r = Idle /\ EnqueueSetPending(t)
             \/ /\ r.op = q.op /\ r.job = q.job /\ r.copy = q.copy
                /\ \/ r.pc = "remove" /\ (Dequeue(t) \/ EnqueueSetPending(t))
                   \/ r.pc = "dispatch" /\ r.row = q.row /\ Dequeue(t)
                   \/ r.pc = "enqueue" /\ r.row = q.row /\ EnqueueInsert(t)
    BY QueueCallShape
  <1>2. SameHandler(q, r)
    <2>1. CASE r = Idle
      BY <2>1 DEF SameHandler
    <2>2. CASE r # Idle
      <3>1. q.op # "enqueue_job" \/ r.pc # "write"
        BY <1>1, <2>2
      <3> QED
        BY <1>0, <1>1, <2>2, <3>1 DEF SameHandler, ToSave
    <2> QED
      BY <2>1, <2>2
  <1>3. CASE EnqueueInsert(t)
    <2>1. q.pc = "dispatch" /\ UNCHANGED jobs
      BY <1>3 DEF EnqueueInsert
    <2>2. r.pc \in QueuePcs => r.row = q.row
      BY <1>1, <2>1, IdleTyped DEF QueuePcs
    <2>3. Follows(q, r)
      BY <1>0, <1>2, <2>2 DEF Follows, TakesRow
    <2> QED
      BY <1>1, <2>1, <2>3 DEF Turn, CheckedShape
  <1>4. CASE Dequeue(t)
    <2>1. q.pc = "dequeue" /\ UpdateState(q.row, "Assigned")
      BY <1>4 DEF Dequeue
    <2>2. r.pc \in QueuePcs => r.row = q.row
      BY <1>1, IdleTyped DEF QueuePcs
    <2>3. Writes(q, r)
      BY <2>1, <2>2 DEF Writes
    <2> QED
      BY <1>1, <1>2, <2>3 DEF Write, CheckedShape
  <1>5. CASE EnqueueSetPending(t)
    <2>1. q.pc = "enqueue" /\ UpdateState(q.row, "Pending")
      BY <1>5 DEF EnqueueSetPending
    <2>2. ~Dequeue(t) /\ ~EnqueueInsert(t)
      BY <2>1 DEF Dequeue, EnqueueInsert
    <2>3. r.pc \notin QueuePcs
      BY <1>1, <2>2, IdleTyped DEF QueuePcs
    <2>4. Writes(q, r)
      BY <2>1, <2>3 DEF Writes
    <2> QED
      BY <1>1, <1>2, <2>4 DEF Write, CheckedShape
  <1> QED
    BY <1>3, <1>4, <1>5 DEF QueueCall

\* The dispatcher starts with a PENDING row of the queue.
LEMMA DispatchShape ==
    ASSUME TypeInv, NEW d \in Dispatchers, Dispatch(d)
    PROVE  CheckedShape
  <1> d \in Threads
    BY DEF Threads
  <1>1. CASE ClaimQueueRow(d)
    <2>1. UNCHANGED jobs /\ Cardinality(InFlight) < MaxInFlight
      BY <1>1 DEF ClaimQueueRow, tables, MayStart
    <2>2. PICK i \in DOMAIN queue, r \in Task :
            /\ tasks' = [tasks EXCEPT ![d] = r]
            /\ r.op = "dispatch_once" /\ r.row = queue[i]
            /\ queue[i] \in Jobs /\ jobs[queue[i]] # NoJob /\ jobs[queue[i]].state = "Pending"
      BY <1>1, ClaimShape
    <2>3. Begins(r)
      BY <2>1, <2>2 DEF Begins, TakesRow, SaveOps
    <2> QED
      BY <2>1, <2>2, <2>3 DEF Turn, CheckedShape
  <1>2. CASE DispatchFails(d)
    BY <1>2, FinishTurn DEF DispatchFails, tables, CheckedShape
  <1> QED
    BY <1>1, <1>2, QueueCallWrites DEF Dispatch

\* schedule_job reads and decides, and goes through the queue.
LEMMA ScheduleTurn ==
    ASSUME TypeInv, NEW t \in Threads, Schedule(t)
    PROVE  CheckedShape
  <1> DEFINE q == tasks[t]
  <1>0. q.job \in Jobs /\ jobs[q.job] # NoJob /\ UNCHANGED jobs
    BY ScheduleShape
  <1>i. q.pc # "idle"
    BY DEF Schedule, ScheduleReads, ScheduleEnqueues, ScheduleRejects, ScheduleAssigns,
       ScheduleTakesWorker, CountRows, RemoveClaims, RemoveEnds, At
  <1>1. PICK r \in Task :
          /\ tasks' = [tasks EXCEPT ![t] = r]
          /\ \/ r = Idle
             \/ /\ r.job = q.job /\ r.pc \notin QueuePcs
                /\ \/ q.op = "schedule_read" /\ r.op = "make_decision" /\ r.copy = jobs[r.job]
                   \/ /\ q.op = "make_decision" /\ r.op = "schedule_job"
                      /\ r.copy \in SubmitToProvider(q.copy) \cup Fail(q.copy)
                   \/ q.op = "make_decision" /\ r.op = "enqueue_job" /\ r.copy = q.copy
             \/ /\ q.op = "schedule_job" /\ r.op = "schedule_job" /\ q.pc # "after"
                /\ r.job = q.job /\ r.copy = q.copy
                /\ r.pc \in QueuePcs =>
                      r.row \in Jobs /\ jobs[r.row] # NoJob /\ jobs[r.row].state = "Pending"
    BY ScheduleShape
  <1>2. CASE r = Idle
    BY <1>0, <1>1, <1>2, FinishTurn DEF Finish, CheckedShape
  <1>3. CASE r # Idle /\ q.op # "schedule_job"
    <2>1. SubmitToProvider(q.copy) \cup Fail(q.copy) \subseteq Methods(q.copy)
      BY DEF Methods
    <2>2. Decides(q, r)
      BY <1>0, <1>1, <1>3, <2>1 DEF Decides
    <2> QED
      BY <1>0, <1>1, <2>2 DEF Turn, CheckedShape
  <1>4. CASE r # Idle /\ q.op = "schedule_job"
    <2>1. Follows(q, r)
      BY <1>i, <1>1, <1>4 DEF Follows, SameHandler, ToSave, TakesRow, SaveOps
    <2> QED
      BY <1>0, <1>1, <2>1 DEF Turn, CheckedShape
  <1> QED
    BY <1>2, <1>3, <1>4

\* A save writes the copy the handler took.
LEMMA SaveShape ==
    ASSUME TypeInv, NEW t \in Threads, Save(t)
    PROVE  CheckedShape
  <1>1. /\ tasks[t].op \in SaveOps /\ tasks[t].pc = "write"
        /\ jobs' = [jobs EXCEPT ![tasks[t].job] = tasks[t].copy]
    BY DEF Save, SaveRow
  <1>2. PICK r \in Task :
          /\ tasks' = [tasks EXCEPT ![t] = r]
          /\ \/ r = Idle
             \/ /\ r.op = tasks[t].op /\ r.job = tasks[t].job /\ r.copy = tasks[t].copy
                /\ \/ r.pc = "after"
                   \/ r.op = "enqueue_job" /\ r.pc = "dispatch" /\ r.row = tasks[t].job
    BY SaveMoves
  <1>3. SameHandler(tasks[t], r) /\ Writes(tasks[t], r)
    BY <1>1, <1>2 DEF SameHandler, ToSave, Writes
  <1> QED
    BY <1>2, <1>3 DEF Write, CheckedShape

\* Every step, with and without the handlers that write a column blindly.
LEMMA StepShape ==
    ASSUME TypeInv
    PROVE  /\ [CheckedNext]_vars => CheckedShape
           /\ [Next]_vars => CheckedShape \/ Blind
  <1>1. ASSUME NEW t \in Threads, Abort(t) PROVE CheckedShape
    BY <1>1, FinishTurn DEF Abort, tables, CheckedShape
  <1>2. ASSUME NEW w \in Workers, Agent(w) PROVE CheckedShape
    BY <1>2 DEF Agent, AgentFinishes, AgentCrashes, tables, CheckedShape
  <1>3. ASSUME NEW t \in Tasks, NEW w \in Workers, ReleaseWorker(t, w) PROVE CheckedShape
    BY <1>3 DEF ReleaseWorker, CheckedShape
  <1>4. ASSUME CheckedNext PROVE CheckedShape
    BY <1>1, <1>2, <1>3, <1>4, RequestShape, ContinueShape, ScheduleTurn, QueueCallWrites,
       StreamShape, DispatchShape, SaveShape DEF CheckedNext, Threads
  <1>5. ASSUME BlindNext PROVE Blind
    BY <1>5 DEF BlindNext, UpdateJobState, MarkJobFailed, Blind
  <1>6. ASSUME UNCHANGED vars PROVE CheckedShape
    BY <1>6 DEF vars, CheckedShape
  <1> QED
    BY <1>4, <1>5, <1>6 DEF Next

-----------------------------------------------------------------------------
(* The methods, seen from the retry budget and from the terminal states.   *)

Fresh(row) == row.state = "Pending" /\ ~row.done /\ ~row.ctx

\* A transition leaves a state that is not terminal and changes nothing else.
LEMMA SetStateProps ==
    ASSUME NEW row \in Job, NEW s \in JobState, NEW copy \in SetState(row, s)
    PROVE  /\ copy \in Job
           /\ ~IsTerminal(row.state)
           /\ copy.state = s
           /\ copy.attempts = row.attempts
  <1>1. copy = [row EXCEPT !.state = s] /\ CanTransition(row.state, s)
    BY DEF SetState
  <1>2. row.state \in DOMAIN JobSuccessors
    BY <1>1 DEF CanTransition
  <1>3. ~IsTerminal(row.state)
    BY <1>2 DEF JobSuccessors, IsTerminal
  <1> QED
    BY <1>1, <1>3 DEF Job

\* A method keeps the row, starts it afresh with one attempt more while some are
\* left, or moves it out of a state that is not terminal; of these last ones
\* only those that end in a terminal state count an attempt.
LEMMA MethodResults ==
    ASSUME NEW row \in Job, NEW copy \in Methods(row)
    PROVE  \/ copy = row
           \/ Fresh(copy) /\ row.attempts < MaxAttempts /\ copy.attempts = row.attempts + 1
           \/ ~IsTerminal(row.state) /\ copy.attempts = row.attempts
           \/ ~IsTerminal(row.state) /\ copy.attempts = row.attempts + 1 /\ IsTerminal(copy.state)
  <1>s. {"Scheduled", "Running", "Assigned", "Succeeded", "Failed", "Cancelled", "Timeout"} \subseteq JobState
    BY DEF JobState
  <1>1. CASE copy \in SetState(row, "Assigned") \cup MarkRunning(row)
    BY <1>s, <1>1, SetStateProps DEF MarkRunning
  <1>2. CASE copy \in SubmitToProvider(row) \cup Complete(row, "Succeeded") \cup Cancel(row)
    <2>1. ASSUME NEW s \in JobState, NEW k \in SetState(row, s)
          PROVE  /\ ~IsTerminal(row.state)
                 /\ [k EXCEPT !.ctx = TRUE].attempts = row.attempts
                 /\ [k EXCEPT !.done = TRUE].attempts = row.attempts
      BY <2>1, SetStateProps DEF Job
    <2> QED
      BY <1>s, <1>2, <2>1 DEF SubmitToProvider, Complete, Cancel
  <1>3. CASE copy \in Fail(row) \cup TimeOut(row)
    <2> DEFINE counted(k) == [k EXCEPT !.done = TRUE, !.attempts = @ + 1]
    <2>1. ASSUME NEW k \in Job
          PROVE  counted(k).attempts = k.attempts + 1 /\ counted(k).state = k.state
      BY DEF Job
    <2>2. /\ Fail(row) = { counted(k) : k \in SetState(row, "Failed") }
          /\ TimeOut(row) = { counted(k) : k \in SetState(row, "Timeout") }
      BY Zenon DEF Fail, TimeOut
    <2> HIDE DEF counted
    <2>3. ASSUME NEW s \in {"Failed", "Timeout"}, NEW k \in SetState(row, s), copy = counted(k)
          PROVE  ~IsTerminal(row.state) /\ copy.attempts = row.attempts + 1 /\ IsTerminal(copy.state)
      <3>1. k \in Job /\ ~IsTerminal(row.state) /\ k.state = s /\ k.attempts = row.attempts
        BY <1>s, <2>3, SetStateProps
      <3> QED
        BY <2>1, <2>3, <3>1 DEF IsTerminal
    <2> QED
      BY <1>3, <2>2, <2>3
  <1>4. CASE copy \in AssignToProvider(row)
    BY <1>4 DEF AssignToProvider, Job, IsTerminal
  <1>5. CASE copy \in PrepareRetry(row)
    BY <1>5 DEF PrepareRetry, CanRetry, NewJob, Fresh
  <1> QED
    BY <1>1, <1>2, <1>3, <1>4, <1>5 DEF Methods

-----------------------------------------------------------------------------
(* The retry budget.                                                       *)

\* A job that may still fail has not spent its last attempt.
Within(row) ==
    /\ row.attempts <= MaxAttempts + 1
    /\ ~IsTerminal(row.state) => row.attempts <= MaxAttempts

\* Rows and the copies that will be saved are within the budget; the writes that
\* leave the attempts alone do not revive a job that has spent it.
HandlerWithin(q) ==
    /\ q.op \in SaveOps \cup {"make_decision"} => Within(q.copy)
    /\ q.op \in {"make_decision", "enqueue_job"} => q.copy.attempts <= MaxAttempts
    /\ q.op = "schedule_read" => jobs[q.job].attempts <= MaxAttempts
    /\ q.pc \in QueuePcs => jobs[q.row].attempts <= MaxAttempts
    /\ q.op = "complete_job_command" => IsTerminal(q.copy.state)

RowsWithin == \A j \in Jobs : jobs[j] # NoJob => Within(jobs[j])
BudgetInv == RowsWithin /\ \A t \in Threads : HandlerWithin(tasks[t])

LEMMA MethodsWithin ==
    ASSUME NEW row \in Job, Within(row), NEW copy \in Methods(row)
    PROVE  Within(copy)
  <1>1. row.attempts \in Nat /\ MaxAttempts \in Nat
    BY MaxAttemptsAssumption DEF Job
  <1> QED
    BY <1>1, MethodResults DEF Within, Fresh, IsTerminal

LEMMA IdleWithin == HandlerWithin(Idle)
  BY IdleTyped DEF HandlerWithin, SaveOps

\* A state column set while the attempts stay.
LEMMA UpdateStateRow ==
    ASSUME TypeInv, NEW j \in Jobs, jobs[j] # NoJob, NEW s \in JobState, UpdateState(j, s)
    PROVE  /\ jobs'[j].state = s
           /\ \A k \in Jobs : jobs[k] # NoJob => jobs'[k].attempts = jobs[k].attempts
           /\ \A k \in Jobs : k # j => jobs'[k] = jobs[k]
  <1>1. jobs[j] \in Job /\ jobs'[j] = [jobs[j] EXCEPT !.state = s]
    BY DEF TypeInv, TypeOK, UpdateState
  <1>2. jobs'[j].state = s /\ jobs'[j].attempts = jobs[j].attempts
    BY <1>1 DEF Job
  <1>3. \A k \in Jobs : k # j => jobs'[k] = jobs[k]
    BY DEF TypeInv, TypeOK, UpdateState
  <1> QED
    BY <1>2, <1>3

\* The jobs and the queue rows of handlers.
LEMMA WorkingHasJob ==
    ASSUME TypeInv, NEW t \in Threads
    PROVE  /\ tasks[t].op \in SaveOps \cup {"complete_job_command", "schedule_read", "make_decision"} =>
                 tasks[t].job \in Jobs /\ jobs[tasks[t].job] # NoJob /\ tasks[t].job # NoJob
           /\ tasks[t].pc \in QueuePcs =>
                 tasks[t].row \in Jobs /\ jobs[tasks[t].row] # NoJob /\ tasks[t].row # NoJob
  <1>1. ASSUME tasks[t].op \in SaveOps \cup {"complete_job_command", "schedule_read", "make_decision"}
        PROVE  tasks[t].op \notin {"idle", "on_worker_heartbeat", "dispatch_once"}
    BY <1>1 DEF SaveOps
  <1> QED
    BY <1>1, JobExecutionAssumption DEF TypeInv, HandlersHaveJobs

\* Attempts change by a save only, and a save of a handler that has a job for itself
\* is its own.
LEMMA WriteBudget ==
    ASSUME TypeInv, BudgetInv, DispatchIsExclusive, Write
    PROVE  BudgetInv'
  <1> PICK t \in Threads, r \in Task :
         tasks' = [tasks EXCEPT ![t] = r] /\ SameHandler(tasks[t], r) /\ Writes(tasks[t], r)
    BY DEF Write
  <1> DEFINE q == tasks[t]
  <1>0. /\ jobs \in [Jobs -> Job \cup {NoJob}] /\ tasks \in [Threads -> Task]
        /\ MaxAttempts \in Nat
        /\ tasks'[t] = r /\ \A u \in Threads : u # t => tasks'[u] = tasks[u]
    BY MaxAttemptsAssumption DEF TypeInv, TypeOK
  <1>1. q \in Task /\ HandlerWithin(q)
    BY <1>0 DEF BudgetInv
  <1>2. CASE q.op \in SaveOps /\ q.pc = "write"
    <2> DEFINE j == q.job
    <2>1. j \in Jobs /\ jobs[j] # NoJob
      BY <1>2, WorkingHasJob
    <2>2. /\ jobs' = [jobs EXCEPT ![j] = q.copy]
          /\ r = Idle \/ r.pc = "after" \/ (q.op = "enqueue_job" /\ r.pc = "dispatch" /\ r.row = j)
      BY <1>2 DEF Writes, SaveOps
    <2>3. jobs'[j] = q.copy /\ \A k \in Jobs : k # j => jobs'[k] = jobs[k]
      BY <1>0, <2>1, <2>2
    <2>4. Within(jobs'[j])
      BY <1>1, <1>2, <2>3 DEF HandlerWithin
    <2>5. RowsWithin'
      BY <2>3, <2>4 DEF BudgetInv, RowsWithin
    <2>6. ASSUME NEW u \in Threads, u # t PROVE HandlerWithin(tasks[u])'
      <3>1. tasks'[u] = tasks[u] /\ HandlerWithin(tasks[u])
        BY <1>0, <2>6 DEF BudgetInv
      <3>2. j \notin Owned(tasks[u])
        BY <1>2, <2>6 DEF DispatchIsExclusive
      <3>3. tasks[u].pc \in QueuePcs => jobs'[tasks[u].row] = jobs[tasks[u].row]
        BY <2>1, <2>3, <3>2, WorkingHasJob DEF Owned
      <3>4. tasks[u].op = "schedule_read" => jobs'[tasks[u].job] = jobs[tasks[u].job]
        BY <2>1, <2>3, <3>2, WorkingHasJob DEF Owned
      <3> QED
        BY <3>1, <3>3, <3>4 DEF HandlerWithin
    <2>7. HandlerWithin(tasks[t])'
      <3>1. CASE r = Idle
        BY <1>0, <3>1, IdleTyped DEF HandlerWithin, SaveOps
      <3>2. CASE r # Idle
        <4>1. r.op = q.op /\ r.copy = q.copy /\ r.op # "schedule_read"
          BY <1>2, <3>2 DEF SameHandler, SaveOps
        <4>2. r.pc \in QueuePcs => jobs'[r.row].attempts <= MaxAttempts
          BY <1>1, <2>2, <2>3, <3>2 DEF HandlerWithin, QueuePcs
        <4> QED
          BY <1>0, <1>1, <4>1, <4>2 DEF HandlerWithin
      <3> QED
        BY <3>1, <3>2
    <2> QED
      BY <2>5, <2>6, <2>7 DEF BudgetInv
  <1>3. CASE ~(q.op \in SaveOps /\ q.pc = "write")
    <2>1. PICK j \in Jobs, s \in JobState :
            /\ jobs[j] # NoJob /\ UpdateState(j, s)
            /\ IsTerminal(s) \/ jobs[j].attempts <= MaxAttempts
      <3>1. CASE q.op = "complete_job_command" /\ UpdateState(q.job, q.copy.state)
        <4>1. q.copy.state \in JobState /\ IsTerminal(q.copy.state)
          BY <1>1, <3>1 DEF HandlerWithin, Task, Job
        <4> QED
          BY <3>1, <4>1, WorkingHasJob
      <3>2. CASE q.pc \in {"dequeue", "enqueue"} /\ (UpdateState(q.row, "Assigned") \/ UpdateState(q.row, "Pending"))
        <4>1. q.pc \in QueuePcs
          BY <3>2 DEF QueuePcs
        <4>2. jobs[q.row].attempts <= MaxAttempts /\ q.row \in Jobs /\ jobs[q.row] # NoJob
          BY <1>1, <4>1, WorkingHasJob DEF HandlerWithin
        <4> QED
          BY <3>2, <4>2 DEF JobState
      <3> QED
        BY <1>3, <3>1, <3>2 DEF Writes
    <2>2. /\ jobs'[j].state = s
          /\ \A k \in Jobs : jobs[k] # NoJob => jobs'[k].attempts = jobs[k].attempts
          /\ \A k \in Jobs : k # j => jobs'[k] = jobs[k]
      BY <2>1, UpdateStateRow
    <2>3. RowsWithin'
      BY <2>1, <2>2 DEF BudgetInv, RowsWithin, Within
    <2>4. ASSUME NEW u \in Threads, u # t PROVE HandlerWithin(tasks[u])'
      <3>1. tasks'[u] = tasks[u] /\ HandlerWithin(tasks[u])
        BY <1>0, <2>4 DEF BudgetInv
      <3>2. /\ tasks[u].pc \in QueuePcs => jobs'[tasks[u].row].attempts = jobs[tasks[u].row].attempts
            /\ tasks[u].op = "schedule_read" => jobs'[tasks[u].job].attempts = jobs[tasks[u].job].attempts
        BY <2>2, WorkingHasJob
      <3> QED
        BY <3>1, <3>2 DEF HandlerWithin
    <2>5. HandlerWithin(tasks[t])'
      <3>1. CASE r = Idle
        BY <1>0, <3>1, IdleTyped DEF HandlerWithin, SaveOps
      <3>2. CASE r # Idle
        <4>1. r.op = q.op /\ r.copy = q.copy /\ r.job = q.job
          BY <3>2 DEF SameHandler
        <4>2. r.pc \in QueuePcs => q.pc \in QueuePcs /\ r.row = q.row
          BY <1>3, <3>2 DEF Writes, QueuePcs
        <4>3. r.pc \in QueuePcs => jobs'[r.row].attempts <= MaxAttempts
          BY <1>1, <2>2, <4>2, WorkingHasJob DEF HandlerWithin
        <4>4. r.op = "schedule_read" => jobs'[r.job].attempts <= MaxAttempts
          BY <1>1, <2>2, <4>1, WorkingHasJob DEF HandlerWithin
        <4> QED
          BY <1>0, <1>1, <4>1, <4>3, <4>4 DEF HandlerWithin
      <3> QED
        BY <3>1, <3>2
    <2> QED
      BY <2>3, <2>4, <2>5 DEF BudgetInv
  <1> QED
    BY <1>2, <1>3

LEMMA TurnBudget ==
    ASSUME TypeInv, BudgetInv, Turn
    PROVE  BudgetInv'
  <1> PICK t \in Threads, r \in Task :
         /\ tasks' = [tasks EXCEPT ![t] = r]
         /\ Follows(tasks[t], r) \/ Begins(r) \/ Decides(tasks[t], r)
    BY DEF Turn
  <1>0. /\ jobs \in [Jobs -> Job \cup {NoJob}] /\ tasks \in [Threads -> Task]
        /\ tasks'[t] = r /\ \A u \in Threads : u # t => tasks'[u] = tasks[u]
        /\ jobs' = jobs
    BY DEF TypeInv, TypeOK, Turn
  <1>p. ASSUME NEW j \in Jobs, jobs[j] # NoJob
        PROVE  Within(jobs[j]) /\ (jobs[j].state = "Pending" => jobs[j].attempts <= MaxAttempts)
    BY <1>p DEF BudgetInv, RowsWithin, Within, IsTerminal
  <1>1. HandlerWithin(r)
    <2>0. HandlerWithin(tasks[t]) /\ tasks[t] \in Task
      BY <1>0 DEF BudgetInv
    <2>1. CASE r = Idle
      BY <2>1, IdleWithin
    <2>2. CASE Follows(tasks[t], r) /\ r # Idle
      <3>1. r.op = tasks[t].op /\ r.copy = tasks[t].copy /\ r.job = tasks[t].job
        BY <2>2 DEF Follows, SameHandler
      <3>2. r.pc \in QueuePcs => jobs[r.row].attempts <= MaxAttempts
        BY <1>p, <2>0, <2>2 DEF Follows, TakesRow, HandlerWithin
      <3> QED
        BY <2>0, <3>1, <3>2 DEF HandlerWithin
    <2>3. CASE Begins(r)
      <3> DEFINE row == jobs[r.job]
      <3>1. r.op \in SaveOps \cup {"complete_job_command"} => row \in Job /\ Within(row)
        BY <1>0, <1>p, <2>3 DEF Begins
      <3>2. r.op \in SaveOps => Within(r.copy)
        BY <2>3, <3>1, MethodsWithin DEF Begins
      <3>3. r.pc \in QueuePcs => jobs[r.row].attempts <= MaxAttempts
        BY <1>p, <2>3, IdleTyped DEF Begins, TakesRow
      <3>4. r.op = "complete_job_command" => IsTerminal(r.copy.state)
        <4>1. r.op = "complete_job_command" => r.copy.state \in {"Succeeded", "Failed"}
          BY <2>3, <3>1, SetStateProps DEF Begins, JobState
        <4> QED
          BY <4>1 DEF IsTerminal
      <3>5. r.op \notin {"schedule_read", "make_decision", "enqueue_job"}
        BY <2>3 DEF Begins
      <3> QED
        BY <3>2, <3>3, <3>4, <3>5 DEF HandlerWithin
    <2>4. CASE Decides(tasks[t], r)
      <3>1. r.job \in Jobs /\ jobs[r.job] # NoJob /\ Within(jobs[r.job]) /\ r.pc \notin QueuePcs
        BY <1>p, <2>4 DEF Decides
      <3>2. CASE r.op = "make_decision"
        BY <2>0, <2>4, <3>1, <3>2 DEF Decides, HandlerWithin, SaveOps
      <3>3. CASE r.op = "schedule_job"
        <4>1. tasks[t].op = "make_decision" /\ r.copy \in Methods(tasks[t].copy)
          BY <2>4, <3>3 DEF Decides
        <4>2. Within(tasks[t].copy) /\ tasks[t].copy \in Job
          BY <2>0, <4>1 DEF HandlerWithin, Task
        <4>3. Within(r.copy)
          BY <4>1, <4>2, MethodsWithin
        <4> QED
          BY <3>1, <3>3, <4>3 DEF HandlerWithin
      <3>4. CASE r.op = "enqueue_job"
        BY <2>0, <2>4, <3>1, <3>4 DEF Decides, HandlerWithin
      <3> QED
        BY <2>4, <3>2, <3>3, <3>4 DEF Decides
    <2> QED
      BY <2>1, <2>2, <2>3, <2>4
  <1> QED
    BY <1>0, <1>1 DEF BudgetInv, RowsWithin, HandlerWithin

\* A created job has no attempts yet, a blind write leaves them alone.
LEMMA RowBudget ==
    ASSUME TypeInv, BudgetInv, Creation \/ Blind
    PROVE  BudgetInv'
  <1>0. jobs \in [Jobs -> Job \cup {NoJob}] /\ MaxAttempts \in Nat /\ tasks \in [Threads -> Task]
    BY MaxAttemptsAssumption DEF TypeInv, TypeOK
  <1>1. PICK j \in Jobs :
           /\ \A k \in Jobs : k # j => jobs'[k] = jobs[k]
           /\ Within(jobs'[j])
           /\ jobs'[j].attempts = 0 \/ (jobs[j] # NoJob /\ jobs'[j].attempts = jobs[j].attempts)
           /\ \/ UNCHANGED tasks
              \/ /\ jobs'[j].attempts = 0
                 /\ \E t \in Threads, r \in Task : tasks' = [tasks EXCEPT ![t] = r] /\ Schedules(r, j)
    <2>1. CASE Creation
      BY <1>0, <2>1 DEF Creation, NewJob, Within
    <2>2. CASE Blind
      <3>1. PICK j \in Jobs, s \in {"Cancelled", "Failed"} : jobs[j] # NoJob /\ UpdateState(j, s)
        BY <2>2 DEF Blind
      <3>2. Within(jobs[j]) /\ IsTerminal(s) /\ s \in JobState
        BY <3>1 DEF BudgetInv, RowsWithin, IsTerminal, JobState
      <3>3. UNCHANGED tasks
        BY <2>2 DEF Blind
      <3> QED
        BY <3>1, <3>2, <3>3, UpdateStateRow DEF Within
    <2> QED
      BY <2>1, <2>2
  <1>2. RowsWithin'
    BY <1>1 DEF BudgetInv, RowsWithin
  <1>3. ASSUME NEW k \in Jobs, jobs[k].attempts <= MaxAttempts PROVE jobs'[k].attempts <= MaxAttempts
    BY <1>0, <1>1, <1>3
  <1>4. ASSUME NEW u \in Threads, tasks'[u] = tasks[u] PROVE HandlerWithin(tasks[u])'
    <2>1. HandlerWithin(tasks[u])
      BY DEF BudgetInv
    <2>2. /\ tasks[u].pc \in QueuePcs => jobs'[tasks[u].row].attempts <= MaxAttempts
          /\ tasks[u].op = "schedule_read" => jobs'[tasks[u].job].attempts <= MaxAttempts
      BY <1>3, <2>1, WorkingHasJob DEF HandlerWithin
    <2> QED
      BY <1>4, <2>1, <2>2 DEF HandlerWithin
  <1>5. CASE UNCHANGED tasks
    BY <1>2, <1>4, <1>5 DEF BudgetInv
  <1>6. CASE ~UNCHANGED tasks
    <2>1. PICK t \in Threads, r \in Task : tasks' = [tasks EXCEPT ![t] = r] /\ Schedules(r, j)
      BY <1>1, <1>6
    <2>2. tasks'[t] = r /\ \A u \in Threads : u # t => tasks'[u] = tasks[u]
      BY <1>0, <2>1
    <2>3. r.op = "schedule_read" /\ r.job = j /\ r.pc \notin QueuePcs /\ jobs'[j].attempts <= MaxAttempts
      BY <1>0, <1>1, <1>6, <2>1 DEF Schedules
    <2>4. HandlerWithin(tasks[t])'
      BY <2>2, <2>3 DEF HandlerWithin, SaveOps
    <2> QED
      BY <1>2, <1>4, <2>2, <2>4 DEF BudgetInv
  <1> QED
    BY <1>5, <1>6

LEMMA BudgetInvInit == Init => BudgetInv
  BY IdleTyped DEF Init, BudgetInv, RowsWithin, HandlerWithin, SaveOps

\* The retry budget holds under every handler of the server but the recovery
\* command, racing saves of stale copies and blind completions included, as long
\* as no handler saves a copy of a job while another has it for itself: dequeue and
\* enqueue set the column of their job without looking, and would otherwise revive
\* one that has just spent its last attempt.
THEOREM BudgetIsKept == Spec /\ []DispatchIsExclusive => []AttemptsBudget
  <1>1. ASSUME TypeInv, BudgetInv, DispatchIsExclusive, [Next]_vars
        PROVE  TypeInv' /\ BudgetInv'
    <2>1. TypeInv'
      BY <1>1, TypeInvStep DEF FullNext
    <2>2. BudgetInv'
      <3>1. CASE UNCHANGED << jobs, tasks >>
        BY <1>1, <3>1 DEF BudgetInv, RowsWithin, HandlerWithin
      <3> QED
        BY <1>1, <3>1, StepShape, WriteBudget, TurnBudget, RowBudget DEF CheckedShape
    <2> QED
      BY <2>1, <2>2
  <1>2. BudgetInv => AttemptsBudget
    BY DEF BudgetInv, RowsWithin, Within, AttemptsBudget
  <1> QED
    BY <1>1, <1>2, TypeInvInit, BudgetInvInit, PTL DEF Spec

-----------------------------------------------------------------------------
(* Terminal states.                                                        *)

\* A handler about to write a row that is terminal leaves its state or starts the
\* job afresh.
HandlerFinal(q) ==
    LET row == jobs[q.job] IN
    /\ ToSave(q) /\ IsTerminal(row.state) => q.copy.state = row.state \/ Fresh(q.copy)
    /\ q.pc \in QueuePcs => ~IsTerminal(jobs[q.row].state)
    /\ q.op = "complete_job_command" /\ q.pc # "after" => ~IsTerminal(row.state)
    /\ q.op \in {"schedule_read", "make_decision"} => ~IsTerminal(row.state)
    /\ q.op \in {"make_decision", "enqueue_job"} => ~IsTerminal(q.copy.state)

FinalInv == \A t \in Threads : HandlerFinal(tasks[t])

\* What TerminalIsFinal says of one row.
StaysFinal(j) ==
    jobs[j] # NoJob /\ IsTerminal(jobs[j].state) =>
        \/ jobs'[j].state = jobs[j].state
        \/ jobs'[j].state = "Pending" /\ ~jobs'[j].done /\ ~jobs'[j].ctx

LEMMA IdleFinal == HandlerFinal(Idle)
  BY IdleTyped DEF HandlerFinal, ToSave, SaveOps

LEMMA TurnFinal ==
    ASSUME TypeInv, FinalInv, Turn
    PROVE  FinalInv'
  <1> PICK t \in Threads, r \in Task :
         /\ tasks' = [tasks EXCEPT ![t] = r]
         /\ Follows(tasks[t], r) \/ Begins(r) \/ Decides(tasks[t], r)
    BY DEF Turn
  <1>0. /\ jobs \in [Jobs -> Job \cup {NoJob}] /\ tasks \in [Threads -> Task]
        /\ tasks'[t] = r /\ \A u \in Threads : u # t => tasks'[u] = tasks[u]
        /\ jobs' = jobs
    BY DEF TypeInv, TypeOK, Turn
  <1>p. ~IsTerminal("Pending")
    BY DEF IsTerminal
  <1>1. HandlerFinal(r)
    <2>0. HandlerFinal(tasks[t])
      BY DEF FinalInv
    <2>1. CASE r = Idle
      BY <2>1, IdleFinal
    <2>2. CASE Follows(tasks[t], r) /\ r # Idle
      <3>1. /\ r.op = tasks[t].op /\ r.copy = tasks[t].copy /\ r.job = tasks[t].job
            /\ ToSave(r) => ToSave(tasks[t])
            /\ tasks[t].pc = "after" => r.pc = "after"
        BY <2>2 DEF Follows, SameHandler
      <3>2. r.pc \in QueuePcs => ~IsTerminal(jobs[r.row].state)
        BY <1>p, <2>0, <2>2 DEF Follows, TakesRow, HandlerFinal
      <3> QED
        BY <2>0, <3>1, <3>2 DEF HandlerFinal
    <2>3. CASE Begins(r)
      <3> DEFINE row == jobs[r.job]
      <3>1. r.op \in SaveOps \cup {"complete_job_command"} => row \in Job
        BY <1>0, <2>3 DEF Begins
      <3>2. r.op \in SaveOps /\ IsTerminal(row.state) => r.copy.state = row.state \/ Fresh(r.copy)
        BY <2>3, <3>1, MethodResults DEF Begins
      <3>3. r.pc \in QueuePcs => ~IsTerminal(jobs[r.row].state)
        BY <1>p, <2>3, IdleTyped DEF Begins, TakesRow
      <3>4. r.op = "complete_job_command" => ~IsTerminal(row.state)
        BY <2>3, <3>1, SetStateProps DEF Begins, JobState
      <3>5. r.op \notin {"schedule_read", "make_decision", "enqueue_job"}
        BY <2>3 DEF Begins
      <3> QED
        BY <3>2, <3>3, <3>4, <3>5 DEF HandlerFinal, ToSave
    <2>4. CASE Decides(tasks[t], r)
      <3>1. ~IsTerminal(jobs[r.job].state) /\ r.pc \notin QueuePcs
        BY <2>0, <2>4 DEF Decides, HandlerFinal
      <3>2. r.op \in {"make_decision", "enqueue_job"} => ~IsTerminal(r.copy.state)
        BY <2>0, <2>4, <3>1 DEF Decides, HandlerFinal
      <3> QED
        BY <3>1, <3>2 DEF HandlerFinal
    <2> QED
      BY <2>1, <2>2, <2>3, <2>4
  <1> QED
    BY <1>0, <1>1 DEF FinalInv, HandlerFinal

\* A write to row j leaves the handlers of other jobs alone.
LEMMA OthersFinal ==
    ASSUME TypeInv, FinalInv, OneHandlerPerJob, NEW t \in Threads, NEW u \in Threads, u # t,
           NEW j \in Jobs, j \in {tasks[t].job, tasks[t].row}, tasks'[u] = tasks[u],
           \A k \in Jobs : k # j => jobs'[k] = jobs[k]
    PROVE  HandlerFinal(tasks[u])'
  <1>0. j # NoJob
    BY JobExecutionAssumption
  <1>1. HandlerFinal(tasks[u]) /\ tasks[u].job # j /\ tasks[u].row # j
    <2>1. {tasks[t].job, tasks[t].row} \cap {tasks[u].job, tasks[u].row} \subseteq {NoJob}
      BY DEF OneHandlerPerJob
    <2> QED
      BY <1>0, <2>1 DEF FinalInv
  <1>2. /\ tasks[u].op \in SaveOps \cup {"complete_job_command", "schedule_read", "make_decision"} =>
              jobs'[tasks[u].job] = jobs[tasks[u].job]
        /\ tasks[u].pc \in QueuePcs => jobs'[tasks[u].row] = jobs[tasks[u].row]
    BY <1>1, WorkingHasJob
  <1> QED
    BY <1>1, <1>2 DEF HandlerFinal, ToSave

LEMMA WriteFinal ==
    ASSUME TypeInv, FinalInv, OneHandlerPerJob, Write
    PROVE  FinalInv' /\ \A j \in Jobs : StaysFinal(j)
  <1> PICK t \in Threads, r \in Task :
         tasks' = [tasks EXCEPT ![t] = r] /\ SameHandler(tasks[t], r) /\ Writes(tasks[t], r)
    BY DEF Write
  <1> DEFINE q == tasks[t]
  <1>0. /\ jobs \in [Jobs -> Job \cup {NoJob}] /\ tasks \in [Threads -> Task]
        /\ tasks'[t] = r /\ \A u \in Threads : u # t => tasks'[u] = tasks[u]
    BY DEF TypeInv, TypeOK
  <1>1. q \in Task /\ HandlerFinal(q)
    BY <1>0 DEF FinalInv
  <1>i. r = Idle => HandlerFinal(tasks[t])'
    BY <1>0, IdleTyped DEF HandlerFinal, ToSave, SaveOps
  <1>2. CASE q.op \in SaveOps /\ q.pc = "write"
    <2> DEFINE j == q.job
    <2>1. j \in Jobs /\ jobs[j] # NoJob
      BY <1>2, WorkingHasJob
    <2>2. /\ jobs' = [jobs EXCEPT ![j] = q.copy]
          /\ r = Idle \/ r.pc = "after" \/ (q.op = "enqueue_job" /\ r.pc = "dispatch" /\ r.row = j)
      BY <1>2 DEF Writes, SaveOps
    <2>3. jobs'[j] = q.copy /\ \A k \in Jobs : k # j => jobs'[k] = jobs[k]
      BY <1>0, <2>1, <2>2
    <2>4. ToSave(q)
      BY <1>2 DEF ToSave
    <2>5. \A k \in Jobs : StaysFinal(k)
      BY <1>1, <2>3, <2>4 DEF HandlerFinal, StaysFinal, Fresh
    <2>6. ASSUME r # Idle PROVE HandlerFinal(tasks[t])'
      <3>1. r.op = q.op /\ r.copy = q.copy /\ r.op \notin {"complete_job_command", "schedule_read", "make_decision"}
        BY <1>2, <2>6 DEF SameHandler, SaveOps
      <3>2. ~ToSave(r)
        BY <2>2, <2>6, <3>1 DEF ToSave
      <3>3. r.op = "enqueue_job" => ~IsTerminal(r.copy.state)
        BY <1>1, <3>1 DEF HandlerFinal
      <3>4. r.pc \in QueuePcs => ~IsTerminal(jobs'[r.row].state)
        BY <2>2, <2>3, <2>6, <3>1, <3>3 DEF QueuePcs
      <3> QED
        BY <1>0, <3>1, <3>2, <3>3, <3>4 DEF HandlerFinal, ToSave
    <2>7. ASSUME NEW u \in Threads, u # t PROVE HandlerFinal(tasks[u])'
      BY <1>0, <2>1, <2>3, <2>7, OthersFinal
    <2> QED
      BY <1>i, <2>5, <2>6, <2>7 DEF FinalInv
  <1>3. CASE q.op = "complete_job_command" /\ q.pc = "write" /\ UpdateState(q.job, q.copy.state)
    <2> DEFINE j == q.job
    <2>1. j \in Jobs /\ jobs[j] # NoJob /\ ~IsTerminal(jobs[j].state)
      BY <1>1, <1>3, WorkingHasJob DEF HandlerFinal
    <2>2. r = Idle \/ r.pc = "after"
      BY <1>3 DEF Writes, SaveOps
    <2>3. \A k \in Jobs : k # j => jobs'[k] = jobs[k]
      BY <1>0, <1>3 DEF UpdateState
    <2>4. \A k \in Jobs : StaysFinal(k)
      BY <2>1, <2>3 DEF StaysFinal
    <2>5. ASSUME r # Idle PROVE HandlerFinal(tasks[t])'
      BY <1>0, <1>3, <2>2, <2>5 DEF HandlerFinal, ToSave, SameHandler, QueuePcs, SaveOps
    <2>6. ASSUME NEW u \in Threads, u # t PROVE HandlerFinal(tasks[u])'
      BY <1>0, <2>1, <2>3, <2>6, OthersFinal
    <2> QED
      BY <1>i, <2>4, <2>5, <2>6 DEF FinalInv
  <1>4. CASE /\ q.pc \in {"dequeue", "enqueue"}
             /\ UpdateState(q.row, "Assigned") \/ UpdateState(q.row, "Pending")
             /\ r.pc \in QueuePcs => r.row = q.row
    <2> DEFINE j == q.row
    <2>0. q.pc \in QueuePcs
      BY <1>4 DEF QueuePcs
    <2>1. j \in Jobs /\ jobs[j] # NoJob /\ ~IsTerminal(jobs[j].state)
      BY <1>1, <2>0, WorkingHasJob DEF HandlerFinal
    <2>2. jobs'[j].state \in {"Assigned", "Pending"} /\ \A k \in Jobs : k # j => jobs'[k] = jobs[k]
      BY <1>4, <2>1, UpdateStateRow DEF JobState
    <2>3. ~IsTerminal(jobs'[j].state)
      BY <2>2 DEF IsTerminal
    <2>4. \A k \in Jobs : StaysFinal(k)
      BY <2>1, <2>2 DEF StaysFinal
    <2>5. ASSUME r # Idle PROVE HandlerFinal(tasks[t])'
      <3>1. /\ r.op = q.op /\ r.copy = q.copy /\ r.job = q.job /\ (ToSave(r) => ToSave(q))
            /\ q.pc # "after"
        BY <1>4, <2>5 DEF SameHandler
      <3>2. r.pc \in QueuePcs => ~IsTerminal(jobs'[r.row].state)
        BY <1>4, <2>3
      <3>3. r.op \in SaveOps \cup {"complete_job_command", "schedule_read", "make_decision"} =>
               ~IsTerminal(jobs'[r.job].state) \/ jobs'[r.job] = jobs[r.job]
        BY <2>2, <2>3, <3>1, WorkingHasJob
      <3> HIDE DEF q
      <3> QED
        BY <1>0, <1>1, <3>1, <3>2, <3>3 DEF HandlerFinal, ToSave
    <2>6. ASSUME NEW u \in Threads, u # t PROVE HandlerFinal(tasks[u])'
      BY <1>0, <2>1, <2>2, <2>6, OthersFinal
    <2> QED
      BY <1>i, <2>4, <2>5, <2>6 DEF FinalInv
  <1> QED
    BY <1>2, <1>3, <1>4 DEF Writes

\* A created job is not terminal, and starts afresh.
LEMMA CreationFinal ==
    ASSUME TypeInv, FinalInv, Creation
    PROVE  FinalInv' /\ \A j \in Jobs : StaysFinal(j)
  <1>0. jobs \in [Jobs -> Job \cup {NoJob}] /\ tasks \in [Threads -> Task]
    BY DEF TypeInv, TypeOK
  <1>1. PICK j \in Jobs :
          /\ jobs'[j] = NewJob /\ \A k \in Jobs : k # j => jobs'[k] = jobs[k]
          /\ \/ UNCHANGED tasks
             \/ \E t \in Threads, r \in Task : tasks' = [tasks EXCEPT ![t] = r] /\ Schedules(r, j)
    BY <1>0 DEF Creation
  <1>2. \A k \in Jobs : StaysFinal(k)
    BY <1>1 DEF StaysFinal, NewJob
  <1>3. ~IsTerminal(NewJob.state)
    BY DEF NewJob, IsTerminal
  <1>4. ASSUME NEW u \in Threads, tasks'[u] = tasks[u] PROVE HandlerFinal(tasks[u])'
    <2>1. HandlerFinal(tasks[u])
      BY DEF FinalInv
    <2>2. /\ tasks[u].op \in SaveOps \cup {"complete_job_command", "schedule_read", "make_decision"} =>
                jobs'[tasks[u].job] = jobs[tasks[u].job] \/ jobs'[tasks[u].job] = NewJob
          /\ tasks[u].pc \in QueuePcs =>
                jobs'[tasks[u].row] = jobs[tasks[u].row] \/ jobs'[tasks[u].row] = NewJob
      BY <1>1, WorkingHasJob
    <2> QED
      BY <1>3, <1>4, <2>1, <2>2 DEF HandlerFinal, ToSave
  <1>5. CASE UNCHANGED tasks
    BY <1>2, <1>4, <1>5 DEF FinalInv
  <1>6. CASE ~UNCHANGED tasks
    <2>1. PICK t \in Threads, r \in Task : tasks' = [tasks EXCEPT ![t] = r] /\ Schedules(r, j)
      BY <1>1, <1>6
    <2>2. tasks'[t] = r /\ \A u \in Threads : u # t => tasks'[u] = tasks[u]
      BY <1>0, <2>1
    <2>3. r.op = "schedule_read" /\ r.job = j /\ r.pc \notin QueuePcs
      BY <2>1 DEF Schedules
    <2>4. HandlerFinal(tasks[t])'
      BY <1>1, <1>3, <2>2, <2>3 DEF HandlerFinal, ToSave, SaveOps
    <2> QED
      BY <1>2, <1>4, <2>2, <2>4 DEF FinalInv
  <1> QED
    BY <1>5, <1>6

LEMMA FinalInvInit == Init => FinalInv
  BY IdleTyped DEF Init, FinalInv, HandlerFinal, ToSave, SaveOps

\* A terminal job stays as it is until it starts afresh, under every handler that
\* checks the transition before it writes, when the handlers of a job run one
\* after the other; requests that re-submit the job may come at any time.  The
\* check a handler makes on its copy is enough exactly because nobody writes the
\* row between the check and the save.
THEOREM TerminalStaysFinal == CheckedSpec /\ []OneHandlerPerJob => TerminalIsFinal
  <1>1. ASSUME TypeInv, FinalInv, OneHandlerPerJob, [CheckedNext]_vars
        PROVE  TypeInv' /\ FinalInv' /\ \A j \in Jobs : StaysFinal(j)
    <2>1. TypeInv'
      BY <1>1, TypeInvStep DEF FullNext, Next
    <2>2. FinalInv' /\ \A j \in Jobs : StaysFinal(j)
      <3>1. CASE UNCHANGED << jobs, tasks >>
        BY <1>1, <3>1 DEF FinalInv, HandlerFinal, StaysFinal
      <3>2. CASE Turn
        <4>1. UNCHANGED jobs
          BY <3>2 DEF Turn
        <4> QED
          BY <1>1, <3>2, <4>1, TurnFinal DEF StaysFinal
      <3> QED
        BY <1>1, <3>1, <3>2, StepShape, WriteFinal, CreationFinal DEF CheckedShape
    <2> QED
      BY <2>1, <2>2
  <1>2. ASSUME TypeInv, FinalInv, OneHandlerPerJob, [CheckedNext]_vars
        PROVE  [ \A j \in Jobs : jobs[j] # NoJob /\ IsTerminal(jobs[j].state) =>
                   \/ jobs'[j].state = jobs[j].state
                   \/ jobs'[j].state = "Pending" /\ ~jobs'[j].done /\ ~jobs'[j].ctx ]_jobs
    BY <1>1, <1>2 DEF StaysFinal
  <1> QED
    BY <1>1, <1>2, TypeInvInit, FinalInvInit, PTL DEF CheckedSpec, TerminalIsFinal

-----------------------------------------------------------------------------
(* Handlers one at a time.                                                 *)

\* At most one handler is in flight, and a thread without one is idle.
SerialInv ==
    /\ \A t \in Threads : tasks[t].op = "idle" => tasks[t] = Idle
    /\ \A t, u \in InFlight : t = u

LEMMA SerialInvStep ==
    ASSUME MaxInFlight <= 1, IsFiniteSet(Threads), TypeInv, SerialInv, [CheckedNext]_vars
    PROVE  SerialInv'
  <1>1. CASE UNCHANGED tasks
    BY <1>1 DEF SerialInv, InFlight
  <1>2. CASE ~UNCHANGED tasks
    <2>1. PICK t \in Threads, r \in Task :
            /\ tasks' = [tasks EXCEPT ![t] = r]
            /\ \/ SameHandler(tasks[t], r)
               \/ Decides(tasks[t], r)
               \/ r.op # "idle" /\ Cardinality(InFlight) < MaxInFlight
      BY <1>2, StepShape DEF CheckedShape, Turn, Write, Creation, Follows, Begins, Schedules
    <2>0. tasks'[t] = r /\ \A u \in Threads : u # t => tasks'[u] = tasks[u]
      BY <2>1 DEF TypeInv, TypeOK
    <2>2. CASE r = Idle
      BY <2>0, <2>2, IdleTyped DEF SerialInv, InFlight
    <2>3. CASE SameHandler(tasks[t], r) /\ r # Idle
      <3>1. tasks[t].op # "idle" /\ r.op # "idle"
        BY <2>3, IdleTyped DEF SameHandler, SerialInv
      <3> QED
        BY <2>0, <3>1 DEF SerialInv, InFlight
    <2>4. CASE Decides(tasks[t], r)
      <3>1. tasks[t].op # "idle" /\ r.op # "idle"
        BY <2>4 DEF Decides
      <3> QED
        BY <2>0, <3>1 DEF SerialInv, InFlight
    <2>5. CASE r.op # "idle" /\ Cardinality(InFlight) < MaxInFlight
      <3>1. IsFiniteSet(InFlight)
        BY FS_Subset DEF InFlight
      <3>2. Cardinality(InFlight) = 0
        BY <2>5, <3>1, FS_CardinalityType, JobExecutionAssumption
      <3>3. InFlight = {}
        BY <3>1, <3>2, FS_EmptySet
      <3> QED
        BY <2>0, <2>5, <3>3 DEF SerialInv, InFlight
    <2> QED
      BY <2>1, <2>2, <2>3, <2>4, <2>5
  <1> QED
    BY <1>1, <1>2

\* A server that runs its handlers one at a time keeps both the retry budget and
\* the terminal states, with any number of jobs, workers and threads: what the
\* handlers check on their copy is right, and what goes wrong under concurrency
\* comes from their interleaving alone.
THEOREM SerialHandlersAreSafe ==
    ASSUME MaxInFlight <= 1, IsFiniteSet(Threads)
    PROVE  CheckedSpec => []AttemptsBudget /\ TerminalIsFinal
  <1>1. Init => SerialInv
    BY DEF Init, SerialInv, InFlight, Idle
  <1>2. ASSUME TypeInv, SerialInv, [CheckedNext]_vars PROVE TypeInv' /\ SerialInv'
    BY <1>2, TypeInvStep, SerialInvStep DEF FullNext, Next
  <1>3. TypeInv /\ SerialInv => OneHandlerPerJob /\ DispatchIsExclusive
    <2> SUFFICES ASSUME TypeInv, SerialInv PROVE OneHandlerPerJob /\ DispatchIsExclusive
      OBVIOUS
    <2>1. \A t, u \in Threads : t # u => tasks[t] = Idle \/ tasks[u] = Idle
      BY DEF SerialInv, InFlight
    <2>2. OneHandlerPerJob
      BY <2>1, IdleTyped DEF OneHandlerPerJob
    <2>3. DispatchIsExclusive
      <3> SUFFICES ASSUME NEW t \in Threads, NEW u \in Threads, t # u, tasks[u].op \in SaveOps
                   PROVE  tasks[u].job \notin Owned(tasks[t])
        BY DEF DispatchIsExclusive
      <3>1. tasks[u] # Idle
        BY IdleTyped DEF SaveOps
      <3> QED
        BY <2>1, <3>1, IdleTyped DEF Owned
    <2> QED
      BY <2>2, <2>3
  <1>4. [CheckedNext]_vars => [Next]_vars
    BY DEF Next
  <1>5. CheckedSpec => [](OneHandlerPerJob /\ DispatchIsExclusive) /\ Spec
    BY <1>1, <1>2, <1>3, <1>4, TypeInvInit, PTL DEF CheckedSpec, Spec
  <1> QED
    BY <1>5, BudgetIsKept, TerminalStaysFinal, PTL

=============================================================================
