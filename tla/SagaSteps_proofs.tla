-------------------------- MODULE SagaSteps_proofs --------------------------
(***************************************************************************)
(* Proofs about SagaSteps, for any jobs, workers, runs and kinds of runs,  *)
(* with or without services, and for any number of faults.                 *)
(*                                                                         *)
(* The argument for RUN_JOB.  An execution saga comes to ExecuteJob with   *)
(* services only out of AssignWorker, which reads the job as PENDING and   *)
(* writes it ASSIGNED in one command; the bus keeps the commands of other  *)
(* execution sagas out in between, and no step, compensation, result or    *)
(* resumption makes a job PENDING again.  So a job has at most one run     *)
(* that may send it, and none once it was sent.                            *)
(*                                                                         *)
(* The argument for the rollback.  The container of a provisioning saga    *)
(* is on record as its completed step 2 until a DestroyWorker command has  *)
(* reported success; the reversed loop, which does not pass a completed    *)
(* step that has a compensation, cannot come to its end before that.  The  *)
(* container that is not yet, or never, on record is in the hands of the   *)
(* command that made it, or is stray.                                      *)
(***************************************************************************)
EXTENDS SagaSteps, TLAPS

\* A run that was started and that creates a worker from its spec.
Owns(r) == saga[r].st # "none" /\ saga[r].kind \in {"provisioning", "recovery"}

\* What a run and its committed context always look like.
RunOk(s, c) ==
    /\ s.st = "none" => s = NoSaga /\ c = NewCtx
    /\ s.done \subseteq 1..Len(StepsOf[s.kind])
    /\ s.st = "forward" => s.at >= 1 /\ \A k \in 1..(s.at - 1) : k \in s.done
    /\ s.st # "none" /\ s.kind = "execution" => s.job \in Jobs
    /\ s.st # "none" /\ s.kind = "recovery" => s.worker \in Workers
    /\ s.st # "none" /\ s.kind \in {"provisioning", "recovery"} =>
         /\ s.spec \in Workers
         /\ c.worker \in {NoWorker, s.spec}
         /\ 2 \in s.done => c.worker = s.spec
    /\ s.kind = "provisioning" /\ 2 \in s.done =>
         /\ 1 \in s.done
         /\ s.st = "rollback" => s.at >= 2
         /\ s.st = "forward" => s.at >= 3
         /\ s.st # "rolled_back"

RunsOk == \A r \in Runs : RunOk(saga[r], ctx[r])

\* A worker id belongs to one run, and rows and containers to ids given out.
IdsOk ==
    /\ \A w \in Workers : row[w] # "Absent" => w \in issued
    /\ \A r \in Runs : Owns(r) => saga[r].spec \in issued
    /\ \A r, q \in Runs : Owns(r) /\ Owns(q) /\ saga[r].spec = saga[q].spec => r = q

\* A command in progress is one of a run that is called, with services; what it
\* goes by is what it has checked.
CallOk(s, c) ==
    /\ c.pc # "none" => s.st \in {"forward", "rollback"} /\ s.services
    /\ c.pc = "created" =>
         s.st = "forward" /\ s.at = 2 /\ s.kind \in {"provisioning", "recovery"}
    /\ s.kind = "execution" /\ s.st = "forward" /\ c.pc = "job" =>
         /\ s.at = 2 => CanTransition(c.seen, "Assigned")
         /\ s.at = 4 => CanTransition(c.seen, "Succeeded")
    /\ s.kind = "cleanup" /\ c.pc = "job" => c.job \in Jobs

CallsOk == \A r \in Runs : CallOk(saga[r], call[r])

\* One command of an execution saga at a time.
Busy(s, c) == s.kind = "execution" /\ s.st = "forward" /\ c.pc # "none"
BusOk == \A r, q \in Runs : Busy(saga[r], call[r]) /\ Busy(saga[q], call[q]) => r = q

\* The run has the job to itself: it has read it as PENDING and not sent it yet.
Executes(s) == s.kind = "execution" /\ s.st = "forward" /\ s.services
Claims(s, c) ==
    /\ Executes(s)
    /\ (s.at = 2 /\ c.pc \in {"job", "saved"}) \/ (s.at = 3 /\ c.pc # "sent")

\* It has also written the job.
Marked(s, c) == Claims(s, c) /\ ~ (s.at = 2 /\ c.pc = "job")

\* The run has sent the job.
HasSent(s, c) == Executes(s) /\ ((s.at = 3 /\ c.pc = "sent") \/ s.at = 4)

SendOk ==
    \A j \in Jobs :
        /\ sent[j] \in {0, 1}
        /\ job[j] = "Pending" => sent[j] = 0
        /\ job[j] = "Succeeded" => sent[j] = 1
        /\ \A r \in Runs : Claims(saga[r], call[r]) /\ saga[r].job = j =>
             /\ sent[j] = 0
             /\ \A q \in Runs : Claims(saga[q], call[q]) /\ saga[q].job = j => q = r
        /\ \A r \in Runs : Marked(saga[r], call[r]) /\ saga[r].job = j => job[j] # "Pending"
        /\ \A r \in Runs : HasSent(saga[r], call[r]) /\ saga[r].job = j => sent[j] = 1

\* A container of a provisioning run that is neither refused nor stray is on
\* record, or in the hands of the command that made it.
HonestRun(s, c) ==
    s.kind = "provisioning" /\ s.spec \in infra \ (refused \cup stray)
       => 2 \in s.done \/ c.pc = "created"

HonestOk == \A r \in Runs : HonestRun(saga[r], call[r])

Inv == TypeOK /\ RunsOk /\ CallsOk /\ IdsOk /\ BusOk /\ SendOk /\ HonestOk

-----------------------------------------------------------------------------
(* The tables of steps.                                                    *)

LEMMA KindsAre ==
    Kinds = {"execution", "provisioning", "cancellation", "timeout", "recovery", "cleanup"}
BY DEF Kinds, StepsOf

LEMMA StepsLen ==
    /\ Len(StepsOf["execution"]) = 4
    /\ Len(StepsOf["provisioning"]) = 3
    /\ Len(StepsOf["cancellation"]) = 4
    /\ Len(StepsOf["timeout"]) = 4
    /\ Len(StepsOf["recovery"]) = 5
    /\ Len(StepsOf["cleanup"]) = 5
BY DEF StepsOf

LEMMA StepsBound == \A k \in Kinds : Len(StepsOf[k]) \in 1..5
BY KindsAre, StepsLen

LEMMA PlaceBound ==
    ASSUME NEW k \in Kinds, NEW i \in 1..Len(StepsOf[k])
    PROVE  i \in 1..5
<1>1. PICK n \in 1..5 : n = Len(StepsOf[k])
  BY StepsBound
<1>2. i \in 1..n
  BY <1>1
<1> QED
  BY <1>2

\* The name of a step tells the saga it is of, and its place in it where a
\* proof asks for it.
LEMMA StepPlace ==
    ASSUME NEW k \in Kinds, NEW i \in 1..Len(StepsOf[k])
    PROVE  LET n == StepsOf[k][i] IN
           /\ k = "execution" =>
                n = << "ValidateJob", "AssignWorker", "ExecuteJob", "CompleteJob" >>[i]
           /\ n = "ValidateJob" => k = "execution" /\ i = 1
           /\ n = "AssignWorker" => k = "execution" /\ i = 2
           /\ n = "ExecuteJob" => k = "execution" /\ i = 3
           /\ n = "CompleteJob" => k = "execution" /\ i = 4
           /\ n = "ValidateProviderCapacity" => k = "provisioning" /\ i = 1
           /\ n = "CreateInfrastructure" => k = "provisioning" /\ i = 2
           /\ n = "PublishProvisionedEvent" => k = "provisioning" /\ i = 3
           /\ n \in {"ValidateCancellation", "NotifyWorker", "UpdateJobState", "ReleaseWorker"}
                => k = "cancellation"
           /\ n \in {"ValidateTimeout", "TerminateWorker", "MarkJobFailed",
                     "ReleaseTimedOutWorker"} => k = "timeout"
           /\ n = "CheckWorkerConnectivity" => k = "recovery" /\ i = 1
           /\ n = "ProvisionNewWorker" => k = "recovery" /\ i = 2
           /\ n = "TransferJob" => k = "recovery" /\ i = 3
           /\ n = "TerminateOldWorker" => k = "recovery" /\ i = 4
           /\ n = "CancelOldWorker" => k = "recovery" /\ i = 5
           /\ n \in {"IdentifyUnhealthyWorkers", "IdentifyOrphanedJobs",
                     "CleanupUnhealthyWorkers", "ResetOrphanedJobs", "PublishCleanupMetrics"}
                => k = "cleanup"
           /\ k = "provisioning" /\ i = 2 => n = "CreateInfrastructure"
<1>1. CASE k = "execution"
  BY <1>1, StepsLen DEF StepsOf
<1>2. CASE k = "provisioning"
  BY <1>2, StepsLen DEF StepsOf
<1>3. CASE k = "cancellation"
  BY <1>3, StepsLen DEF StepsOf
<1>4. CASE k = "timeout"
  BY <1>4, StepsLen DEF StepsOf
<1>5. CASE k = "recovery"
  BY <1>5, StepsLen DEF StepsOf
<1>6. CASE k = "cleanup"
  BY <1>6, StepsLen DEF StepsOf
<1> QED
  BY <1>1, <1>2, <1>3, <1>4, <1>5, <1>6, KindsAre

-----------------------------------------------------------------------------
(* What the orchestrator does to a run.                                    *)

\* The run r, and only it, goes on: what it was started with stays.
GoesOn(r) ==
    /\ saga' \in [Runs -> Saga] /\ ctx' \in [Runs -> Ctx] /\ call' \in [Runs -> Call]
    /\ \A q \in Runs \ {r} : saga'[q] = saga[q] /\ ctx'[q] = ctx[q] /\ call'[q] = call[q]
    /\ saga'[r].kind = saga[r].kind /\ saga'[r].job = saga[r].job
    /\ saga'[r].worker = saga[r].worker /\ saga'[r].spec = saga[r].spec

Moved(r, st, services, at, done, c) ==
    /\ GoesOn(r)
    /\ saga'[r].st = st /\ saga'[r].services = services
    /\ saga'[r].at = at /\ saga'[r].done = done
    /\ ctx'[r] = c
    /\ call'[r].pc = "none"

LEMMA NoCallTyped == NoCall \in Call /\ NoCall.pc = "none"
BY DEF NoCall, Call

LEMMA ReturnedTyped ==
    ASSUME TypeOK, NEW r \in Runs, Returned(r)
    PROVE  /\ call' \in [Runs -> Call] /\ call'[r].pc = "none"
           /\ \A q \in Runs \ {r} : call'[q] = call[q]
BY NoCallTyped DEF TypeOK, Returned

LEMMA RunTyped ==
    ASSUME TypeOK, NEW r \in Runs
    PROVE  /\ saga \in [Runs -> Saga] /\ ctx \in [Runs -> Ctx]
           /\ saga[r] \in Saga /\ ctx[r] \in Ctx
           /\ call \in [Runs -> Call] /\ call[r] \in Call
           /\ saga[r].kind \in Kinds /\ saga[r].at \in 0..6 /\ saga[r].done \subseteq 1..5
           /\ saga[r].st \in Phase /\ saga[r].services \in BOOLEAN
           /\ saga[r].spec \in Workers \cup {NoWorker}
           /\ ctx[r].worker \in Workers \cup {NoWorker}
BY DEF TypeOK, Saga, Ctx

LEMMA StepOkMoves ==
    ASSUME TypeOK, NEW r \in Runs, NEW c \in Ctx, saga[r].at \in 1..5, StepOk(r, c)
    PROVE  Moved(r, saga[r].st, saga[r].services, saga[r].at + 1,
                 saga[r].done \cup {saga[r].at}, c)
<1> DEFINE d == saga[r].done \cup {saga[r].at}
<1>1. d \in SUBSET (1..5) /\ saga[r].at + 1 \in 0..6
  BY RunTyped
<1>2. /\ saga' = [saga EXCEPT ![r] = [saga[r] EXCEPT !.at = saga[r].at + 1, !.done = d]]
      /\ ctx' = [ctx EXCEPT ![r] = c]
  BY RunTyped DEF StepOk
<1>4. /\ call' \in [Runs -> Call] /\ call'[r].pc = "none"
      /\ \A q \in Runs \ {r} : call'[q] = call[q]
  BY ReturnedTyped DEF StepOk
<1> HIDE DEF d
<1>3. Moved(r, saga[r].st, saga[r].services, saga[r].at + 1, d, c)
  BY <1>1, <1>2, <1>4, RunTyped DEF Moved, GoesOn, Saga
<1> QED
  BY <1>3 DEF d

LEMMA StepErrMoves ==
    ASSUME TypeOK, NEW r \in Runs, saga[r].at >= 1, StepErr(r)
    PROVE  Moved(r, "rollback", saga[r].services, saga[r].at - 1, saga[r].done, ctx[r])
BY RunTyped, ReturnedTyped DEF StepErr, Moved, GoesOn, Saga, Phase

LEMMA CompOkMoves ==
    ASSUME TypeOK, NEW r \in Runs, saga[r].at >= 1, CompOk(r)
    PROVE  Moved(r, saga[r].st, saga[r].services, saga[r].at - 1,
                 saga[r].done \ {saga[r].at}, ctx[r])
<1> DEFINE d == saga[r].done \ {saga[r].at}
<1>1. d \in SUBSET (1..5) /\ saga[r].at - 1 \in 0..6
  BY RunTyped
<1>2. /\ saga' = [saga EXCEPT ![r] = [saga[r] EXCEPT !.at = saga[r].at - 1, !.done = d]]
      /\ ctx' = ctx
  BY RunTyped DEF CompOk
<1>4. /\ call' \in [Runs -> Call] /\ call'[r].pc = "none"
      /\ \A q \in Runs \ {r} : call'[q] = call[q]
  BY ReturnedTyped DEF CompOk
<1> HIDE DEF d
<1>3. Moved(r, saga[r].st, saga[r].services, saga[r].at - 1, d, ctx[r])
  BY <1>1, <1>2, <1>4, RunTyped DEF Moved, GoesOn, Saga
<1> QED
  BY <1>3 DEF d

LEMMA StateMoves ==
    ASSUME TypeOK, NEW r \in Runs, NEW st \in Phase,
           saga' = [saga EXCEPT ![r].st = st], Returned(r), UNCHANGED ctx
    PROVE  Moved(r, st, saga[r].services, saga[r].at, saga[r].done, ctx[r])
BY RunTyped, ReturnedTyped DEF Moved, GoesOn, Saga, Phase

LEMMA PassMoves ==
    ASSUME TypeOK, NEW r \in Runs, saga[r].at > 0,
           saga' = [saga EXCEPT ![r].at = @ - 1], Returned(r), UNCHANGED ctx
    PROVE  Moved(r, saga[r].st, saga[r].services, saga[r].at - 1, saga[r].done, ctx[r])
<1>1. saga[r].at - 1 \in 0..6
  BY RunTyped
<1>2. saga' = [saga EXCEPT ![r] = [saga[r] EXCEPT !.at = saga[r].at - 1]] /\ ctx' = ctx
  BY RunTyped
<1>3. /\ call' \in [Runs -> Call] /\ call'[r].pc = "none"
      /\ \A q \in Runs \ {r} : call'[q] = call[q]
  BY ReturnedTyped
<1> DEFINE n == saga[r].at - 1
           t == [saga[r] EXCEPT !.at = n]
<1>4. n \in 0..6 /\ saga' = [saga EXCEPT ![r] = t]
  BY <1>1, <1>2
<1> HIDE DEF n
<1>5. /\ t \in Saga /\ t.at = n /\ t.st = saga[r].st /\ t.services = saga[r].services
      /\ t.done = saga[r].done /\ t.kind = saga[r].kind /\ t.job = saga[r].job
      /\ t.worker = saga[r].worker /\ t.spec = saga[r].spec
  BY <1>4, RunTyped DEF Saga
<1> HIDE DEF t
<1>6. Moved(r, saga[r].st, saga[r].services, n, saga[r].done, ctx[r])
  BY <1>2, <1>3, <1>4, <1>5, RunTyped DEF Moved, GoesOn
<1> QED
  BY <1>6 DEF n

-----------------------------------------------------------------------------
(* Steps that neither send a job nor create a container.                   *)

\* No job becomes PENDING, and none SUCCEEDED that was not sent.
JobsCalm ==
    /\ job' \in [Jobs -> JobState]
    /\ sent' = sent
    /\ reported' \subseteq Jobs
    /\ \A j \in Jobs :
         /\ job'[j] = "Pending" => job[j] = "Pending"
         /\ job'[j] = "Succeeded" => job[j] = "Succeeded" \/ sent[j] = 1

\* Rows and containers only go.
WorkersCalm ==
    /\ row' \in [Workers -> WorkerState \cup {"Absent"}]
    /\ current' \in [Workers -> Jobs \cup {NoJob}]
    /\ \A w \in Workers : row'[w] # "Absent" => row[w] # "Absent"
    /\ infra' \subseteq infra
    /\ issued' = issued
    /\ refused \subseteq refused' /\ refused' \subseteq issued
    /\ stray \subseteq stray' /\ stray' \subseteq issued

FaultsCounted == Fault \/ NoFault

Calm == JobsCalm /\ WorkersCalm /\ FaultsCounted

LEMMA FaultsTyped ==
    ASSUME faults \in 0..MaxFaults, FaultsCounted
    PROVE  faults' \in 0..MaxFaults
BY StepsAssumption DEF FaultsCounted, Fault, NoFault

LEMMA KeepJobsCalm == TypeOK /\ KeepJobs => JobsCalm
BY DEF TypeOK, KeepJobs, outside, JobsCalm

LEMMA KeepWorkersCalm == TypeOK /\ KeepWorkers => WorkersCalm
BY DEF TypeOK, KeepWorkers, places, WorkersCalm

\* What is left to show of a step of the run r that makes no container of
\* another run, once SendOk is known to be kept.
LEMMA RunKeeps ==
    ASSUME Inv, NEW r \in Runs, GoesOn(r), FaultsCounted,
           job' \in [Jobs -> JobState], sent' \in [Jobs -> Nat], reported' \subseteq Jobs,
           row' \in [Workers -> WorkerState \cup {"Absent"}],
           current' \in [Workers -> Jobs \cup {NoJob}],
           \A w \in Workers : row'[w] # "Absent" => row[w] # "Absent",
           issued' = issued, infra' \subseteq issued,
           \A q \in Runs \ {r} : saga[q].kind = "provisioning" /\ saga[q].spec \in infra'
                                    => saga[q].spec \in infra,
           refused \subseteq refused', refused' \subseteq issued,
           stray \subseteq stray', stray' \subseteq issued,
           saga[r].st # "none", saga'[r].st # "none",
           RunOk(saga'[r], ctx'[r]), CallOk(saga'[r], call'[r]),
           Busy(saga'[r], call'[r]) =>
             Busy(saga[r], call[r]) \/ \A q \in Runs : ~ Busy(saga[q], call[q]),
           HonestRun(saga[r], call[r])', SendOk'
    PROVE  Inv'
<1>1. TypeOK'
  BY FaultsTyped DEF Inv, TypeOK, GoesOn
<1>2. RunsOk' /\ CallsOk'
  <2>1. \A q \in Runs : RunOk(saga'[q], ctx'[q]) /\ CallOk(saga'[q], call'[q])
    <3>1. \A q \in Runs \ {r} :
            saga'[q] = saga[q] /\ ctx'[q] = ctx[q] /\ call'[q] = call[q]
      BY DEF GoesOn
    <3>2. \A q \in Runs : RunOk(saga[q], ctx[q]) /\ CallOk(saga[q], call[q])
      BY DEF Inv, RunsOk, CallsOk
    <3> QED
      BY Zenon, <3>1, <3>2
  <2> QED
    BY <2>1 DEF RunsOk, RunOk, CallsOk, CallOk
<1>3. IdsOk'
  BY DEF Inv, IdsOk, Owns, GoesOn
<1>4. BusOk'
  <2>1. \A q \in Runs \ {r} : Busy(saga'[q], call'[q]) => Busy(saga[q], call[q])
    BY DEF GoesOn
  <2> QED
    BY <2>1 DEF Inv, BusOk, Busy
<1>5. HonestOk'
  <2>1. \A q \in Runs \ {r} : HonestRun(saga[q], call[q]) => HonestRun(saga[q], call[q])'
    BY DEF HonestRun, GoesOn
  <2> QED
    BY <2>1 DEF Inv, HonestOk
<1> QED
  BY <1>1, <1>2, <1>3, <1>4, <1>5 DEF Inv

\* A calm step claims nothing new.
LEMMA CalmKeeps ==
    ASSUME Inv, NEW r \in Runs, GoesOn(r), Calm,
           saga[r].st # "none", saga'[r].st # "none",
           RunOk(saga'[r], ctx'[r]), CallOk(saga'[r], call'[r]),
           Busy(saga'[r], call'[r]) =>
             Busy(saga[r], call[r]) \/ \A q \in Runs : ~ Busy(saga[q], call[q]),
           Claims(saga'[r], call'[r]) => Claims(saga[r], call[r]),
           Marked(saga'[r], call'[r]) => Marked(saga[r], call[r]),
           HasSent(saga'[r], call'[r]) => HasSent(saga[r], call[r]),
           saga[r].kind = "provisioning" /\ saga[r].spec \in infra' \ (refused' \cup stray')
             => 2 \in saga'[r].done \/ call'[r].pc = "created"
    PROVE  Inv'
<1>1. SendOk'
  <2> SUFFICES ASSUME NEW j \in Jobs
               PROVE  /\ sent[j] \in {0, 1}
                      /\ job'[j] = "Pending" => sent[j] = 0
                      /\ job'[j] = "Succeeded" => sent[j] = 1
                      /\ \A q \in Runs : Claims(saga'[q], call'[q]) /\ saga'[q].job = j =>
                           /\ sent[j] = 0
                           /\ \A p \in Runs : Claims(saga'[p], call'[p]) /\ saga'[p].job = j
                                 => p = q
                      /\ \A q \in Runs : Marked(saga'[q], call'[q]) /\ saga'[q].job = j
                           => job'[j] # "Pending"
                      /\ \A q \in Runs : HasSent(saga'[q], call'[q]) /\ saga'[q].job = j
                           => sent[j] = 1
    BY DEF SendOk, Calm, JobsCalm, Claims, Marked, HasSent, Executes
  <2>1. \A q \in Runs : /\ Claims(saga'[q], call'[q]) => Claims(saga[q], call[q])
                        /\ Marked(saga'[q], call'[q]) => Marked(saga[q], call[q])
                        /\ HasSent(saga'[q], call'[q]) => HasSent(saga[q], call[q])
                        /\ saga'[q].job = saga[q].job
    BY DEF GoesOn
  <2> QED
    BY <2>1 DEF Inv, SendOk, Calm, JobsCalm
<1>2. HonestRun(saga[r], call[r])'
  BY DEF HonestRun, GoesOn
<1>3. /\ infra' \subseteq issued /\ sent' \in [Jobs -> Nat]
      /\ \A q \in Runs \ {r} : saga[q].kind = "provisioning" /\ saga[q].spec \in infra'
                                   => saga[q].spec \in infra
  BY DEF Inv, TypeOK, Calm, JobsCalm, WorkersCalm
<1> QED
  BY <1>1, <1>2, <1>3, RunKeeps DEF Calm, JobsCalm, WorkersCalm

\* A run whose command has returned, or that has none, is calm wherever it is
\* but at the steps that send and complete.
LEMMA MovedKeeps ==
    ASSUME Inv, Calm, NEW r \in Runs, NEW st, NEW services, NEW at, NEW done, NEW c,
           Moved(r, st, services, at, done, c), saga[r].st # "none", st # "none",
           RunOk(saga'[r], ctx'[r]),
           Executes(saga'[r]) /\ at = 3 => Marked(saga[r], call[r]),
           Executes(saga'[r]) /\ at = 4 => HasSent(saga[r], call[r]),
           saga[r].kind = "provisioning" /\ saga[r].spec \in infra' \ (refused' \cup stray')
             => 2 \in done
    PROVE  Inv'
<1>1. CallOk(saga'[r], call'[r]) /\ ~ Busy(saga'[r], call'[r])
  BY DEF Moved, CallOk, Busy
<1>2. /\ Claims(saga'[r], call'[r]) => Marked(saga[r], call[r])
      /\ Marked(saga'[r], call'[r]) => Marked(saga[r], call[r])
      /\ HasSent(saga'[r], call'[r]) => HasSent(saga[r], call[r])
  BY DEF Moved, Claims, Marked, HasSent
<1>3. Marked(saga[r], call[r]) => Claims(saga[r], call[r])
  BY DEF Marked
<1> QED
  BY <1>1, <1>2, <1>3, CalmKeeps DEF Moved

\* The command of a run goes on without a new claim.
LEMMA CallKeeps ==
    ASSUME Inv, Calm, NEW r \in Runs, NEW c \in Call, Calls(r, c), saga[r].st # "none",
           CallOk(saga[r], c),
           Busy(saga[r], c) =>
             Busy(saga[r], call[r]) \/ \A q \in Runs : ~ Busy(saga[q], call[q]),
           Claims(saga[r], c) => Claims(saga[r], call[r]),
           Marked(saga[r], c) => Marked(saga[r], call[r]),
           HasSent(saga[r], c) => HasSent(saga[r], call[r]),
           saga[r].kind # "provisioning"
    PROVE  Inv'
<1>1. /\ GoesOn(r) /\ saga' = saga /\ ctx' = ctx /\ call'[r] = c
      /\ RunOk(saga'[r], ctx'[r])
  BY RunTyped DEF Inv, RunsOk, Calls, GoesOn
<1> QED
  BY <1>1, CalmKeeps

LEMMA StepOkKeeps ==
    ASSUME Inv, Calm, NEW r \in Runs, NEW c \in Ctx, StepOk(r, c),
           saga[r].st = "forward", saga[r].at \in 1..Len(StepsOf[saga[r].kind]),
           saga[r].kind = "execution" /\ saga[r].at = 2 => Marked(saga[r], call[r]),
           saga[r].kind = "execution" /\ saga[r].at = 3 => HasSent(saga[r], call[r]),
           saga[r].kind = "provisioning" /\ call[r].pc = "created" => saga[r].at = 2,
           saga[r].kind \in {"provisioning", "recovery"} =>
             \/ c.worker = ctx[r].worker /\ saga[r].at # 2
             \/ c.worker = saga[r].spec /\ saga[r].at = 2
    PROVE  Inv'
<1> DEFINE s == saga[r]
<1>1. s.at \in 1..5 /\ s.done \subseteq 1..5 /\ s.kind \in Kinds
  <2>1. TypeOK
    BY DEF Inv
  <2>2. s.done \subseteq 1..5 /\ s.kind \in Kinds
    BY <2>1, RunTyped
  <2>3. s.at \in 1..5
    BY <2>2, PlaceBound
  <2> QED
    BY <2>2, <2>3
<1>2. Moved(r, s.st, s.services, s.at + 1, s.done \cup {s.at}, c)
  BY <1>1, StepOkMoves DEF Inv
<1>3. RunOk(saga[r], ctx[r])
  BY DEF Inv, RunsOk
<1>4. RunOk(saga'[r], ctx'[r])
  BY <1>1, <1>2, <1>3 DEF Moved, GoesOn, RunOk
<1>5. /\ Executes(saga'[r]) /\ s.at + 1 = 3 => Marked(saga[r], call[r])
      /\ Executes(saga'[r]) /\ s.at + 1 = 4 => HasSent(saga[r], call[r])
  BY <1>1, <1>2 DEF Moved, GoesOn, Executes
<1>6. saga[r].kind = "provisioning" /\ saga[r].spec \in infra' \ (refused' \cup stray')
        => 2 \in s.done \cup {s.at}
  BY DEF Inv, HonestOk, HonestRun, Calm, WorkersCalm
<1> QED
  BY <1>2, <1>4, <1>5, <1>6, MovedKeeps

LEMMA StepErrKeeps ==
    ASSUME Inv, Calm, NEW r \in Runs, StepErr(r), saga[r].st = "forward",
           saga[r].kind = "provisioning" => call[r].pc # "created"
    PROVE  Inv'
<1> DEFINE s == saga[r]
<1>1. RunOk(s, ctx[r]) /\ s.at \in 0..6 /\ s.at >= 1
  BY RunTyped DEF Inv, RunsOk, RunOk
<1>2. Moved(r, "rollback", s.services, s.at - 1, s.done, ctx[r])
  BY <1>1, StepErrMoves DEF Inv
<1>3. RunOk(saga'[r], ctx'[r])
  BY <1>1, <1>2 DEF Moved, GoesOn, RunOk
<1>4. ~ Executes(saga'[r])
  BY <1>2 DEF Moved, Executes
<1>5. saga[r].kind = "provisioning" /\ saga[r].spec \in infra' \ (refused' \cup stray')
        => 2 \in s.done
  BY DEF Inv, CallsOk, CallOk, HonestOk, HonestRun, Calm, WorkersCalm
<1> QED
  BY <1>2, <1>3, <1>4, <1>5, MovedKeeps

LEMMA CompOkKeeps ==
    ASSUME Inv, Calm, NEW r \in Runs, CompOk(r), saga[r].st = "rollback",
           saga[r].at \in saga[r].done,
           saga[r].kind = "provisioning" /\ saga[r].at = 2 =>
             saga[r].spec \notin infra' \ (refused' \cup stray')
    PROVE  Inv'
<1> DEFINE s == saga[r]
<1>1. RunOk(s, ctx[r]) /\ s.at \in 1..5
  <2>1. TypeOK
    BY DEF Inv
  <2>2. s.done \subseteq 1..5
    BY <2>1, RunTyped
  <2> QED
    BY <2>2 DEF Inv, RunsOk
<1>2. Moved(r, s.st, s.services, s.at - 1, s.done \ {s.at}, ctx[r])
  <2>1. s.at >= 1
    BY <1>1
  <2> QED
    BY <2>1, CompOkMoves DEF Inv
<1>3. RunOk(saga'[r], ctx'[r])
  BY <1>1, <1>2 DEF Moved, GoesOn, RunOk
<1>4. ~ Executes(saga'[r])
  BY <1>2 DEF Moved, Executes
<1>5. saga[r].kind = "provisioning" /\ saga[r].spec \in infra' \ (refused' \cup stray')
        => 2 \in s.done \ {s.at}
  BY <1>1 DEF Inv, CallsOk, CallOk, HonestOk, HonestRun, Calm, WorkersCalm
<1> QED
  BY <1>2, <1>3, <1>4, <1>5, MovedKeeps

LEMMA CompErrKeeps ==
    ASSUME Inv, Calm, NEW r \in Runs, CompErr(r), saga[r].st = "rollback"
    PROVE  Inv'
<1> DEFINE s == saga[r]
<1>1. RunOk(s, ctx[r])
  BY DEF Inv, RunsOk
<1>2. Moved(r, "failed", s.services, s.at, s.done, ctx[r])
  BY StateMoves DEF Inv, CompErr, Phase
<1>3. RunOk(saga'[r], ctx'[r])
  BY <1>1, <1>2 DEF Moved, GoesOn, RunOk
<1>4. ~ Executes(saga'[r])
  BY <1>2 DEF Moved, Executes
<1>5. saga[r].kind = "provisioning" /\ saga[r].spec \in infra' \ (refused' \cup stray')
        => 2 \in s.done
  BY DEF Inv, CallsOk, CallOk, HonestOk, HonestRun, Calm, WorkersCalm
<1> QED
  BY <1>2, <1>3, <1>4, <1>5, MovedKeeps

-----------------------------------------------------------------------------
(* The orchestrator's own steps.                                           *)

LEMMA KeepWorldCalm == TypeOK /\ KeepWorld /\ FaultsCounted => Calm
BY KeepJobsCalm, KeepWorkersCalm DEF KeepWorld, Calm

LEMMA ForwardPlace ==
    ASSUME Inv, NEW r \in Runs, saga[r].st = "forward",
           saga[r].at <= Len(StepsOf[saga[r].kind])
    PROVE  saga[r].kind \in Kinds /\ saga[r].at \in 1..Len(StepsOf[saga[r].kind])
<1>1. saga[r].kind \in Kinds /\ saga[r].at \in 0..6
  BY RunTyped DEF Inv
<1>2. PICK n \in 1..5 : n = Len(StepsOf[saga[r].kind])
  BY <1>1, StepsBound
<1>3. saga[r].at >= 1
  BY DEF Inv, RunsOk, RunOk
<1>4. saga[r].at \in 1..n
  BY <1>1, <1>2, <1>3
<1> QED
  BY <1>1, <1>2, <1>4

\* Where a run is that has come to a step.
LEMMA AtPlace ==
    ASSUME Inv, NEW r \in Runs, NEW name, At(r, name)
    PROVE  /\ saga[r].st = "forward"
           /\ saga[r].kind \in Kinds /\ saga[r].at \in 1..Len(StepsOf[saga[r].kind])
           /\ StepsOf[saga[r].kind][saga[r].at] = name
BY ForwardPlace DEF At, StepAt

\* Where a run is that compensates a step.
LEMMA CompPlace ==
    ASSUME Inv, NEW r \in Runs, saga[r].at \in saga[r].done
    PROVE  saga[r].kind \in Kinds /\ saga[r].at \in 1..Len(StepsOf[saga[r].kind])
<1>1. saga[r].kind \in Kinds
  BY RunTyped DEF Inv
<1> QED
  BY <1>1 DEF Inv, RunsOk, RunOk

\* A container is in the hands of a command only in the second step.
LEMMA NotCreated ==
    ASSUME Inv, NEW r \in Runs, saga[r].at # 2
    PROVE  call[r].pc # "created"
BY DEF Inv, CallsOk, CallOk

\* A run that stops, or loses its call.
LEMMA StopKeeps ==
    ASSUME Inv, Calm, NEW r \in Runs, NEW st \in {"completed", "rolled_back", "cut"},
           saga' = [saga EXCEPT ![r].st = st], Returned(r), UNCHANGED ctx,
           saga[r].st # "none",
           saga[r].kind = "provisioning" /\ call[r].pc = "created" => saga[r].spec \in stray',
           st = "rolled_back" => saga[r].st = "rollback" /\ saga[r].at = 0
    PROVE  Inv'
<1> DEFINE s == saga[r]
<1>1. RunOk(s, ctx[r])
  BY DEF Inv, RunsOk
<1>2. Moved(r, st, s.services, s.at, s.done, ctx[r])
  BY StateMoves DEF Inv, Phase
<1>3. RunOk(saga'[r], ctx'[r])
  BY <1>1, <1>2 DEF Moved, GoesOn, RunOk
<1>4. ~ Executes(saga'[r])
  BY <1>2 DEF Moved, Executes
<1>5. saga[r].kind = "provisioning" /\ saga[r].spec \in infra' \ (refused' \cup stray')
        => 2 \in s.done
  BY DEF Inv, CallsOk, CallOk, HonestOk, HonestRun, Calm, WorkersCalm
<1> QED
  BY <1>2, <1>3, <1>4, <1>5, MovedKeeps

LEMMA CompleteKeeps == ASSUME Inv, NEW r \in Runs, Complete(r) PROVE Inv'
<1>1. Calm
  BY KeepWorldCalm DEF Complete, Inv, FaultsCounted
<1>2. saga[r].kind = "provisioning" => call[r].pc # "created"
  <2>1. SUFFICES ASSUME saga[r].kind = "provisioning" PROVE saga[r].at # 2
    BY NotCreated
  <2>2. saga[r].at > 3 /\ saga[r].at \in 0..6
    BY <2>1, StepsLen, RunTyped DEF Complete, Inv
  <2> QED
    BY <2>2
<1> QED
  BY <1>1, <1>2, StopKeeps DEF Complete

LEMMA RollbackEndsKeeps == ASSUME Inv, NEW r \in Runs, RollbackEnds(r) PROVE Inv'
<1>1. Calm
  BY KeepWorldCalm DEF RollbackEnds, Inv, FaultsCounted
<1>2. call[r].pc # "created"
  BY DEF RollbackEnds, Inv, CallsOk, CallOk
<1> QED
  BY <1>1, <1>2, StopKeeps DEF RollbackEnds

\* The container of a command that is cut off is stray.
LEMMA CutKeeps == ASSUME Inv, NEW r \in Runs, Cut(r) PROVE Inv'
<1>1. call[r].pc = "created" => saga[r].spec \in issued /\ saga[r].spec \in stray'
  BY DEF Cut, Inv, CallsOk, CallOk, IdsOk, Owns
<1>2. WorkersCalm
  BY <1>1 DEF Cut, Inv, TypeOK, WorkersCalm
<1>3. Calm
  BY <1>2, KeepJobsCalm DEF Cut, Inv, Calm, FaultsCounted
<1> QED
  BY <1>1, <1>3, StopKeeps DEF Cut

\* The loop does not pass the step that created a worker.
LEMMA PassStepKeeps == ASSUME Inv, NEW r \in Runs, PassStep(r) PROVE Inv'
<1> DEFINE s == saga[r]
<1>1. Calm
  BY KeepWorldCalm DEF PassStep, Inv, FaultsCounted
<1>2. RunOk(s, ctx[r]) /\ s.at \in 0..6
  BY RunTyped DEF Inv, RunsOk
<1>3. Moved(r, s.st, s.services, s.at - 1, s.done, ctx[r])
  BY PassMoves DEF Inv, PassStep
<1>4. s.kind = "provisioning" /\ 2 \in s.done => s.at # 2
  <2> SUFFICES ASSUME s.kind = "provisioning", 2 \in s.done, s.at = 2 PROVE FALSE
    OBVIOUS
  <2>1. s.kind \in Kinds /\ s.at \in 1..Len(StepsOf[s.kind])
    BY CompPlace
  <2>2. StepAt(r) = "CreateInfrastructure"
    BY <2>1, StepPlace DEF StepAt
  <2> QED
    BY <2>2 DEF PassStep, HasCompensation
<1>5. RunOk(saga'[r], ctx'[r])
  BY <1>2, <1>3, <1>4 DEF PassStep, Moved, GoesOn, RunOk
<1>6. ~ Executes(saga'[r])
  BY <1>3 DEF PassStep, Moved, Executes
<1>7. saga[r].kind = "provisioning" /\ saga[r].spec \in infra' \ (refused' \cup stray')
        => 2 \in s.done
  BY <1>1 DEF PassStep, Inv, CallsOk, CallOk, HonestOk, HonestRun, Calm, WorkersCalm
<1> QED
  BY <1>1, <1>3, <1>5, <1>6, <1>7, MovedKeeps DEF PassStep

\* The place a resumed run goes on from.

LEMMA FirstOpen ==
    ASSUME NEW done \in SUBSET (1..5)
    PROVE  \E i \in 1..6 : i \notin done /\ \A k \in 1..(i - 1) : k \in done
<1>1. CASE 1 \notin done
  BY <1>1
<1>2. CASE 1 \in done /\ 2 \notin done
  BY <1>2
<1>3. CASE 1 \in done /\ 2 \in done /\ 3 \notin done
  BY <1>3
<1>4. CASE 1 \in done /\ 2 \in done /\ 3 \in done /\ 4 \notin done
  BY <1>4
<1>5. CASE 1 \in done /\ 2 \in done /\ 3 \in done /\ 4 \in done /\ 5 \notin done
  BY <1>5
<1>6. CASE 1 \in done /\ 2 \in done /\ 3 \in done /\ 4 \in done /\ 5 \in done
  BY <1>6
<1> QED
  BY <1>1, <1>2, <1>3, <1>4, <1>5, <1>6

LEMMA ResumeKeeps == ASSUME Inv, NEW r \in Runs, Resume(r) PROVE Inv'
<1> DEFINE s == saga[r]
           i == CHOOSE i \in 1..6 : i \notin s.done /\ \A k \in 1..(i - 1) : k \in s.done
<1>1. Calm
  BY KeepWorldCalm DEF Resume, Inv, FaultsCounted
<1>2. RunOk(s, ctx[r]) /\ s.done \in SUBSET (1..5) /\ TypeOK
  BY RunTyped DEF Inv, RunsOk
<1>3. i \in 1..6 /\ i \notin s.done /\ \A k \in 1..(i - 1) : k \in s.done
  BY <1>2, FirstOpen
<1>4. Moved(r, "forward", FALSE, i, s.done, ctx[r])
  <2>1. /\ saga' = [saga EXCEPT ![r].st = "forward", ![r].services = FALSE, ![r].at = i]
        /\ ctx' = ctx
    BY DEF Resume
  <2>2. i \in 0..6
    BY <1>3
  <2> HIDE DEF i
  <2>3. /\ saga' = [saga EXCEPT ![r] =
                      [saga[r] EXCEPT !.st = "forward", !.services = FALSE, !.at = i]]
        /\ ctx' = ctx
    BY <1>2, <2>1, RunTyped
  <2>4. "forward" \in Phase
    BY DEF Phase
  <2>5. TypeOK
    BY <1>2
  <2>6. call' = call /\ call[r].pc = "none"
    BY DEF Resume, Inv, CallsOk, CallOk
  <2> QED
    BY <2>2, <2>3, <2>4, <2>5, <2>6, RunTyped DEF Moved, GoesOn, Saga
<1> HIDE DEF i
<1>5. s.kind = "provisioning" /\ 2 \in s.done => i >= 3
  BY <1>2, <1>3 DEF RunOk
<1>6. RunOk(saga'[r], ctx'[r])
  BY <1>2, <1>3, <1>4, <1>5 DEF Resume, Moved, GoesOn, RunOk
<1>7. ~ Executes(saga'[r])
  BY <1>4 DEF Moved, Executes
<1>8. saga[r].kind = "provisioning" /\ saga[r].spec \in infra' \ (refused' \cup stray')
        => 2 \in s.done
  BY <1>1 DEF Resume, Inv, CallsOk, CallOk, HonestOk, HonestRun, Calm, WorkersCalm
<1> QED
  BY <1>1, <1>4, <1>6, <1>7, <1>8, MovedKeeps DEF Resume

LEMMA StepWithoutServicesKeeps ==
    ASSUME Inv, NEW r \in Runs, StepWithoutServices(r) PROVE Inv'
<1>1. Calm
  BY KeepWorldCalm DEF StepWithoutServices, Inv, FaultsCounted
<1>2. call[r].pc # "created"
  BY DEF StepWithoutServices, Inv, CallsOk, CallOk
<1> QED
  BY <1>1, <1>2, StepErrKeeps DEF StepWithoutServices

\* Without services the step that created a worker cannot be undone: the run
\* fails and its container stays on record.
LEMMA CompWithoutServicesKeeps ==
    ASSUME Inv, NEW r \in Runs, CompWithoutServices(r) PROVE Inv'
<1>1. Calm
  BY KeepWorldCalm DEF CompWithoutServices, Inv, FaultsCounted
<1>2. CASE CompErr(r)
  BY <1>1, <1>2, CompErrKeeps DEF CompWithoutServices
<1>3. CASE ~ NeedsServices(r) /\ CompOk(r)
  <2>1. ASSUME saga[r].kind = "provisioning", saga[r].at = 2 PROVE FALSE
    <3>1. 2 \in saga[r].done
      BY <2>1 DEF CompWithoutServices
    <3>2. saga[r].kind \in Kinds /\ saga[r].at \in 1..Len(StepsOf[saga[r].kind])
      BY CompPlace DEF CompWithoutServices
    <3>3. StepAt(r) = "CreateInfrastructure"
      BY <2>1, <3>2, StepPlace DEF StepAt
    <3>4. ctx[r].worker = saga[r].spec /\ saga[r].spec \in Workers
      BY <2>1, <3>1 DEF CompWithoutServices, Inv, RunsOk, RunOk
    <3> QED
      BY <1>3, <3>3, <3>4, StepsAssumption DEF NeedsServices
  <2> QED
    BY <1>1, <1>3, <2>1, CompOkKeeps DEF CompWithoutServices
<1> QED
  BY <1>2, <1>3 DEF CompWithoutServices

-----------------------------------------------------------------------------
(* Starts, and what happens around the sagas.                              *)

LEMMA StartKeeps ==
    ASSUME Inv, NEW r \in Runs, NEW k, NEW j \in Jobs \cup {NoJob},
           NEW w \in Workers \cup {NoWorker}, NEW spec \in Workers \cup {NoWorker},
           Start(r, k, j, w, spec), issued \subseteq issued', issued' \subseteq Workers,
           k \in {"provisioning", "recovery"} => spec \in issued' \ issued,
           k = "execution" => j \in Jobs, k = "recovery" => w \in Workers
    PROVE  Inv'
<1> DEFINE s == [ kind |-> k, job |-> j, worker |-> w, spec |-> spec,
                  services |-> k \in Services, st |-> "forward", at |-> 1, done |-> {} ]
<1>1. TypeOK /\ ctx[r] = NewCtx /\ k \in Kinds
  BY StepsAssumption DEF Inv, RunsOk, RunOk, Start
<1>2. s \in Saga
  BY <1>1 DEF Saga, Phase
<1>3. saga' \in [Runs -> Saga] /\ saga'[r] = s /\ \A q \in Runs \ {r} : saga'[q] = saga[q]
  BY <1>1, <1>2, RunTyped DEF Start
<1>4. UNCHANGED << job, row, current, infra, refused, stray, sent, reported, ctx, call, faults >>
  BY DEF Start, KeepJobs, outside, NoFault
<1>5. TypeOK'
  BY <1>3, <1>4 DEF Inv, TypeOK
<1>6. RunsOk'
  <2>1. RunOk(s, NewCtx)
    <3>1. k \in {"provisioning", "recovery"} => spec \in Workers
      OBVIOUS
    <3>2. \A i \in 1..0 : i \in s.done
      OBVIOUS
    <3> QED
      BY <3>1, <3>2 DEF RunOk, NewCtx
  <2> QED
    BY <1>1, <1>3, <1>4, <2>1 DEF Inv, RunsOk, RunOk
<1>7. IdsOk'
  <2>1. \A q \in Runs \ {r} : Owns(q)' = Owns(q) /\ saga'[q].spec = saga[q].spec
    BY <1>3 DEF Owns
  <2>2. Owns(r)' => saga'[r].spec = spec /\ spec \in issued' \ issued
    BY <1>3 DEF Owns
  <2> QED
    BY <1>4, <2>1, <2>2 DEF Inv, IdsOk
<1>8. /\ call[r].pc = "none"
      /\ ~ Busy(saga'[r], call[r]) /\ ~ Claims(saga'[r], call[r])
      /\ ~ Marked(saga'[r], call[r]) /\ ~ HasSent(saga'[r], call[r])
  BY <1>3 DEF Start, Inv, CallsOk, CallOk, Busy, Claims, Marked, HasSent
<1>9. CallsOk' /\ BusOk'
  BY <1>3, <1>4, <1>8 DEF Inv, CallsOk, CallOk, BusOk, Busy
<1>10. SendOk'
  <2>1. \A q \in Runs :
          /\ Claims(saga'[q], call[q]) => Claims(saga[q], call[q]) /\ saga'[q].job = saga[q].job
          /\ Marked(saga'[q], call[q]) => Marked(saga[q], call[q]) /\ saga'[q].job = saga[q].job
          /\ HasSent(saga'[q], call[q]) => HasSent(saga[q], call[q]) /\ saga'[q].job = saga[q].job
    BY <1>3, <1>8
  <2> QED
    BY <1>4, <2>1 DEF Inv, SendOk, Claims, Marked, HasSent, Executes
<1>11. HonestOk'
  <2>1. HonestRun(saga[r], call[r])'
    BY <1>1, <1>3, <1>4 DEF HonestRun, TypeOK
  <2>2. \A q \in Runs \ {r} : HonestRun(saga[q], call[q]) => HonestRun(saga[q], call[q])'
    BY <1>3, <1>4 DEF HonestRun
  <2> QED
    BY <2>1, <2>2 DEF Inv, HonestOk
<1> QED
  BY <1>5, <1>6, <1>7, <1>9, <1>10, <1>11 DEF Inv

LEMMA StartsKeep == ASSUME Inv, NEW r \in Runs, Starts(r) PROVE Inv'
<1>1. issued \subseteq Workers /\ current \in [Workers -> Jobs \cup {NoJob}]
  BY DEF Inv, TypeOK
<1>2. ASSUME NEW j \in Jobs, NEW w \in Workers, StartExecution(r, j, w) PROVE Inv'
  BY <1>1, <1>2, StartKeeps DEF StartExecution
<1>3. ASSUME NEW j \in Jobs, NEW w \in Workers, StartProvisioning(r, j, w) PROVE Inv'
  BY <1>1, <1>3, StartKeeps DEF StartProvisioning
<1>4. ASSUME NEW j \in Jobs, StartExecutionAny(r, j) PROVE Inv'
  BY <1>1, <1>4, StartKeeps DEF StartExecutionAny
<1>5. ASSUME NEW j \in Jobs, StartCancellation(r, j) PROVE Inv'
  BY <1>1, <1>5, StartKeeps DEF StartCancellation
<1>6. ASSUME NEW j \in Jobs, StartTimeout(r, j) PROVE Inv'
  BY <1>1, <1>6, StartKeeps DEF StartTimeout
<1>7. ASSUME NEW w \in Workers, NEW spec \in Workers, StartRecovery(r, w, spec) PROVE Inv'
  BY <1>1, <1>7, StartKeeps DEF StartRecovery
<1>8. ASSUME StartCleanup(r) PROVE Inv'
  BY <1>1, <1>8, StartKeeps DEF StartCleanup
<1> QED
  BY <1>2, <1>3, <1>4, <1>5, <1>6, <1>7, <1>8 DEF Starts

\* update_state leaves a missing row missing.
LEMMA RowSetTyped ==
    ASSUME row \in [Workers -> WorkerState \cup {"Absent"}], NEW w, NEW s \in WorkerState
    PROVE  /\ RowSet(w, s) \in [Workers -> WorkerState \cup {"Absent"}]
           /\ \A v \in Workers : RowSet(w, s)[v] # "Absent" => row[v] # "Absent"
BY DEF RowSet

LEMMA SetJobTyped ==
    ASSUME job \in [Jobs -> JobState], NEW j, NEW s \in JobState, SetJob(j, s)
    PROVE  /\ job' \in [Jobs -> JobState]
           /\ \A i \in Jobs : job'[i] = job[i] \/ (i = j /\ job'[i] = s)
BY DEF SetJob

LEMMA AroundKeeps ==
    ASSUME Inv, Around, JobsCalm,
           row' \in [Workers -> WorkerState \cup {"Absent"}],
           current' \in [Workers -> Jobs \cup {NoJob}],
           \A w \in Workers : row'[w] # "Absent" => w \in issued
    PROVE  Inv'
<1>1. UNCHANGED << issued, refused, stray, infra, saga, ctx, call, faults >>
  BY DEF Around, places
<1>2. TypeOK'
  BY <1>1 DEF Inv, TypeOK, JobsCalm
<1>3. RunsOk' /\ CallsOk' /\ IdsOk' /\ BusOk' /\ HonestOk'
  BY <1>1 DEF Inv, RunsOk, RunOk, CallsOk, CallOk, IdsOk, Owns, BusOk, Busy, HonestOk, HonestRun
<1>4. SendOk'
  BY <1>1 DEF Inv, SendOk, JobsCalm, Claims, Marked, HasSent, Executes
<1> QED
  BY <1>2, <1>3, <1>4 DEF Inv

LEMMA WorkerRegistersKeeps == ASSUME Inv, NEW w \in Workers, WorkerRegisters(w) PROVE Inv'
<1>1. TypeOK /\ JobsCalm
  BY KeepJobsCalm DEF Inv, WorkerRegisters
<1>2. current' \in [Workers -> Jobs \cup {NoJob}]
  <2>1. PICK r \in Runs : current' = [current EXCEPT ![w] = saga[r].job]
    BY DEF WorkerRegisters
  <2>2. saga[r].job \in Jobs \cup {NoJob}
    BY <1>1 DEF TypeOK, Saga
  <2> QED
    BY <1>1, <2>1, <2>2 DEF TypeOK
<1>3. /\ row' \in [Workers -> WorkerState \cup {"Absent"}]
      /\ \A v \in Workers : row'[v] # "Absent" => v \in issued
  BY <1>1 DEF WorkerRegisters, TypeOK, Inv, IdsOk, WorkerState
<1> QED
  BY <1>1, <1>2, <1>3, AroundKeeps DEF WorkerRegisters

LEMMA WorkerReadyKeeps == ASSUME Inv, NEW w \in Workers, WorkerReady(w) PROVE Inv'
<1>1. TypeOK /\ JobsCalm
  BY KeepJobsCalm DEF Inv, WorkerReady
<1>2. /\ row' \in [Workers -> WorkerState \cup {"Absent"}]
      /\ \A v \in Workers : row'[v] # "Absent" => row[v] # "Absent"
  BY <1>1, RowSetTyped DEF WorkerReady, SetRow, TypeOK, WorkerState
<1> QED
  BY <1>1, <1>2, AroundKeeps DEF WorkerReady, TypeOK, Inv, IdsOk

LEMMA AssignJobKeeps ==
    ASSUME Inv, NEW j \in Jobs, NEW w \in Workers, AssignJob(j, w) PROVE Inv'
<1>1. TypeOK
  BY DEF Inv
<1>2. JobsCalm
  BY <1>1, SetJobTyped DEF AssignJob, outside, JobsCalm, TypeOK, JobState
<1>3. /\ row' \in [Workers -> WorkerState \cup {"Absent"}]
      /\ \A v \in Workers : row'[v] # "Absent" => row[v] # "Absent"
  BY <1>1, RowSetTyped DEF AssignJob, SetRow, TypeOK, WorkerState
<1> QED
  BY <1>1, <1>2, <1>3, AroundKeeps DEF AssignJob, TypeOK, Inv, IdsOk

LEMMA JobResultKeeps ==
    ASSUME Inv, NEW j \in Jobs, NEW s \in {"Succeeded", "Failed"}, JobResult(j, s) PROVE Inv'
<1>1. TypeOK
  BY DEF Inv
<1>2. sent[j] = 1
  BY DEF Inv, SendOk, JobResult
<1>3. /\ job' \in [Jobs -> JobState]
      /\ \A i \in Jobs : job'[i] = job[i] \/ (i = j /\ job'[i] = s)
  BY <1>1, SetJobTyped DEF JobResult, TypeOK, JobState
<1>4. JobsCalm
  BY <1>1, <1>2, <1>3 DEF JobResult, JobsCalm, TypeOK
<1> QED
  BY <1>1, <1>4, AroundKeeps DEF JobResult, TypeOK, Inv, IdsOk

-----------------------------------------------------------------------------
(* What the steps do to jobs and workers.                                  *)

LEMMA JobUnchangedCalm == TypeOK /\ UNCHANGED << job, outside >> => JobsCalm
BY DEF TypeOK, outside, JobsCalm

LEMMA SetJobCalm ==
    ASSUME TypeOK, NEW j, NEW s \in JobState \ {"Pending", "Succeeded"}, SetJob(j, s),
           UNCHANGED outside
    PROVE  JobsCalm
BY SetJobTyped DEF TypeOK, outside, JobsCalm

LEMMA RowCalm ==
    ASSUME TypeOK, NEW w, NEW s \in WorkerState, row' \in {row, RowSet(w, s)},
           UNCHANGED << current, places >>
    PROVE  WorkersCalm
BY RowSetTyped DEF TypeOK, places, WorkersCalm

LEMMA RowUnchangedCalm == TypeOK /\ UNCHANGED << row, current, places >> => WorkersCalm
BY DEF TypeOK, places, WorkersCalm

LEMMA DropRowTyped ==
    ASSUME TypeOK, NEW w \in Workers, DropRow(w)
    PROVE  /\ row' \in [Workers -> WorkerState \cup {"Absent"}]
           /\ current' \in [Workers -> Jobs \cup {NoJob}]
           /\ \A v \in Workers : row'[v] # "Absent" => row[v] # "Absent"
BY DEF TypeOK, DropRow

\* However a DestroyWorker command ends, it creates nothing; when it reports
\* success the container is gone or refused.
LEMMA DestroyCalm ==
    ASSUME Inv, NEW w \in Workers, Destroyed(w) \/ ProviderRefuses(w) \/ UnregisterFails(w)
    PROVE  /\ WorkersCalm /\ FaultsCounted
           /\ Destroyed(w) \/ ProviderRefuses(w) => w \notin infra' \ (refused' \cup stray')
<1>1. TypeOK /\ w \in issued
  BY DEF Inv, IdsOk, Destroyed, ProviderRefuses, UnregisterFails
<1>2. CASE Destroyed(w)
  BY <1>1, <1>2, DropRowTyped DEF Destroyed, TypeOK, WorkersCalm, FaultsCounted
<1>3. CASE ProviderRefuses(w)
  BY <1>1, <1>3, DropRowTyped DEF ProviderRefuses, TypeOK, WorkersCalm, FaultsCounted
<1>4. CASE UnregisterFails(w) /\ ~ Destroyed(w) /\ ~ ProviderRefuses(w)
  BY <1>1, <1>4 DEF UnregisterFails, TypeOK, WorkersCalm, FaultsCounted
<1> QED
  BY <1>2, <1>3, <1>4

-----------------------------------------------------------------------------
(* Execution.                                                              *)

LEMMA ValidateJobKeeps == ASSUME Inv, NEW r \in Runs, ValidateJob(r) PROVE Inv'
<1>1. Calm
  BY KeepWorldCalm DEF ValidateJob, Inv, FaultsCounted
<1>2. /\ saga[r].st = "forward" /\ saga[r].at \in 1..Len(StepsOf[saga[r].kind])
      /\ saga[r].kind = "execution" /\ saga[r].at = 1
  BY AtPlace, StepPlace DEF ValidateJob, Ready
<1>3. ctx[r] \in Ctx
  BY RunTyped DEF Inv
<1>4. CASE StepOk(r, ctx[r])
  BY <1>1, <1>2, <1>3, <1>4, StepOkKeeps
<1>5. CASE StepErr(r)
  BY <1>1, <1>2, <1>5, StepErrKeeps
<1> QED
  BY <1>4, <1>5 DEF ValidateJob

\* Where the command of an execution step is.
LEMMA CommandPlace ==
    ASSUME Inv, NEW r \in Runs, NEW name, NEW pc, Command(r, name, pc)
    PROVE  /\ saga[r].st = "forward" /\ saga[r].services /\ call[r].pc = pc
           /\ saga[r].at \in 1..Len(StepsOf[saga[r].kind])
           /\ name = "AssignWorker" => saga[r].kind = "execution" /\ saga[r].at = 2
           /\ name = "ExecuteJob" => saga[r].kind = "execution" /\ saga[r].at = 3
           /\ name = "CompleteJob" => saga[r].kind = "execution" /\ saga[r].at = 4
           /\ pc = "none" => \A q \in Runs : ~ Busy(saga[q], call[q])
           /\ TypeOK /\ ctx[r] \in Ctx /\ call[r] \in Call
<1>1. At(r, name) /\ saga[r].services /\ call[r].pc = pc
  BY DEF Command, Ready
<1>2. pc = "none" => \A q \in Runs : ~ Busy(saga[q], call[q])
  BY DEF Command, InCommand, Busy
<1> QED
  BY <1>1, <1>2, AtPlace, StepPlace, RunTyped DEF Inv

LEMMA CallTyped ==
    ASSUME TypeOK, NEW r \in Runs, NEW pc \in {"none", "worker", "job", "sent", "saved", "created"}
    PROVE  /\ [call[r] EXCEPT !.pc = pc] \in Call
           /\ [call[r] EXCEPT !.pc = pc].pc = pc
           /\ [call[r] EXCEPT !.pc = pc].seen = call[r].seen
           /\ \A s \in JobState \cup {"none"} :
                /\ [call[r] EXCEPT !.pc = pc, !.seen = s] \in Call
                /\ [call[r] EXCEPT !.pc = pc, !.seen = s].pc = pc
                /\ [call[r] EXCEPT !.pc = pc, !.seen = s].seen = s
                /\ [NoCall EXCEPT !.pc = pc, !.seen = s] \in Call
                /\ [NoCall EXCEPT !.pc = pc, !.seen = s].pc = pc
                /\ [NoCall EXCEPT !.pc = pc, !.seen = s].seen = s
BY RunTyped DEF Call, NoCall

\* The argument of an execution saga is a job of the table.
LEMMA ArgRead ==
    ASSUME Inv, NEW r \in Runs, saga[r].st # "none", saga[r].kind = "execution"
    PROVE  job[Arg(r)] \in JobState \cup {"none"}
BY DEF Inv, RunsOk, RunOk, TypeOK, Arg

LEMMA MaySetJobCalm ==
    ASSUME TypeOK, NEW j, NEW s \in JobState \ {"Pending"}, MaySetJob(j, s),
           s = "Succeeded" /\ j \in Jobs => sent[j] = 1, UNCHANGED outside
    PROVE  JobsCalm
<1>1. job \in [Jobs -> JobState]
  BY DEF TypeOK
<1>2. /\ job' \in [Jobs -> JobState]
      /\ \A i \in Jobs : job'[i] = job[i] \/ (i = j /\ job'[i] = s)
  BY <1>1 DEF MaySetJob
<1> QED
  BY <1>2 DEF TypeOK, outside, JobsCalm

LEMMA AssignWorkerFindsKeeps == ASSUME Inv, NEW r \in Runs, AssignWorkerFinds(r) PROVE Inv'
<1>1. Calm
  BY KeepWorldCalm DEF AssignWorkerFinds, Inv, Undispatched, FaultsCounted
<1>2. Command(r, "AssignWorker", "none")
  BY DEF AssignWorkerFinds
<1>3. CASE StepErr(r)
  BY <1>1, <1>2, <1>3, CommandPlace, StepErrKeeps
<1>4. ASSUME NEW w \in Candidates(r), Calls(r, [NoCall EXCEPT !.pc = "worker", !.worker = w])
      PROVE  Inv'
  <2> DEFINE c == [NoCall EXCEPT !.pc = "worker", !.worker = w]
  <2>1. w \in Workers \cup {NoWorker}
    BY <1>4 DEF Candidates, Inv, TypeOK, Saga
  <2>2. c \in Call /\ c.pc = "worker" /\ Calls(r, c)
    BY <1>4, <2>1 DEF NoCall, Call
  <2> HIDE DEF c
  <2>3. /\ CallOk(saga[r], c) /\ ~ Claims(saga[r], c) /\ ~ Marked(saga[r], c)
        /\ ~ HasSent(saga[r], c)
    BY <1>2, <2>2, CommandPlace DEF CallOk, Claims, Marked, HasSent
  <2> QED
    BY <1>1, <1>2, <2>2, <2>3, CommandPlace, CallKeeps
<1> QED
  BY <1>3, <1>4 DEF AssignWorkerFinds

\* The command that gives a run its claim: the job is PENDING, so that nobody
\* has sent it, and who else had read it so would hold the bus.
LEMMA AssignWorkerReadsKeeps == ASSUME Inv, NEW r \in Runs, AssignWorkerReads(r) PROVE Inv'
<1>1. Calm /\ KeepWorld
  BY KeepWorldCalm DEF AssignWorkerReads, Inv, FaultsCounted
<1>2. Command(r, "AssignWorker", "worker")
  BY DEF AssignWorkerReads
<1>3. CASE StepErr(r)
  BY <1>1, <1>2, <1>3, CommandPlace, StepErrKeeps
<1>4. CASE /\ CanTransition(job[Arg(r)], "Assigned")
           /\ Calls(r, [call[r] EXCEPT !.pc = "job", !.seen = job[Arg(r)]])
  <2> DEFINE x == job[Arg(r)]
             c == [call[r] EXCEPT !.pc = "job", !.seen = x]
  <2>1. x = "Pending"
    BY <1>4 DEF CanTransition, JobSuccessors
  <2>2. /\ c \in Call /\ c.pc = "job" /\ c.seen = "Pending"
        /\ call' = [call EXCEPT ![r] = c] /\ saga' = saga /\ ctx' = ctx
    <3>1. x \in JobState \cup {"none"}
      BY <2>1 DEF JobState
    <3>2. call[r] \in Call
      BY <1>2, CommandPlace
    <3>3. c \in Call /\ c.pc = "job" /\ c.seen = x
      BY <3>1, <3>2 DEF Call
    <3> QED
      BY <1>4, <2>1, <3>3 DEF Calls
  <2> HIDE DEF c, x
  <2>3. GoesOn(r) /\ call'[r] = c /\ CallOk(saga'[r], call'[r])
    <3>1. CanTransition("Pending", "Assigned")
      BY DEF CanTransition, JobSuccessors
    <3> QED
      BY <1>2, <2>2, <3>1, CommandPlace, RunTyped DEF GoesOn, CallOk
  <2>4. saga[r].job \in Jobs => job[saga[r].job] = "Pending"
    BY <2>1 DEF x, Arg
  <2>5. Busy(saga[r], call[r]) /\ \A q \in Runs : Busy(saga[q], call[q]) => q = r
    BY <1>2, CommandPlace DEF Busy, Inv, BusOk
  <2>6. \A q \in Runs : Claims(saga[q], call[q]) /\ saga[q].job = saga[r].job /\ saga[q].job \in Jobs
                           => Busy(saga[q], call[q])
    <3>1. ASSUME NEW q \in Runs, Claims(saga[q], call[q]), saga[q].job = saga[r].job,
                 saga[q].job \in Jobs
          PROVE  Busy(saga[q], call[q])
      <4>1. ~ Marked(saga[q], call[q])
        BY <2>4, <3>1 DEF Inv, SendOk
      <4> QED
        BY <3>1, <4>1 DEF Claims, Marked, Executes, Busy
    <3> QED
      BY <3>1
  <2>7. UNCHANGED << job, sent, reported, row, current, infra, issued, refused, stray >>
    BY <1>1 DEF KeepWorld, KeepJobs, KeepWorkers, outside, places
  <2>8. SendOk'
    <3>1. \A q \in Runs : /\ saga'[q] = saga[q]
                          /\ q # r => call'[q] = call[q]
                          /\ Marked(saga'[q], call'[q]) => Marked(saga[q], call[q])
                          /\ HasSent(saga'[q], call'[q]) => HasSent(saga[q], call[q])
      BY <1>2, <2>2, <2>3, CommandPlace DEF GoesOn, Marked, HasSent, Executes
    <3>2. \A q \in Runs : Claims(saga'[q], call'[q]) => q = r \/ Claims(saga[q], call[q])
      BY <3>1
    <3>3. \A q \in Runs : Claims(saga[q], call[q]) /\ saga[q].job = saga[r].job
                              /\ saga[q].job \in Jobs => q = r
      BY <2>5, <2>6
    <3> SUFFICES ASSUME NEW j \in Jobs
                 PROVE  /\ \A q \in Runs : Claims(saga'[q], call'[q]) /\ saga[q].job = j =>
                             /\ sent[j] = 0
                             /\ \A p \in Runs : Claims(saga'[p], call'[p]) /\ saga[p].job = j
                                   => p = q
                        /\ \A q \in Runs : Marked(saga'[q], call'[q]) /\ saga[q].job = j
                             => job[j] # "Pending"
                        /\ \A q \in Runs : HasSent(saga'[q], call'[q]) /\ saga[q].job = j
                             => sent[j] = 1
      BY <2>7, <3>1 DEF Inv, SendOk, Claims, Marked, HasSent, Executes
    <3>4. CASE j = saga[r].job
      BY <2>4, <3>1, <3>2, <3>3, <3>4 DEF Inv, SendOk
    <3>5. CASE j # saga[r].job
      BY <3>1, <3>2, <3>5 DEF Inv, SendOk
    <3> QED
      BY <3>4, <3>5
  <2>9. HonestRun(saga[r], call[r])'
    BY <1>2, <2>2, CommandPlace DEF HonestRun
  <2>10. RunOk(saga'[r], ctx'[r])
    BY <2>2 DEF Inv, RunsOk
  <2>11. saga[r].st # "none"
    BY <1>2, CommandPlace
  <2> QED
    BY <1>1, <2>2, <2>3, <2>5, <2>7, <2>8, <2>9, <2>10, <2>11, RunKeeps
       DEF Calm, JobsCalm, WorkersCalm, Inv, TypeOK
<1> QED
  BY <1>3, <1>4 DEF AssignWorkerReads

\* The claim is marked: the job is not PENDING any more.
LEMMA AssignWorkerSavesKeeps == ASSUME Inv, NEW r \in Runs, AssignWorkerSaves(r) PROVE Inv'
<1>1. Command(r, "AssignWorker", "job") /\ TypeOK
  BY DEF AssignWorkerSaves, Inv
<1>2. MaySetJob(Arg(r), "Assigned") /\ WorkersCalm /\ FaultsCounted
  BY <1>1, KeepWorkersCalm DEF AssignWorkerSaves, SetJob, MaySetJob, FaultsCounted
<1>3. JobsCalm
  BY <1>1, <1>2, MaySetJobCalm DEF AssignWorkerSaves, JobState
<1>4. CASE StepErr(r)
  BY <1>1, <1>2, <1>3, <1>4, CommandPlace, StepErrKeeps DEF Calm
<1>5. CASE SetJob(Arg(r), "Assigned") /\ Calls(r, [call[r] EXCEPT !.pc = "saved"])
  <2> DEFINE c == [call[r] EXCEPT !.pc = "saved"]
  <2>1. /\ c \in Call /\ c.pc = "saved"
        /\ call' = [call EXCEPT ![r] = c] /\ saga' = saga /\ ctx' = ctx
    BY <1>1, <1>5, CallTyped DEF Calls
  <2> HIDE DEF c
  <2>2. GoesOn(r) /\ call'[r] = c /\ CallOk(saga'[r], call'[r])
    BY <1>1, <2>1, CommandPlace, RunTyped DEF GoesOn, CallOk
  <2>3. saga[r].job \in Jobs => job'[saga[r].job] # "Pending"
    BY <1>1, <1>5 DEF SetJob, Arg, TypeOK
  <2>4. SendOk'
    <3>1. \A q \in Runs : /\ saga'[q] = saga[q]
                          /\ Claims(saga'[q], call'[q]) => Claims(saga[q], call[q])
                          /\ Marked(saga'[q], call'[q]) => q = r \/ Marked(saga[q], call[q])
                          /\ HasSent(saga'[q], call'[q]) => HasSent(saga[q], call[q])
      BY <1>1, <2>1, <2>2, CommandPlace DEF GoesOn, Claims, Marked, HasSent, Executes
    <3> SUFFICES ASSUME NEW j \in Jobs
                 PROVE  /\ sent[j] \in {0, 1}
                        /\ job'[j] = "Pending" => sent[j] = 0
                        /\ job'[j] = "Succeeded" => sent[j] = 1
                        /\ \A q \in Runs : Claims(saga'[q], call'[q]) /\ saga[q].job = j =>
                             /\ sent[j] = 0
                             /\ \A p \in Runs : Claims(saga'[p], call'[p]) /\ saga[p].job = j
                                   => p = q
                        /\ \A q \in Runs : Marked(saga'[q], call'[q]) /\ saga[q].job = j
                             => job'[j] # "Pending"
                        /\ \A q \in Runs : HasSent(saga'[q], call'[q]) /\ saga[q].job = j
                             => sent[j] = 1
      BY <1>3, <3>1 DEF SendOk, JobsCalm, Claims, Marked, HasSent, Executes
    <3>2. sent[j] \in {0, 1} /\ (job'[j] = "Pending" => sent[j] = 0)
          /\ (job'[j] = "Succeeded" => sent[j] = 1)
      BY <1>3 DEF Inv, SendOk, JobsCalm
    <3>3. \A q \in Runs : Marked(saga[q], call[q]) /\ saga[q].job = j => job'[j] # "Pending"
      BY <1>3 DEF Inv, SendOk, JobsCalm
    <3> QED
      BY <2>3, <3>1, <3>2, <3>3 DEF Inv, SendOk
  <2>5. Busy(saga[r], call[r]) /\ saga[r].kind = "execution" /\ saga[r].st # "none"
    BY <1>1, CommandPlace DEF Busy
  <2>6. HonestRun(saga[r], call[r])' /\ RunOk(saga'[r], ctx'[r])
    BY <2>1, <2>5 DEF HonestRun, Inv, RunsOk
  <2>7. UNCHANGED << sent, reported, row, current, infra, issued, refused, stray >>
    BY DEF AssignWorkerSaves, KeepWorkers, outside, places
  <2> QED
    BY <1>2, <1>3, <2>1, <2>2, <2>4, <2>5, <2>6, <2>7, RunKeeps DEF JobsCalm, Inv, TypeOK
<1> QED
  BY <1>4, <1>5 DEF AssignWorkerSaves

LEMMA AssignWorkerTakesKeeps == ASSUME Inv, NEW r \in Runs, AssignWorkerTakes(r) PROVE Inv'
<1> DEFINE w == call[r].worker
<1>1. Command(r, "AssignWorker", "saved") /\ TypeOK
  BY DEF AssignWorkerTakes, Inv
<1>2. row' \in {row, RowSet(w, "Busy")} /\ FaultsCounted
  BY DEF AssignWorkerTakes, SetRow, FaultsCounted
<1>3. Calm
  BY <1>1, <1>2, JobUnchangedCalm, RowCalm DEF AssignWorkerTakes, Calm, WorkerState
<1>4. CASE StepErr(r)
  BY <1>1, <1>3, <1>4, CommandPlace, StepErrKeeps
<1>5. CASE StepOk(r, [ctx[r] EXCEPT !.worker = w])
  <2>1. [ctx[r] EXCEPT !.worker = w] \in Ctx
    BY <1>1, CommandPlace DEF Ctx, Call
  <2>2. Marked(saga[r], call[r])
    BY <1>1, CommandPlace DEF Marked, Claims, Executes
  <2> QED
    BY <1>1, <1>3, <1>5, <2>1, <2>2, CommandPlace, StepOkKeeps
<1> QED
  BY <1>4, <1>5 DEF AssignWorkerTakes

LEMMA ExecuteJobReadsKeeps == ASSUME Inv, NEW r \in Runs, ExecuteJobReads(r) PROVE Inv'
<1>1. Calm
  BY KeepWorldCalm DEF ExecuteJobReads, Inv, Undispatched, FaultsCounted
<1>2. Command(r, "ExecuteJob", "none") /\ TypeOK
  BY DEF ExecuteJobReads, Inv
<1>3. CASE StepErr(r)
  BY <1>1, <1>2, <1>3, CommandPlace, StepErrKeeps
<1>4. CASE Calls(r, [NoCall EXCEPT !.pc = "job", !.seen = job[Arg(r)]])
  <2> DEFINE c == [NoCall EXCEPT !.pc = "job", !.seen = job[Arg(r)]]
  <2>1. c \in Call /\ c.pc = "job" /\ Calls(r, c)
    <3>1. job[Arg(r)] \in JobState \cup {"none"}
      BY <1>2, CommandPlace, ArgRead
    <3> QED
      BY <1>4, <3>1 DEF NoCall, Call
  <2> HIDE DEF c
  <2>2. CallOk(saga[r], c) /\ ~ HasSent(saga[r], c)
        /\ Claims(saga[r], call[r]) /\ Marked(saga[r], call[r])
    BY <1>2, <2>1, CommandPlace DEF CallOk, Claims, Marked, HasSent, Executes
  <2> QED
    BY <1>1, <1>2, <2>1, <2>2, CommandPlace, CallKeeps
<1> QED
  BY <1>3, <1>4 DEF ExecuteJobReads

\* The command that sends: nobody has sent the job before, and nobody else has a
\* claim to it.
LEMMA ExecuteJobSendsKeeps == ASSUME Inv, NEW r \in Runs, ExecuteJobSends(r) PROVE Inv'
<1> DEFINE s == saga[r]
<1>1. Command(r, "ExecuteJob", "job") /\ TypeOK
  BY DEF ExecuteJobSends, Inv
<1>2. CASE StepErr(r) /\ UNCHANGED sent /\ FaultsCounted
  <2>1. Calm
    BY <1>1, <1>2, KeepWorkersCalm, JobUnchangedCalm DEF ExecuteJobSends, Calm, outside
  <2> QED
    BY <1>1, <1>2, <2>1, CommandPlace, StepErrKeeps
<1>3. CASE NoFault /\ RunJobSent(Arg(r)) /\ Calls(r, [call[r] EXCEPT !.pc = "sent"])
  <2> DEFINE c == [call[r] EXCEPT !.pc = "sent"]
  <2>1. /\ c \in Call /\ c.pc = "sent"
        /\ call' = [call EXCEPT ![r] = c] /\ saga' = saga /\ ctx' = ctx
    BY <1>1, <1>3, CallTyped DEF Calls
  <2> HIDE DEF c
  <2>2. GoesOn(r) /\ call'[r] = c /\ CallOk(saga'[r], call'[r])
    BY <1>1, <2>1, CommandPlace, RunTyped DEF GoesOn, CallOk
  <2>3. /\ sent' \in [Jobs -> Nat]
        /\ s.job \in Jobs => sent'[s.job] = sent[s.job] + 1
        /\ \A j \in Jobs : j # s.job => sent'[j] = sent[j]
    <3>1. sent \in [Jobs -> Nat]
      BY <1>1 DEF TypeOK
    <3>2. sent' = [sent EXCEPT ![s.job] = sent[s.job] + 1]
      BY <1>3 DEF RunJobSent, Arg
    <3> HIDE DEF s
    <3>3. CASE s.job \in Jobs
      <4>1. sent[s.job] + 1 \in Nat
        BY <3>1, <3>3
      <4> QED
        BY <3>1, <3>2, <3>3, <4>1
    <3>4. CASE s.job \notin Jobs
      BY <3>1, <3>2, <3>4
    <3> QED
      BY <3>3, <3>4
  <2>4. Claims(s, call[r]) /\ Marked(s, call[r]) /\ Busy(s, call[r]) /\ s.st # "none"
        /\ s.kind = "execution"
    BY <1>1, CommandPlace DEF Claims, Marked, Executes, Busy
  <2>5. UNCHANGED << job, reported, row, current, infra, issued, refused, stray >>
    BY DEF ExecuteJobSends, KeepWorkers, places
  <2>6. SendOk'
    <3>1. \A q \in Runs : /\ saga'[q] = saga[q]
                          /\ Claims(saga'[q], call'[q]) => q # r /\ Claims(saga[q], call[q])
                          /\ Marked(saga'[q], call'[q]) => Marked(saga[q], call[q])
                          /\ HasSent(saga'[q], call'[q]) => q = r \/ HasSent(saga[q], call[q])
      BY <1>1, <2>1, <2>2, CommandPlace DEF GoesOn, Claims, Marked, HasSent, Executes
    <3> SUFFICES ASSUME NEW j \in Jobs
                 PROVE  /\ sent'[j] \in {0, 1}
                        /\ job[j] = "Pending" => sent'[j] = 0
                        /\ job[j] = "Succeeded" => sent'[j] = 1
                        /\ \A q \in Runs : Claims(saga'[q], call'[q]) /\ saga[q].job = j =>
                             /\ sent'[j] = 0
                             /\ \A p \in Runs : Claims(saga'[p], call'[p]) /\ saga[p].job = j
                                   => p = q
                        /\ \A q \in Runs : Marked(saga'[q], call'[q]) /\ saga[q].job = j
                             => job[j] # "Pending"
                        /\ \A q \in Runs : HasSent(saga'[q], call'[q]) /\ saga[q].job = j
                             => sent'[j] = 1
      BY <2>5, <3>1 DEF SendOk, Claims, Marked, HasSent, Executes
    <3>2. CASE j = s.job
      <4>1. sent'[j] = 1
        BY <2>3, <2>4, <3>2 DEF Inv, SendOk
      <4>2. job[j] # "Pending"
        BY <2>4, <3>2 DEF Inv, SendOk
      <4>3. \A q \in Runs : ~ (Claims(saga'[q], call'[q]) /\ saga[q].job = j)
        BY <2>4, <3>1, <3>2 DEF Inv, SendOk
      <4> QED
        BY <4>1, <4>2, <4>3
    <3>3. CASE j # s.job
      BY <2>3, <3>1, <3>3 DEF Inv, SendOk
    <3> QED
      BY <3>2, <3>3
  <2>7. HonestRun(saga[r], call[r])' /\ RunOk(saga'[r], ctx'[r])
    BY <2>1, <2>4 DEF HonestRun, Inv, RunsOk
  <2>8. FaultsCounted
    BY <1>3 DEF FaultsCounted
  <2> QED
    BY <2>1, <2>2, <2>3, <2>4, <2>5, <2>6, <2>7, <2>8, RunKeeps DEF Inv, TypeOK
<1> QED
  BY <1>2, <1>3 DEF ExecuteJobSends, FaultsCounted

LEMMA ExecuteJobSavesKeeps == ASSUME Inv, NEW r \in Runs, ExecuteJobSaves(r) PROVE Inv'
<1>1. Command(r, "ExecuteJob", "sent") /\ TypeOK
  BY DEF ExecuteJobSaves, Inv
<1>2. MaySetJob(Arg(r), "Running") /\ FaultsCounted
  BY DEF ExecuteJobSaves, SetJob, MaySetJob, FaultsCounted
<1>3. Calm
  BY <1>1, <1>2, MaySetJobCalm, KeepWorkersCalm DEF ExecuteJobSaves, Calm, JobState
<1>4. CASE StepErr(r)
  BY <1>1, <1>3, <1>4, CommandPlace, StepErrKeeps
<1>5. CASE StepOk(r, ctx[r])
  <2>1. HasSent(saga[r], call[r])
    BY <1>1, CommandPlace DEF HasSent, Executes
  <2> QED
    BY <1>1, <1>3, <1>5, <2>1, CommandPlace, StepOkKeeps
<1> QED
  BY <1>4, <1>5 DEF ExecuteJobSaves

LEMMA CompleteJobReadsKeeps == ASSUME Inv, NEW r \in Runs, CompleteJobReads(r) PROVE Inv'
<1>1. Calm
  BY KeepWorldCalm DEF CompleteJobReads, Inv, Undispatched, FaultsCounted
<1>2. Command(r, "CompleteJob", "none") /\ TypeOK
  BY DEF CompleteJobReads, Inv
<1>3. CASE StepErr(r)
  BY <1>1, <1>2, <1>3, CommandPlace, StepErrKeeps
<1>4. CASE /\ CanTransition(job[Arg(r)], "Succeeded")
           /\ Calls(r, [NoCall EXCEPT !.pc = "job", !.seen = job[Arg(r)]])
  <2> DEFINE x == job[Arg(r)]
             c == [NoCall EXCEPT !.pc = "job", !.seen = x]
  <2>1. c \in Call /\ c.pc = "job" /\ c.seen = x /\ Calls(r, c) /\ CanTransition(x, "Succeeded")
    <3>1. x \in JobState \cup {"none"}
      BY <1>2, CommandPlace, ArgRead
    <3> QED
      BY <1>4, <3>1 DEF NoCall, Call
  <2> HIDE DEF c, x
  <2>2. /\ CallOk(saga[r], c) /\ ~ Claims(saga[r], c) /\ ~ Marked(saga[r], c)
        /\ HasSent(saga[r], call[r])
    BY <1>2, <2>1, CommandPlace DEF CallOk, Claims, Marked, HasSent, Executes
  <2> QED
    BY <1>1, <1>2, <2>1, <2>2, CommandPlace, CallKeeps
<1> QED
  BY <1>3, <1>4 DEF CompleteJobReads

LEMMA CompleteJobSavesKeeps == ASSUME Inv, NEW r \in Runs, CompleteJobSaves(r) PROVE Inv'
<1>1. Command(r, "CompleteJob", "job") /\ TypeOK
  BY DEF CompleteJobSaves, Inv
<1>2. HasSent(saga[r], call[r])
  BY <1>1, CommandPlace DEF HasSent, Executes
<1>3. MaySetJob(Arg(r), "Succeeded") /\ FaultsCounted /\ (Arg(r) \in Jobs => sent[Arg(r)] = 1)
  BY <1>2 DEF CompleteJobSaves, SetJob, MaySetJob, FaultsCounted, Inv, SendOk, Arg
<1>4. Calm
  BY <1>1, <1>3, MaySetJobCalm, KeepWorkersCalm DEF CompleteJobSaves, Calm, JobState
<1>5. CASE StepErr(r)
  BY <1>1, <1>4, <1>5, CommandPlace, StepErrKeeps
<1>6. CASE Calls(r, [call[r] EXCEPT !.pc = "saved"])
  <2> DEFINE c == [call[r] EXCEPT !.pc = "saved"]
  <2>1. c \in Call /\ c.pc = "saved" /\ Calls(r, c)
    BY <1>1, <1>6, CallTyped
  <2> HIDE DEF c
  <2>2. /\ CallOk(saga[r], c) /\ ~ Claims(saga[r], c) /\ ~ Marked(saga[r], c)
        /\ Busy(saga[r], call[r])
    BY <1>1, <2>1, CommandPlace DEF CallOk, Claims, Marked, Busy
  <2> QED
    BY <1>1, <1>2, <1>4, <2>1, <2>2, CommandPlace, CallKeeps
<1> QED
  BY <1>5, <1>6 DEF CompleteJobSaves

LEMMA CompleteJobReleasesKeeps ==
    ASSUME Inv, NEW r \in Runs, CompleteJobReleases(r) PROVE Inv'
<1>1. Command(r, "CompleteJob", "saved") /\ TypeOK
  BY DEF CompleteJobReleases, Inv
<1>2. WorkersCalm /\ FaultsCounted
  BY <1>1, RowUnchangedCalm, RowCalm
     DEF CompleteJobReleases, SetRow, WorkerState, FaultsCounted
<1>3. Calm
  BY <1>1, <1>2, JobUnchangedCalm DEF CompleteJobReleases, Calm
<1>4. CASE StepErr(r)
  BY <1>1, <1>3, <1>4, CommandPlace, StepErrKeeps
<1>5. CASE StepOk(r, ctx[r])
  BY <1>1, <1>3, <1>5, CommandPlace, StepOkKeeps
<1> QED
  BY <1>4, <1>5 DEF CompleteJobReleases

\* Where a run is that compensates a step of the execution saga.
LEMMA CompExecutionPlace ==
    ASSUME Inv, NEW r \in Runs, NEW name \in {"AssignWorker", "ExecuteJob"}, ReadyComp(r, name)
    PROVE  /\ saga[r].st = "rollback" /\ saga[r].at \in saga[r].done
           /\ saga[r].kind = "execution" /\ saga[r].services /\ TypeOK
BY CompPlace, StepPlace DEF ReadyComp, AtComp, StepAt, Inv

\* A compensation looks at the job: a run in its rollback has no claim.
LEMMA CompReadsKeep ==
    ASSUME Inv, NEW r \in Runs, CompAssignWorkerReads(r) \/ CompExecuteJobReads(r)
    PROVE  Inv'
<1>1. /\ saga[r].st = "rollback" /\ saga[r].kind = "execution" /\ saga[r].services /\ TypeOK
  BY CompExecutionPlace DEF CompAssignWorkerReads, CompExecuteJobReads
<1>2. Calm
  BY <1>1, KeepWorldCalm DEF CompAssignWorkerReads, CompExecuteJobReads, FaultsCounted
<1>3. PICK c \in Call : Calls(r, c) /\ c.pc = "job"
  <2>1. job[Arg(r)] \in JobState \cup {"none"}
    BY <1>1, ArgRead
  <2>2. CASE CompExecuteJobReads(r)
    <3> DEFINE c == [NoCall EXCEPT !.pc = "job", !.seen = job[Arg(r)]]
    <3>1. c \in Call /\ c.pc = "job"
      BY <2>1 DEF NoCall, Call
    <3> QED
      BY <2>2, <3>1 DEF CompExecuteJobReads
  <2>3. CASE CompAssignWorkerReads(r)
    <3>1. PICK f \in {ctx[r].worker, NoWorker} :
            Calls(r, [NoCall EXCEPT !.pc = "job", !.seen = job[Arg(r)], !.worker = f])
      BY <2>3 DEF CompAssignWorkerReads
    <3>2. f \in Workers \cup {NoWorker}
      BY <1>1, RunTyped
    <3>3. LET c == [NoCall EXCEPT !.pc = "job", !.seen = job[Arg(r)], !.worker = f]
          IN  c \in Call /\ c.pc = "job"
      BY <2>1, <3>2 DEF NoCall, Call
    <3> QED
      BY <3>1, <3>3
  <2> QED
    BY <2>2, <2>3
<1>4. /\ CallOk(saga[r], c) /\ ~ Busy(saga[r], c) /\ ~ Claims(saga[r], c)
      /\ ~ Marked(saga[r], c) /\ ~ HasSent(saga[r], c)
  BY <1>1, <1>3 DEF CallOk, Busy, Claims, Marked, HasSent, Executes
<1> QED
  BY <1>1, <1>2, <1>3, <1>4, CallKeeps

\* set_state is refused, and the copy is saved as it was read.
LEMMA CompensationRefused ==
    /\ \A s \in {"Assigned", "Running"} : SetStateResult(s, "Pending") = s
    /\ SetStateResult("Running", "Assigned") = "Running"
BY DEF SetStateResult, CanTransition, JobSuccessors

LEMMA CopySavedCalm ==
    ASSUME TypeOK, NEW j, NEW s, UNCHANGED outside,
           \/ job' = [job EXCEPT ![j] =
                        IF s \in {"Assigned", "Running"} THEN SetStateResult(s, "Pending") ELSE @]
           \/ job' = [job EXCEPT ![j] =
                        IF s = "Running" THEN SetStateResult(s, "Assigned") ELSE @]
    PROVE  JobsCalm
<1>1. job \in [Jobs -> JobState]
  BY DEF TypeOK
<1>2. PICK x \in {"Assigned", "Running", job[j]} : job' = [job EXCEPT ![j] = x]
  BY CompensationRefused
<1>3. /\ job' \in [Jobs -> JobState]
      /\ \A i \in Jobs : job'[i] \in {job[i], "Assigned", "Running"}
  BY <1>1, <1>2 DEF JobState
<1> QED
  BY <1>3 DEF TypeOK, outside, JobsCalm

LEMMA CompAssignWorkerSavesKeeps ==
    ASSUME Inv, NEW r \in Runs, CompAssignWorkerSaves(r) PROVE Inv'
<1>1. /\ saga[r].st = "rollback" /\ saga[r].kind = "execution" /\ saga[r].at \in saga[r].done
      /\ TypeOK
  BY CompExecutionPlace DEF CompAssignWorkerSaves
<1>2. JobsCalm /\ FaultsCounted
  BY <1>1, JobUnchangedCalm, CopySavedCalm DEF CompAssignWorkerSaves, FaultsCounted
<1>3. Calm
  BY <1>1, <1>2, RowCalm DEF CompAssignWorkerSaves, Calm, WorkerState
<1>4. CASE CompOk(r)
  BY <1>1, <1>3, <1>4, CompOkKeeps
<1>5. CASE CompErr(r)
  BY <1>1, <1>3, <1>5, CompErrKeeps
<1> QED
  BY <1>4, <1>5 DEF CompAssignWorkerSaves

LEMMA CompExecuteJobSavesKeeps ==
    ASSUME Inv, NEW r \in Runs, CompExecuteJobSaves(r) PROVE Inv'
<1>1. /\ saga[r].st = "rollback" /\ saga[r].kind = "execution" /\ saga[r].at \in saga[r].done
      /\ TypeOK
  BY CompExecutionPlace DEF CompExecuteJobSaves
<1>2. JobsCalm /\ FaultsCounted
  BY <1>1, JobUnchangedCalm, CopySavedCalm DEF CompExecuteJobSaves, FaultsCounted
<1>3. Calm
  BY <1>1, <1>2, KeepWorkersCalm DEF CompExecuteJobSaves, Calm
<1> QED
  BY <1>1, <1>3, CompOkKeeps DEF CompExecuteJobSaves

-----------------------------------------------------------------------------
(* Provisioning, and the worker recovery provisions.                       *)

\* A new container is of the run whose spec names it, and of no other; its
\* command fails and leaves it stray, or holds it.
LEMMA CreateWorkerKeeps ==
    ASSUME Inv, NEW r \in Runs, saga[r].st = "forward", saga[r].services, saga[r].at = 2,
           saga[r].kind \in {"provisioning", "recovery"}, KeepJobs, CreateWorker(r)
    PROVE  Inv'
<1> DEFINE s == saga[r]
<1>1. TypeOK /\ RunOk(s, ctx[r]) /\ Owns(r) /\ JobsCalm
  BY KeepJobsCalm DEF Inv, RunsOk, Owns
<1>2. s.spec \in Workers /\ s.spec \in issued
  BY <1>1 DEF RunOk, Inv, IdsOk
<1>3. CASE Undispatched /\ KeepWorkers /\ StepErr(r)
  BY <1>1, <1>3, KeepWorkersCalm, StepErrKeeps
     DEF Calm, CreateWorker, Undispatched, FaultsCounted
<1>4. CASE MakesContainer(s.spec)
  <2>1. /\ infra' = infra \cup {s.spec} /\ FaultsCounted
        /\ UNCHANGED << issued, refused, row, current, job, sent, reported >>
        /\ stray' \in {stray, stray \cup {s.spec}}
    BY <1>4 DEF MakesContainer, CreateWorker, KeepWorkers, places, KeepJobs, outside, FaultsCounted,
                Undispatched
  <2>2. /\ GoesOn(r) /\ saga'[r].st # "none" /\ RunOk(saga'[r], ctx'[r])
        /\ CallOk(saga'[r], call'[r])
        /\ call'[r].pc = "created" \/ s.spec \in stray' \/ s.spec \in infra
    <3>1. CASE StepErr(r)
      <4>1. Moved(r, "rollback", s.services, s.at - 1, s.done, ctx[r])
        <5>1. saga[r].at >= 1
          OBVIOUS
        <5> QED
          BY <1>1, <3>1, <5>1, StepErrMoves
      <4>2. RunOk(saga'[r], ctx'[r])
        BY <1>1, <4>1 DEF Moved, GoesOn, RunOk, CreateWorker
      <4>3. CallOk(saga'[r], call'[r])
        BY <4>1 DEF Moved, CallOk
      <4>4. s.spec \in stray' \/ s.spec \in infra
        <5>1. CASE KeepWorkers
          BY <2>1, <5>1 DEF KeepWorkers, places
        <5>2. CASE stray' = stray \cup {s.spec}
          BY <5>2
        <5>3. CASE Calls(r, [NoCall EXCEPT !.pc = "created"])
          BY <1>1, <3>1, <5>3, RunTyped DEF Calls, StepErr, Saga, Phase
        <5> QED
          BY <5>1, <5>2, <5>3 DEF CreateWorker
      <4> QED
        BY <4>1, <4>2, <4>3, <4>4 DEF Moved
    <3>2. CASE Calls(r, [NoCall EXCEPT !.pc = "created"])
      <4> DEFINE c == [NoCall EXCEPT !.pc = "created"]
      <4>1. c \in Call /\ c.pc = "created"
        BY DEF NoCall, Call
      <4>2. call' = [call EXCEPT ![r] = c] /\ saga' = saga /\ ctx' = ctx
        BY <3>2 DEF Calls
      <4> HIDE DEF c
      <4>3. GoesOn(r) /\ call'[r].pc = "created"
        BY <1>1, <4>1, <4>2, RunTyped DEF GoesOn
      <4> QED
        BY <1>1, <4>2, <4>3 DEF CallOk
    <3> QED
      BY <3>1, <3>2 DEF CreateWorker
  <2>3. SendOk'
    <3>1. \A q \in Runs : /\ saga'[q].job = saga[q].job
                          /\ Claims(saga'[q], call'[q]) => Claims(saga[q], call[q])
                          /\ Marked(saga'[q], call'[q]) => Marked(saga[q], call[q])
                          /\ HasSent(saga'[q], call'[q]) => HasSent(saga[q], call[q])
      BY <2>2 DEF GoesOn, Claims, Marked, HasSent, Executes
    <3> QED
      BY <2>1, <3>1 DEF Inv, SendOk, Claims, Marked, HasSent, Executes
  <2>4. \A q \in Runs \ {r} : saga[q].kind = "provisioning" /\ saga[q].spec \in infra'
                                  => saga[q].spec \in infra
    <3> SUFFICES ASSUME NEW q \in Runs \ {r}, saga[q].kind = "provisioning", saga[q].spec = s.spec
                 PROVE  FALSE
      BY <2>1
    <3>1. Owns(q)
      BY DEF Owns, Inv, RunsOk, RunOk, NoSaga
    <3> QED
      BY <1>1, <3>1 DEF Inv, IdsOk
  <2>5. HonestRun(saga[r], call[r])'
    <3>1. HonestRun(saga[r], call[r])
      BY DEF Inv, HonestOk
    <3>2. 2 \in s.done => 2 \in saga'[r].done
      BY <1>1 DEF CreateWorker, Calls, StepErr, TypeOK, Saga
    <3>3. call[r].pc = "none"
      BY DEF CreateWorker
    <3>4. saga'[r].spec = s.spec /\ saga'[r].kind = s.kind
      BY <2>2 DEF GoesOn
    <3> QED
      BY <2>1, <2>2, <3>1, <3>2, <3>3, <3>4 DEF HonestRun
  <2>6. infra' \subseteq issued /\ stray' \subseteq issued /\ ~ Busy(saga'[r], call'[r])
    BY <1>1, <1>2, <2>1, <2>2 DEF TypeOK, Busy, GoesOn
  <2> QED
    BY <1>1, <2>1, <2>2, <2>3, <2>4, <2>5, <2>6, RunKeeps DEF TypeOK
<1> QED
  BY <1>3, <1>4 DEF CreateWorker

LEMMA RecordWorkerKeeps ==
    ASSUME Inv, NEW r \in Runs, saga[r].st = "forward", saga[r].at = 2,
           saga[r].at \in 1..Len(StepsOf[saga[r].kind]),
           saga[r].kind \in {"provisioning", "recovery"}, KeepJobs, RecordWorker(r)
    PROVE  Inv'
<1> DEFINE c == [ctx[r] EXCEPT !.worker = saga[r].spec]
<1>1. TypeOK /\ ctx[r] \in Ctx /\ saga[r].spec \in Workers
  BY RunTyped DEF Inv, RunsOk, RunOk
<1>2. c \in Ctx /\ c.worker = saga[r].spec /\ StepOk(r, c)
  BY <1>1 DEF Ctx, RecordWorker
<1>3. Calm
  BY <1>1, KeepJobsCalm, KeepWorkersCalm DEF RecordWorker, Calm, FaultsCounted
<1> HIDE DEF c
<1> QED
  BY <1>2, <1>3, StepOkKeeps

LEMMA ValidateProviderCapacityKeeps ==
    ASSUME Inv, NEW r \in Runs, ValidateProviderCapacity(r) PROVE Inv'
<1>1. Calm
  BY KeepWorldCalm DEF ValidateProviderCapacity, Inv, FaultsCounted
<1>2. /\ saga[r].st = "forward" /\ saga[r].at \in 1..Len(StepsOf[saga[r].kind])
      /\ saga[r].kind = "provisioning" /\ saga[r].at = 1
  BY AtPlace, StepPlace DEF ValidateProviderCapacity
<1>3. ctx[r] \in Ctx /\ call[r].pc # "created"
  BY <1>2, RunTyped, NotCreated DEF Inv
<1> QED
  BY <1>1, <1>2, <1>3, StepOkKeeps DEF ValidateProviderCapacity

LEMMA CreateInfrastructureKeeps ==
    ASSUME Inv, NEW r \in Runs, CreateInfrastructure(r) PROVE Inv'
<1>1. /\ saga[r].st = "forward" /\ saga[r].at \in 1..Len(StepsOf[saga[r].kind])
      /\ saga[r].kind = "provisioning" /\ saga[r].at = 2 /\ saga[r].services
  BY AtPlace, StepPlace DEF CreateInfrastructure, Ready
<1> QED
  BY <1>1, CreateWorkerKeeps, RecordWorkerKeeps DEF CreateInfrastructure

LEMMA PublishProvisionedEventKeeps ==
    ASSUME Inv, NEW r \in Runs, PublishProvisionedEvent(r) PROVE Inv'
<1>1. Calm
  BY KeepWorldCalm DEF PublishProvisionedEvent, Inv, FaultsCounted
<1>2. /\ saga[r].st = "forward" /\ saga[r].at \in 1..Len(StepsOf[saga[r].kind])
      /\ saga[r].kind = "provisioning" /\ saga[r].at = 3
  BY AtPlace, StepPlace DEF PublishProvisionedEvent, Ready
<1>3. ctx[r] \in Ctx /\ call[r].pc # "created"
  BY <1>2, RunTyped, NotCreated DEF Inv
<1>4. CASE StepOk(r, ctx[r])
  BY <1>1, <1>2, <1>3, <1>4, StepOkKeeps
<1>5. CASE StepErr(r)
  BY <1>1, <1>2, <1>3, <1>5, StepErrKeeps
<1> QED
  BY <1>4, <1>5 DEF PublishProvisionedEvent

\* A worker of a run whose second step is completed is the one of its spec.
LEMMA CreatedWorker ==
    ASSUME Inv, NEW r \in Runs, saga[r].st = "rollback", 2 \in saga[r].done,
           saga[r].kind \in {"provisioning", "recovery"}
    PROVE  ctx[r].worker = saga[r].spec /\ saga[r].spec \in Workers
BY DEF Inv, RunsOk, RunOk

LEMMA CompCreateInfrastructureKeeps ==
    ASSUME Inv, NEW r \in Runs, CompCreateInfrastructure(r) PROVE Inv'
<1> DEFINE w == ctx[r].worker
<1>1. /\ saga[r].st = "rollback" /\ saga[r].at \in saga[r].done
      /\ saga[r].kind = "provisioning" /\ saga[r].at = 2
  BY CompPlace, StepPlace DEF CompCreateInfrastructure, ReadyComp, AtComp, StepAt
<1>2. w \in Workers /\ w = saga[r].spec /\ JobsCalm
  BY <1>1, CreatedWorker, KeepJobsCalm DEF CompCreateInfrastructure, Inv
<1>3. CASE (Destroyed(w) \/ ProviderRefuses(w)) /\ CompOk(r)
  BY <1>1, <1>2, <1>3, DestroyCalm, CompOkKeeps DEF Calm
<1>4. CASE UnregisterFails(w) /\ CompErr(r)
  BY <1>1, <1>2, <1>4, DestroyCalm, CompErrKeeps DEF Calm
<1>5. CASE (Undispatched \/ NoFault) /\ KeepWorkers /\ CompErr(r)
  <2>1. Calm
    BY <1>2, <1>5, KeepWorkersCalm DEF Inv, Calm, Undispatched, FaultsCounted
  <2> QED
    BY <1>1, <1>5, <2>1, CompErrKeeps
<1> QED
  BY <1>3, <1>4, <1>5 DEF CompCreateInfrastructure

-----------------------------------------------------------------------------
(* Recovery.                                                               *)

LEMMA CheckWorkerConnectivityKeeps ==
    ASSUME Inv, NEW r \in Runs, CheckWorkerConnectivity(r) PROVE Inv'
<1>1. Calm
  BY KeepWorldCalm DEF CheckWorkerConnectivity, Inv, FaultsCounted
<1>2. /\ saga[r].st = "forward" /\ saga[r].at \in 1..Len(StepsOf[saga[r].kind])
      /\ saga[r].kind = "recovery" /\ saga[r].at = 1
  BY AtPlace, StepPlace DEF CheckWorkerConnectivity
<1>3. ctx[r] \in Ctx
  BY RunTyped DEF Inv
<1> QED
  BY <1>1, <1>2, <1>3, StepOkKeeps DEF CheckWorkerConnectivity

LEMMA ProvisionNewWorkerKeeps ==
    ASSUME Inv, NEW r \in Runs, ProvisionNewWorker(r) PROVE Inv'
<1>1. /\ saga[r].st = "forward" /\ saga[r].at \in 1..Len(StepsOf[saga[r].kind])
      /\ saga[r].kind = "recovery" /\ saga[r].at = 2
  BY AtPlace, StepPlace DEF ProvisionNewWorker
<1>2. ctx[r] \in Ctx
  BY RunTyped DEF Inv
<1>3. ASSUME KeepWorkers, FaultsCounted PROVE Calm
  BY <1>3, KeepJobsCalm, KeepWorkersCalm DEF ProvisionNewWorker, Calm, Inv
<1>4. CASE ctx[r].worker # NoWorker /\ NoFault /\ KeepWorkers /\ StepOk(r, ctx[r])
  <2>1. ctx[r].worker = saga[r].spec
    BY <1>1, <1>4 DEF Inv, RunsOk, RunOk
  <2> QED
    BY <1>1, <1>2, <1>3, <1>4, <2>1, StepOkKeeps DEF FaultsCounted
<1>5. CASE saga[r].services /\ CreateWorker(r)
  BY <1>1, <1>5, CreateWorkerKeeps DEF ProvisionNewWorker
<1>6. CASE RecordWorker(r)
  BY <1>1, <1>6, RecordWorkerKeeps DEF ProvisionNewWorker
<1> QED
  BY <1>4, <1>5, <1>6 DEF ProvisionNewWorker

LEMMA TransferJobKeeps == ASSUME Inv, NEW r \in Runs, TransferJob(r) PROVE Inv'
<1> DEFINE w == ctx[r].worker
<1>1. /\ saga[r].st = "forward" /\ saga[r].at \in 1..Len(StepsOf[saga[r].kind])
      /\ saga[r].kind = "recovery" /\ saga[r].at = 3
  BY AtPlace, StepPlace DEF TransferJob
<1>2. TypeOK /\ ctx[r] \in Ctx
  BY RunTyped DEF Inv
<1>3. UNCHANGED << current, places, outside >>
  BY DEF TransferJob
<1>4. ASSUME UNCHANGED << job, row >>, FaultsCounted PROVE Calm
  BY <1>2, <1>3, <1>4, JobUnchangedCalm, RowUnchangedCalm DEF Calm
<1>5. CASE NoFault /\ UNCHANGED << job, row >> /\ StepOk(r, ctx[r])
  BY <1>1, <1>2, <1>4, <1>5, StepOkKeeps DEF FaultsCounted
<1>6. CASE (Undispatched \/ NoFault) /\ UNCHANGED << job, row >> /\ StepErr(r)
  BY <1>1, <1>4, <1>6, StepErrKeeps DEF Undispatched, FaultsCounted
<1>7. CASE Transferred(Arg(r), w) /\ StepOk(r, [ctx[r] EXCEPT !.transferred = TRUE])
  <2>1. JobsCalm
    BY <1>2, <1>3, <1>7, SetJobCalm DEF Transferred, JobState
  <2>2. WorkersCalm
    BY <1>2, <1>3, <1>7, RowCalm DEF Transferred, SetRow, WorkerState
  <2> DEFINE c == [ctx[r] EXCEPT !.transferred = TRUE]
  <2>3. c \in Ctx /\ c.worker = w /\ StepOk(r, c)
    BY <1>2, <1>7 DEF Ctx
  <2>4. Calm
    BY <1>7, <2>1, <2>2 DEF Calm, Transferred, FaultsCounted
  <2> HIDE DEF c
  <2> QED
    BY <1>1, <2>3, <2>4, StepOkKeeps
<1>8. CASE HalfTransferred(w) /\ StepErr(r)
  <2>1. JobsCalm
    BY <1>2, <1>3, <1>8, JobUnchangedCalm DEF HalfTransferred
  <2>2. WorkersCalm
    BY <1>2, <1>3, <1>8, RowCalm DEF HalfTransferred, SetRow, WorkerState
  <2> QED
    BY <1>1, <1>8, <2>1, <2>2, StepErrKeeps DEF Calm, HalfTransferred, FaultsCounted
<1> QED
  BY <1>5, <1>6, <1>7, <1>8 DEF TransferJob

\* However the command to destroy it ends, the step leaves the world calm.
LEMMA DestroyStepCalm ==
    ASSUME Inv, NEW w \in Workers, KeepJobs,
           \/ Destroyed(w) \/ ProviderRefuses(w) \/ UnregisterFails(w)
           \/ (Undispatched \/ (row[w] = "Absent" /\ NoFault)) /\ KeepWorkers
    PROVE  Calm
BY DestroyCalm, KeepJobsCalm, KeepWorkersCalm DEF Inv, Calm, Undispatched, FaultsCounted

LEMMA TerminateOldWorkerKeeps ==
    ASSUME Inv, NEW r \in Runs, TerminateOldWorker(r) PROVE Inv'
<1>1. /\ saga[r].st = "forward" /\ saga[r].at \in 1..Len(StepsOf[saga[r].kind])
      /\ saga[r].kind = "recovery" /\ saga[r].at = 4
  BY AtPlace, StepPlace DEF TerminateOldWorker, Ready
<1>2. ctx[r] \in Ctx
  BY RunTyped DEF Inv
<1>3. saga[r].worker \in Workers
  BY <1>1 DEF Inv, RunsOk, RunOk
<1>4. Calm
  BY <1>3, DestroyStepCalm DEF TerminateOldWorker
<1> QED
  BY <1>1, <1>2, <1>4, StepOkKeeps DEF TerminateOldWorker

LEMMA CancelOldWorkerKeeps == ASSUME Inv, NEW r \in Runs, CancelOldWorker(r) PROVE Inv'
<1>1. /\ saga[r].st = "forward" /\ saga[r].at \in 1..Len(StepsOf[saga[r].kind])
      /\ saga[r].kind = "recovery" /\ saga[r].at = 5
  BY AtPlace, StepPlace DEF CancelOldWorker, Ready
<1>2. TypeOK /\ ctx[r] \in Ctx
  BY RunTyped DEF Inv
<1>3. saga[r].worker \in Workers
  BY <1>1 DEF Inv, RunsOk, RunOk
<1>4. WorkersCalm
  <2>1. CASE DropRow(saga[r].worker)
    BY <1>2, <1>3, <2>1, DropRowTyped DEF CancelOldWorker, places, WorkersCalm, TypeOK
  <2>2. CASE UNCHANGED << row, current >>
    BY <1>2, <2>2, RowUnchangedCalm DEF CancelOldWorker
  <2> QED
    BY <2>1, <2>2 DEF CancelOldWorker
<1>5. Calm
  BY <1>2, <1>4, KeepJobsCalm DEF CancelOldWorker, Calm, FaultsCounted
<1> QED
  BY <1>1, <1>2, <1>5, StepOkKeeps DEF CancelOldWorker

LEMMA CompProvisionNewWorkerKeeps ==
    ASSUME Inv, NEW r \in Runs, CompProvisionNewWorker(r) PROVE Inv'
<1>1. /\ saga[r].st = "rollback" /\ saga[r].at \in saga[r].done
      /\ saga[r].kind = "recovery" /\ saga[r].at = 2
  BY CompPlace, StepPlace DEF CompProvisionNewWorker, ReadyComp, AtComp, StepAt
<1>2. ctx[r].worker \in Workers
  BY <1>1, CreatedWorker
<1>3. Calm
  BY <1>2, DestroyStepCalm DEF CompProvisionNewWorker
<1> QED
  BY <1>1, <1>3, CompOkKeeps DEF CompProvisionNewWorker

LEMMA CompCheckConnectivityKeeps ==
    ASSUME Inv, NEW r \in Runs, CompCheckConnectivity(r) PROVE Inv'
<1>1. /\ saga[r].st = "rollback" /\ saga[r].at \in saga[r].done
      /\ saga[r].kind = "recovery"
  BY CompPlace, StepPlace DEF CompCheckConnectivity, AtComp, StepAt
<1>2. Calm
  BY KeepWorldCalm DEF CompCheckConnectivity, Inv, FaultsCounted
<1> QED
  BY <1>1, <1>2, CompOkKeeps DEF CompCheckConnectivity

-----------------------------------------------------------------------------
(* Cancellation, timeout and cleanup: runs that neither send nor create.   *)

\* Such a run may put anything well typed into its context.
LEMMA PlainStepKeeps ==
    ASSUME Inv, Calm, NEW r \in Runs, NEW name, At(r, name),
           name \in {"ValidateCancellation", "NotifyWorker", "UpdateJobState", "ReleaseWorker",
                     "ValidateTimeout", "TerminateWorker", "MarkJobFailed",
                     "ReleaseTimedOutWorker", "IdentifyUnhealthyWorkers",
                     "IdentifyOrphanedJobs", "CleanupUnhealthyWorkers", "ResetOrphanedJobs",
                     "PublishCleanupMetrics"},
           NEW c \in Ctx, StepOk(r, c) \/ StepErr(r)
    PROVE  Inv'
<1>1. /\ saga[r].st = "forward" /\ saga[r].at \in 1..Len(StepsOf[saga[r].kind])
      /\ saga[r].kind \in {"cancellation", "timeout", "cleanup"}
  BY AtPlace, StepPlace
<1>2. CASE StepOk(r, c)
  BY <1>1, <1>2, StepOkKeeps
<1>3. CASE StepErr(r)
  BY <1>1, <1>3, StepErrKeeps
<1> QED
  BY <1>2, <1>3

LEMMA PlainCompKeeps ==
    ASSUME Inv, Calm, NEW r \in Runs, NEW name, AtComp(r, name),
           name \in {"TerminateWorker", "MarkJobFailed", "ResetOrphanedJobs"}, CompOk(r)
    PROVE  Inv'
<1>1. /\ saga[r].st = "rollback" /\ saga[r].at \in saga[r].done
      /\ saga[r].kind \in {"timeout", "cleanup"}
  BY CompPlace, StepPlace DEF AtComp, StepAt
<1> QED
  BY <1>1, CompOkKeeps

LEMMA CtxTyped ==
    ASSUME TypeOK, NEW r \in Runs
    PROVE  /\ ctx[r] \in Ctx
           /\ \A w \in Workers : [ctx[r] EXCEPT !.worker = w] \in Ctx
           /\ \A b \in BOOLEAN : [ctx[r] EXCEPT !.skipped = b] \in Ctx
           /\ \A ws \in SUBSET Workers : [ctx[r] EXCEPT !.unhealthy = ws] \in Ctx
           /\ \A js \in SUBSET Jobs : [ctx[r] EXCEPT !.orphans = js] \in Ctx
BY RunTyped DEF Ctx

LEMMA CancellationKeeps ==
    ASSUME Inv, NEW r \in Runs,
           ValidateCancellation(r) \/ NotifyWorker(r) \/ UpdateJobState(r) \/ ReleaseWorker(r)
    PROVE  Inv'
<1>1. TypeOK /\ ctx[r] \in Ctx
  BY CtxTyped DEF Inv
<1>2. CASE ValidateCancellation(r)
  <2>1. Calm
    BY <1>1, <1>2, KeepWorldCalm DEF ValidateCancellation, FaultsCounted
  <2> QED
    BY <1>1, <1>2, <2>1, PlainStepKeeps DEF ValidateCancellation, Ready
<1>3. CASE NotifyWorker(r)
  <2>1. Calm
    BY <1>1, <1>3, KeepWorldCalm DEF NotifyWorker, Notified, FaultsCounted
  <2>2. CASE StepOk(r, ctx[r]) \/ StepErr(r)
    BY <1>1, <1>3, <2>1, <2>2, PlainStepKeeps DEF NotifyWorker, Ready
  <2>3. ASSUME NEW w \in Workers, StepOk(r, [ctx[r] EXCEPT !.worker = w]) PROVE Inv'
    BY <1>1, <1>3, <2>1, <2>3, CtxTyped, PlainStepKeeps DEF NotifyWorker, Ready
  <2> QED
    BY <1>3, <2>2, <2>3 DEF NotifyWorker, WorkersOf
<1>4. CASE UpdateJobState(r)
  <2>1. JobsCalm
    BY <1>1, <1>4, JobUnchangedCalm, SetJobCalm DEF UpdateJobState, StateUpdated, JobState
  <2>2. Calm
    BY <1>1, <1>4, <2>1, KeepWorkersCalm DEF UpdateJobState, Calm, Undispatched, FaultsCounted
  <2> QED
    BY <1>1, <1>4, <2>2, PlainStepKeeps DEF UpdateJobState, Ready
<1>5. CASE ReleaseWorker(r)
  <2>1. WorkersCalm
    BY <1>1, <1>5, RowUnchangedCalm, RowCalm
       DEF ReleaseWorker, Released, NotReleased, SetRow, WorkerState
  <2>2. Calm
    BY <1>1, <1>5, <2>1, JobUnchangedCalm
       DEF ReleaseWorker, Released, NotReleased, Calm, Undispatched, FaultsCounted
  <2> QED
    BY <1>1, <1>5, <2>2, PlainStepKeeps DEF ReleaseWorker, Ready
<1> QED
  BY <1>2, <1>3, <1>4, <1>5

LEMMA TimeoutKeeps ==
    ASSUME Inv, NEW r \in Runs,
           \/ ValidateTimeout(r) \/ TerminateWorker(r) \/ MarkJobFailed(r)
           \/ ReleaseTimedOutWorker(r) \/ CompTimeout(r)
    PROVE  Inv'
<1>1. TypeOK /\ ctx[r] \in Ctx
  BY CtxTyped DEF Inv
<1>2. CASE ValidateTimeout(r)
  <2>1. Calm
    BY <1>1, <1>2, KeepWorldCalm DEF ValidateTimeout, FaultsCounted
  <2>2. (job[Arg(r)] # "Running") \in BOOLEAN
    OBVIOUS
  <2> QED
    BY <1>1, <1>2, <2>1, <2>2, CtxTyped, PlainStepKeeps DEF ValidateTimeout, Ready
<1>3. CASE TerminateWorker(r)
  <2>1. WorkersCalm
    BY <1>1, <1>3, RowUnchangedCalm, RowCalm
       DEF TerminateWorker, TerminatedByCommand, SetRow, WorkerState
  <2>2. Calm
    BY <1>1, <1>3, <2>1, JobUnchangedCalm
       DEF TerminateWorker, TerminatedByCommand, Calm, Undispatched, FaultsCounted
  <2>3. CASE StepOk(r, ctx[r]) \/ StepErr(r)
    BY <1>1, <1>3, <2>2, <2>3, PlainStepKeeps DEF TerminateWorker, Ready
  <2>4. ASSUME NEW w \in Workers, StepOk(r, [ctx[r] EXCEPT !.worker = w]) PROVE Inv'
    BY <1>1, <1>3, <2>2, <2>4, CtxTyped, PlainStepKeeps DEF TerminateWorker, Ready
  <2> QED
    BY <1>3, <2>3, <2>4 DEF TerminateWorker, WorkersOf
<1>4. CASE MarkJobFailed(r)
  <2>1. JobsCalm
    BY <1>1, <1>4, JobUnchangedCalm, SetJobCalm DEF MarkJobFailed, JobTimedOut, JobState
  <2>2. Calm
    BY <1>1, <1>4, <2>1, KeepWorkersCalm
       DEF MarkJobFailed, JobTimedOut, Calm, Undispatched, FaultsCounted
  <2> QED
    BY <1>1, <1>4, <2>2, PlainStepKeeps DEF MarkJobFailed, Ready
<1>5. CASE ReleaseTimedOutWorker(r)
  <2>1. WorkersCalm
    BY <1>1, <1>5, RowUnchangedCalm, RowCalm
       DEF ReleaseTimedOutWorker, Released, NotReleased, SetRow, WorkerState
  <2>2. Calm
    BY <1>1, <1>5, <2>1, JobUnchangedCalm
       DEF ReleaseTimedOutWorker, Released, NotReleased, Calm, Undispatched, FaultsCounted
  <2> QED
    BY <1>1, <1>5, <2>2, PlainStepKeeps DEF ReleaseTimedOutWorker, Ready
<1>6. CASE CompTimeout(r)
  <2>1. Calm
    BY <1>1, <1>6, KeepWorldCalm DEF CompTimeout, FaultsCounted
  <2> QED
    BY <1>6, <2>1, PlainCompKeeps DEF CompTimeout, ReadyComp
<1> QED
  BY <1>2, <1>3, <1>4, <1>5, <1>6

LEMMA OrphansKeep ==
    ASSUME Inv, NEW r \in Runs, OrphanReads(r) \/ OrphanSaves(r)
    PROVE  Inv'
<1>1. TypeOK /\ ctx[r] \in Ctx /\ call[r] \in Call
  BY RunTyped DEF Inv
<1>2. saga[r].st = "forward" /\ saga[r].kind = "cleanup" /\ saga[r].services
  <2>1. At(r, "ResetOrphanedJobs") /\ saga[r].services
    BY DEF OrphanReads, OrphanSaves, Ready
  <2> QED
    BY <2>1, AtPlace, StepPlace
<1>3. Calm
  <2>1. CASE OrphanReads(r)
    BY <1>1, <2>1, KeepWorldCalm DEF OrphanReads, FaultsCounted
  <2>2. CASE OrphanSaves(r)
    <3>1. MaySetJob(call[r].job, "Failed") /\ FaultsCounted
      BY <2>2 DEF OrphanSaves, SetJob, MaySetJob, FaultsCounted
    <3> QED
      BY <1>1, <2>2, <3>1, MaySetJobCalm, KeepWorkersCalm DEF OrphanSaves, Calm, JobState
  <2> QED
    BY <2>1, <2>2
<1>4. PICK c \in Call : Calls(r, c) /\ c.pc \in {"none", "job"}
  <2>1. CASE OrphanReads(r)
    <3>1. PICK j \in ctx[r].orphans :
            \/ Calls(r, [call[r] EXCEPT !.pc = "job", !.job = j, !.seen = job[j]])
            \/ Calls(r, [call[r] EXCEPT !.taken = @ \cup {j}])
      BY <2>1 DEF OrphanReads
    <3>2. j \in Jobs /\ job[j] \in JobState /\ call[r].pc = "none"
      BY <1>1, <2>1 DEF Ctx, TypeOK, OrphanReads
    <3> DEFINE a == [call[r] EXCEPT !.pc = "job", !.job = j, !.seen = job[j]]
               b == [call[r] EXCEPT !.taken = @ \cup {j}]
    <3>3. a \in Call /\ a.pc = "job" /\ b \in Call /\ b.pc = "none"
      BY <1>1, <3>2 DEF Call
    <3> QED
      BY <3>1, <3>3
  <2>2. CASE OrphanSaves(r)
    <3> DEFINE a == [NoCall EXCEPT !.taken = call[r].taken \cup {call[r].job}]
    <3>1. call[r].job \in Jobs
      BY <1>2, <2>2 DEF OrphanSaves, Inv, CallsOk, CallOk
    <3>2. a \in Call /\ a.pc = "none"
      BY <1>1, <3>1 DEF Call, NoCall
    <3> QED
      BY <2>2, <3>2 DEF OrphanSaves
  <2> QED
    BY <2>1, <2>2
<1>5. c.pc = "job" => c.job \in Jobs
  <2>1. CASE OrphanReads(r)
    <3>1. PICK j \in ctx[r].orphans :
            \/ Calls(r, [call[r] EXCEPT !.pc = "job", !.job = j, !.seen = job[j]])
            \/ Calls(r, [call[r] EXCEPT !.taken = @ \cup {j}])
      BY <2>1 DEF OrphanReads
    <3>2. j \in Jobs /\ call[r].pc = "none" /\ call \in [Runs -> Call]
      BY <1>1, <2>1 DEF Ctx, TypeOK, OrphanReads
    <3>3. call'[r] = c
      BY <1>4, <3>2 DEF Calls
    <3>4. CASE Calls(r, [call[r] EXCEPT !.pc = "job", !.job = j, !.seen = job[j]])
      BY <1>1, <3>2, <3>3, <3>4 DEF Calls, Call
    <3>5. CASE Calls(r, [call[r] EXCEPT !.taken = @ \cup {j}])
      BY <1>1, <3>2, <3>3, <3>5 DEF Calls, Call
    <3> QED
      BY <3>1, <3>4, <3>5
  <2>2. CASE OrphanSaves(r)
    <3>1. call' = [call EXCEPT ![r] = c]
          /\ call' = [call EXCEPT ![r] = [NoCall EXCEPT !.taken = call[r].taken \cup {call[r].job}]]
      BY <1>4, <2>2 DEF Calls, OrphanSaves
    <3>2. c = [NoCall EXCEPT !.taken = call[r].taken \cup {call[r].job}]
      BY <1>1, <3>1 DEF TypeOK
    <3> QED
      BY <3>2 DEF NoCall
  <2> QED
    BY <2>1, <2>2
<1>6. /\ CallOk(saga[r], c) /\ ~ Busy(saga[r], c) /\ ~ Claims(saga[r], c)
      /\ ~ Marked(saga[r], c) /\ ~ HasSent(saga[r], c)
  BY <1>2, <1>4, <1>5 DEF CallOk, Busy, Claims, Marked, HasSent, Executes
<1> QED
  BY <1>2, <1>3, <1>4, <1>6, CallKeeps

LEMMA CleanupKeeps ==
    ASSUME Inv, NEW r \in Runs,
           \/ IdentifyUnhealthyWorkers(r) \/ IdentifyOrphanedJobs(r)
           \/ CleanupUnhealthyWorkers(r)
           \/ OrphanReads(r) \/ OrphanSaves(r) \/ ResetOrphanedJobs(r)
           \/ PublishCleanupMetrics(r) \/ CompResetOrphanedJobs(r)
    PROVE  Inv'
<1>1. TypeOK /\ ctx[r] \in Ctx
  BY CtxTyped DEF Inv
<1>2. CASE IdentifyUnhealthyWorkers(r)
  <2>1. Calm
    BY <1>1, <1>2, KeepWorldCalm DEF IdentifyUnhealthyWorkers, FaultsCounted
  <2>2. CASE StepErr(r)
    BY <1>1, <1>2, <2>1, <2>2, PlainStepKeeps DEF IdentifyUnhealthyWorkers, Ready
  <2>3. ASSUME NEW ws \in SUBSET Workers, StepOk(r, [ctx[r] EXCEPT !.unhealthy = ws]) PROVE Inv'
    BY <1>1, <1>2, <2>1, <2>3, CtxTyped, PlainStepKeeps DEF IdentifyUnhealthyWorkers, Ready
  <2> QED
    BY <1>2, <2>2, <2>3 DEF IdentifyUnhealthyWorkers
<1>3. CASE IdentifyOrphanedJobs(r)
  <2>1. Calm
    BY <1>1, <1>3, KeepWorldCalm DEF IdentifyOrphanedJobs, FaultsCounted
  <2>2. { j \in Jobs : job[j] = "Running" } \in SUBSET Jobs
    OBVIOUS
  <2> QED
    BY <1>1, <1>3, <2>1, <2>2, CtxTyped, PlainStepKeeps DEF IdentifyOrphanedJobs, Ready
<1>4. CASE CleanupUnhealthyWorkers(r)
  <2>1. WorkersCalm
    BY <1>1, <1>4 DEF CleanupUnhealthyWorkers, TypeOK, places, WorkersCalm
  <2>2. Calm
    BY <1>1, <1>4, <2>1, KeepJobsCalm DEF CleanupUnhealthyWorkers, GetThrough, Calm, FaultsCounted
  <2> QED
    BY <1>1, <1>4, <2>2, PlainStepKeeps DEF CleanupUnhealthyWorkers, Ready
<1>5. CASE ResetOrphanedJobs(r)
  <2>1. Calm
    BY <1>1, <1>5, KeepWorldCalm DEF ResetOrphanedJobs, FaultsCounted
  <2> QED
    BY <1>1, <1>5, <2>1, PlainStepKeeps DEF ResetOrphanedJobs, Ready
<1>6. CASE PublishCleanupMetrics(r)
  <2>1. Calm
    BY <1>1, <1>6, KeepWorldCalm DEF PublishCleanupMetrics, FaultsCounted
  <2> QED
    BY <1>1, <1>6, <2>1, PlainStepKeeps DEF PublishCleanupMetrics, Ready
<1>7. CASE CompResetOrphanedJobs(r)
  <2>1. JobsCalm
    BY <1>1, <1>7 DEF CompResetOrphanedJobs, TypeOK, outside, JobsCalm, JobState
  <2>2. Calm
    BY <1>1, <1>7, <2>1, KeepWorkersCalm DEF CompResetOrphanedJobs, Calm, FaultsCounted
  <2> QED
    BY <1>7, <2>2, PlainCompKeeps DEF CompResetOrphanedJobs, ReadyComp
<1> QED
  BY <1>2, <1>3, <1>4, <1>5, <1>6, <1>7, OrphansKeep

-----------------------------------------------------------------------------
LEMMA InvInit == Init => Inv
<1> SUFFICES ASSUME Init PROVE Inv
  OBVIOUS
<1>1. NoSaga \in Saga /\ NewCtx \in Ctx /\ NoCall \in Call /\ NoCall.pc = "none"
  BY NoCallTyped, KindsAre DEF NoSaga, NewCtx, Saga, Ctx, Phase
<1>2. \A r \in Runs : saga[r] = NoSaga /\ ctx[r] = NewCtx /\ call[r] = NoCall
  BY DEF Init
<1>3. TypeOK
  BY <1>1, StepsAssumption DEF Init, TypeOK, JobState, WorkerState
<1>4. RunsOk
  <2>1. NoSaga.st = "none" /\ NoSaga.kind = "execution" /\ NoSaga.done = {}
    BY DEF NoSaga
  <2>2. RunOk(NoSaga, NewCtx)
    BY <2>1 DEF RunOk
  <2> QED
    BY <1>2, <2>2 DEF RunsOk, RunOk
<1>5. IdsOk
  BY <1>2 DEF IdsOk, Owns, NoSaga, Init
<1>6. SendOk
  BY <1>2 DEF SendOk, Claims, Marked, HasSent, Executes, NoSaga, Init
<1>7. HonestOk
  BY <1>2 DEF HonestOk, HonestRun, NoSaga
<1>8. CallsOk /\ BusOk
  BY <1>1, <1>2 DEF CallsOk, CallOk, BusOk, Busy
<1> QED
  BY <1>3, <1>4, <1>5, <1>6, <1>7, <1>8 DEF Inv

LEMMA ProgressKeeps == ASSUME Inv, NEW r \in Runs, Progress(r) PROVE Inv'
<1>1. ExecutionStep(r) => Inv'
  BY ValidateJobKeeps, AssignWorkerFindsKeeps, AssignWorkerReadsKeeps, AssignWorkerSavesKeeps,
     AssignWorkerTakesKeeps, ExecuteJobReadsKeeps, ExecuteJobSendsKeeps, ExecuteJobSavesKeeps,
     CompleteJobReadsKeeps, CompleteJobSavesKeeps, CompleteJobReleasesKeeps, CompReadsKeep,
     CompAssignWorkerSavesKeeps, CompExecuteJobSavesKeeps DEF ExecutionStep
<1>2. OtherStep(r) => Inv'
  BY ValidateProviderCapacityKeeps, CreateInfrastructureKeeps, PublishProvisionedEventKeeps,
     CompCreateInfrastructureKeeps, CancellationKeeps, TimeoutKeeps,
     CheckWorkerConnectivityKeeps, ProvisionNewWorkerKeeps, TransferJobKeeps,
     TerminateOldWorkerKeeps, CancelOldWorkerKeeps, CompProvisionNewWorkerKeeps,
     CompCheckConnectivityKeeps, CleanupKeeps DEF OtherStep
<1> QED
  BY <1>1, <1>2, StepWithoutServicesKeeps, CompWithoutServicesKeeps, PassStepKeeps,
     CompleteKeeps, RollbackEndsKeeps DEF Progress

LEMMA InvStutter == Inv /\ UNCHANGED vars => Inv'
BY DEF vars, Inv, TypeOK, RunsOk, RunOk, CallsOk, CallOk, IdsOk, Owns, BusOk, Busy, SendOk,
       Claims, Marked, HasSent, Executes, HonestOk, HonestRun

LEMMA InvStep == Inv /\ [Next]_vars => Inv'
<1> SUFFICES ASSUME Inv, [Next]_vars PROVE Inv'
  OBVIOUS
<1>1. ASSUME NEW r \in Runs, Progress(r) \/ Starts(r) \/ Cut(r) \/ Resume(r) PROVE Inv'
  BY <1>1, ProgressKeeps, StartsKeep, CutKeeps, ResumeKeeps
<1>2. ASSUME NEW w \in Workers, WorkerRegisters(w) \/ WorkerReady(w) PROVE Inv'
  BY <1>2, WorkerRegistersKeeps, WorkerReadyKeeps
<1>3. ASSUME NEW j \in Jobs, NEW w \in Workers, AssignJob(j, w) PROVE Inv'
  BY <1>3, AssignJobKeeps
<1>4. ASSUME NEW j \in Jobs, NEW s \in {"Succeeded", "Failed"}, JobResult(j, s) PROVE Inv'
  BY <1>4, JobResultKeeps
<1> QED
  BY <1>1, <1>2, <1>3, <1>4, InvStutter DEF Next

LEMMA InvAlways == Spec => []Inv
BY InvInit, InvStep, PTL DEF Spec

\* Whatever sagas run together, the six sagas' steps and compensations keep the
\* tables, the contexts and the positions of the runs well typed, and a
\* container or a refusal is only of a worker id that was given out.
THEOREM StepsTypeCorrect == Spec => []TypeOK
<1>1. Inv => TypeOK
  BY DEF Inv
<1> QED
  BY <1>1, InvAlways, PTL

\* For any number of jobs, runs and faults JobExecutorImpl sends RUN_JOB at most
\* once for a job.
THEOREM JobIsSentOnce == Spec => []RunJobOnce
<1>1. ASSUME Inv, NEW j \in Jobs PROVE sent[j] <= 1
  <2>1. sent[j] \in {0, 1}
    BY <1>1 DEF Inv, SendOk
  <2> QED
    BY <2>1
<1>2. Inv => RunJobOnce
  BY <1>1 DEF RunJobOnce
<1> QED
  BY <1>2, InvAlways, PTL

\* CompleteJobStep and the workers' results are the only way to SUCCEEDED, and
\* both come after RUN_JOB.
THEOREM SuccessComesAfterSend == Spec => []SucceededWasSent
<1>1. ASSUME Inv, NEW j \in Jobs, job[j] = "Succeeded" PROVE sent[j] > 0
  <2>1. sent[j] = 1
    BY <1>1 DEF Inv, SendOk
  <2> QED
    BY <2>1
<1>2. Inv => SucceededWasSent
  BY <1>1 DEF SucceededWasSent
<1> QED
  BY <1>2, InvAlways, PTL

\* A provisioning saga that reports its rollback as done has left no container
\* but one that the provider refused to remove or that is stray, for any runs
\* beside it and however it was cut off and resumed: the step that made the
\* container is on record until the DestroyWorker command has succeeded.
THEOREM RollbackStaysHonest == Spec => []RollbackIsHonest
<1>1. ASSUME Inv, NEW r \in Runs, saga[r].kind = "provisioning", saga[r].st = "rolled_back"
      PROVE  saga[r].spec \notin infra \ (refused \cup stray)
  <2>1. 2 \notin saga[r].done
    BY <1>1 DEF Inv, RunsOk, RunOk
  <2>2. call[r].pc # "created"
    BY <1>1 DEF Inv, CallsOk, CallOk
  <2> QED
    BY <1>1, <2>1, <2>2 DEF Inv, HonestOk, HonestRun
<1>2. Inv => RollbackIsHonest
  BY <1>1 DEF RollbackIsHonest
<1> QED
  BY <1>2, InvAlways, PTL

\* A step or a compensation of the execution saga that changes a terminal job
\* had read it as not terminal: each command asks the state machine about its
\* copy, or is refused and saves the copy, and a copy does not outlive its
\* command.
THEOREM ExecutionLeavesTerminalJobs == Spec => ExecutionRespectsTerminal
<1> DEFINE Late(r) == call[r].seen \in JobState /\ ~ IsTerminal(call[r].seen)
<1>1. ASSUME Inv, NEW r \in Runs, ExecutionStep(r), NEW j \in Jobs, IsTerminal(job[j]),
             job'[j] # job[j]
      PROVE  Late(r)
  <2>1. job \in [Jobs -> JobState]
    BY <1>1 DEF Inv, TypeOK
  <2>2. \A s, t : CanTransition(s, t) => s \in JobState /\ ~ IsTerminal(s)
    BY DEF IsTerminal, CanTransition, JobSuccessors, JobState
  <2>3. \A s : IsScheduled(s) => s \in JobState /\ ~ IsTerminal(s)
    BY DEF IsTerminal, IsScheduled, JobState
  <2>4. ~ KeepJobs /\ ~ UNCHANGED job
    BY <1>1 DEF KeepJobs
  <2>5. CASE AssignWorkerSaves(r)
    <3>1. Command(r, "AssignWorker", "job")
      BY <2>5 DEF AssignWorkerSaves
    <3>2. CanTransition(call[r].seen, "Assigned")
      BY <1>1, <3>1, CommandPlace DEF Inv, CallsOk, CallOk
    <3> QED
      BY <2>2, <3>2
  <2>6. CASE ExecuteJobSaves(r)
    BY <2>3, <2>4, <2>6 DEF ExecuteJobSaves
  <2>7. CASE CompleteJobSaves(r)
    <3>1. Command(r, "CompleteJob", "job")
      BY <2>7 DEF CompleteJobSaves
    <3>2. CanTransition(call[r].seen, "Succeeded")
      BY <1>1, <3>1, CommandPlace DEF Inv, CallsOk, CallOk
    <3> QED
      BY <2>2, <3>2
  <2>8. CASE CompAssignWorkerSaves(r) \/ CompExecuteJobSaves(r)
    <3>1. call[r].seen \in {"Assigned", "Running"}
      <4> SUFFICES ASSUME call[r].seen \notin {"Assigned", "Running"} PROVE job' = job
        BY <2>4
      <4>1. job' = [job EXCEPT ![Arg(r)] = @] \/ job' = job
        BY <2>8 DEF CompAssignWorkerSaves, CompExecuteJobSaves
      <4> QED
        BY <2>1, <4>1
    <3> QED
      BY <3>1 DEF JobState, IsTerminal
  <2> QED
    BY <1>1, <2>4, <2>5, <2>6, <2>7, <2>8
       DEF ExecutionStep, ValidateJob, AssignWorkerFinds, AssignWorkerReads, AssignWorkerTakes,
           ExecuteJobReads, ExecuteJobSends, CompleteJobReads, CompleteJobReleases,
           CompAssignWorkerReads, CompExecuteJobReads, KeepWorld
<1>2. Inv /\ [Next]_vars =>
        [\A r \in Runs : ExecutionStep(r) =>
           \A j \in Jobs : IsTerminal(job[j]) /\ job'[j] # job[j] => Late(r)]_vars
  BY <1>1
<1> QED
  BY <1>2, InvAlways, PTL DEF Spec, ExecutionRespectsTerminal
=============================================================================
