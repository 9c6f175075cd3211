---------------------------- MODULE WorkerStream ----------------------------
(***************************************************************************)
(* One worker process and the server's end of its streams: registration    *)
(* with a one-time token or a session, the bidirectional stream, jobs that *)
(* run beside it, their results, reconnection, self-termination and        *)
(* graceful shutdown (crates/worker/bin/src/main.rs) against               *)
(* WorkerAgentServiceImpl::register, worker_stream, send_to_worker and     *)
(* unregister_worker (interface/src/grpc/worker.rs).                       *)
(*                                                                         *)
(* What the server does with an acknowledgement, a heartbeat's job ids or  *)
(* a result is the subject of JobExecution and WorkerLifecycle; log lines  *)
(* are left out.  No code of the server sends CancelJob.                   *)
(***************************************************************************)
EXTENDS Naturals, Sequences, SequencesExt

CONSTANTS
    SJobs,           \* the jobs the server may give to the worker
    Lossy,           \* whether a connection that breaks loses what was sent on it
    StreamMaxFaults  \* bound: broken connections, failing calls, server restarts

ASSUME StreamAssumption == Lossy \in BOOLEAN /\ StreamMaxFaults \in Nat

\* Every stream but the first is opened because of a fault.
Streams == 1 .. StreamMaxFaults + 1

VARIABLES
    agent,     \* where main is: Agent
    cur,       \* the stream main reads and writes, 0 before the first
    sess,      \* current_session_id is set
    otp,       \* the bootstrap token is not consumed
    known,     \* the server's `workers` map holds the session
    work,      \* [SJobs -> Work]: the spawned task of a job
    starting,  \* the job whose task is spawned and whose handle is not yet stored
    handles,   \* running_jobs: the jobs with a JoinHandle in the map
    results,   \* the persistent result channel, a sequence of jobs
    pending,   \* pending_results, a sequence of jobs
    idle,      \* idle_since is set
    shared,    \* history: the jobs that were on the worker together with another
    up,        \* [Streams -> Seq(Up)]: messages to the server
    down,      \* [Streams -> SUBSET SJobs]: RunJob commands to the worker
    link,      \* [Streams -> BOOLEAN]: the connection is up
    server,    \* [Streams -> {"none", "reading", "ended"}]: its task in the server
    holder,    \* [Streams -> BOOLEAN]: worker_id_holder is set
    chan,      \* worker_channels[worker]: the stream it leads to, 0 for no entry
    sent,      \* the jobs for which send_to_worker was called
    applied,   \* [SJobs -> Nat]: calls of on_job_result
    sFaults

Agent == { "register", "open", "live", "insert", "leaving", "stopping", "gone" }
Work == { "none", "run", "send", "done", "aborted" }
Beat == [ type |-> "heartbeat" ]
SelfTerminate == [ type |-> "self_terminate" ]
ResultOf(j) == [ type |-> "result", job |-> j ]
Up == { Beat, SelfTerminate } \cup { ResultOf(j) : j \in SJobs }

session == << sess, otp, known >>
jobsHere == << work, starting, handles, results, pending, idle, shared >>
wires == << up, down, link >>
serverSide == << server, holder, chan, applied >>
streamVars == << agent, cur, session, jobsHere, wires, serverSide, sent, sFaults >>

Working == sFaults' = sFaults
Failing == sFaults < StreamMaxFaults /\ sFaults' = sFaults + 1

StreamInit ==
    /\ agent = "register" /\ cur = 0
    /\ sess = FALSE /\ otp = TRUE /\ known = FALSE
    /\ work = [j \in SJobs |-> "none"]
    /\ starting = {} /\ handles = {} /\ results = << >> /\ pending = << >> /\ idle = TRUE
    /\ shared = {}
    /\ up = [s \in Streams |-> << >>]
    /\ down = [s \in Streams |-> {}]
    /\ link = [s \in Streams |-> FALSE]
    /\ server = [s \in Streams |-> "none"]
    /\ holder = [s \in Streams |-> FALSE]
    /\ chan = 0
    /\ sent = {}
    /\ applied = [j \in SJobs |-> 0]
    /\ sFaults = 0

\* tx.send(msg) of the worker: queued while the connection is up, lost once it broke.
Push(msg) == up' = IF link[cur] THEN [up EXCEPT ![cur] = Append(@, msg)] ELSE up

\* The connection of stream s is gone: what has not arrived is lost.
Cut(s) ==
    \/ UNCHANGED up
    \/ /\ Lossy /\ s \in Streams
       /\ \E n \in 0 .. Len(up[s]) : up' = [up EXCEPT ![s] = SubSeq(@, 1, n)]

-----------------------------------------------------------------------------
(* Registration.                                                           *)

\* consume of the token store: an UPDATE that finds the token only if it is not consumed.
ConsumeToken == otp /\ otp' = FALSE

\* Mutated form of Admit: a session does not spare the token.
AdmitWithToken == ConsumeToken /\ known' = TRUE

\* The server's part: a session it knows needs no token; otherwise validate_otp
\* consumes the token, once, and the session is stored.
Admit ==
    \/ sess /\ known /\ UNCHANGED << otp, known >>
    \/ ~(sess /\ known) /\ ConsumeToken /\ known' = TRUE

Register ==
    /\ agent = "register"
    /\ Admit
    /\ sess' = TRUE
    /\ agent' = "open"
    /\ Working
    /\ UNCHANGED << cur, jobsHere, wires, serverSide, sent >>

\* register_worker retries with the same session and token after an error: the
\* answer is lost, or on_worker_registered fails after the token was consumed.
RegisterFails ==
    /\ agent = "register"
    /\ \/ Admit
       \/ ~(sess /\ known) /\ ConsumeToken /\ UNCHANGED known
    /\ Failing
    /\ UNCHANGED << agent, cur, sess, jobsHere, wires, serverSide, sent >>

-----------------------------------------------------------------------------
(* The worker's streams.                                                   *)

\* worker_stream succeeds: the server spawns the task of the stream, and the worker
\* first sends what pending_results holds, before any heartbeat.
OpenStream ==
    LET s == cur + 1 IN
    /\ agent = "open"
    /\ s \in Streams
    /\ up' = [up EXCEPT ![s] = [i \in DOMAIN pending |-> ResultOf(pending[i])]]
    /\ pending' = << >>
    /\ cur' = s
    /\ link' = [link EXCEPT ![s] = TRUE]
    /\ server' = [server EXCEPT ![s] = "reading"]
    /\ agent' = "live"
    /\ Working
    /\ UNCHANGED << session, work, starting, handles, results, idle, shared, down, holder, chan, sent,
                    applied >>

\* worker_stream fails: after the back-off main registers again.
OpenStreamFails ==
    /\ agent = "open"
    /\ agent' = "register"
    /\ Failing
    /\ UNCHANGED << cur, session, jobsHere, wires, serverSide, sent >>

\* heartbeat_interval.tick().  One heartbeat at a time is on its way.
SendHeartbeat ==
    /\ agent = "live"
    /\ Beat \notin ToSet(up[cur])
    /\ Push(Beat)
    /\ Working
    /\ UNCHANGED << agent, cur, session, jobsHere, down, link, serverSide, sent >>

\* Mutated form of SendResult: the result is kept for the next stream whether this one works or not.
SendResultParks ==
    /\ agent = "live"
    /\ results # << >>
    /\ results' = Tail(results)
    /\ pending' = Append(pending, Head(results))
    /\ Working
    /\ UNCHANGED << agent, cur, session, work, starting, handles, idle, shared, wires, serverSide, sent >>

\* result_rx.recv(): the result is queued on the stream, or, when the stream is known
\* to be broken, kept for the next one.
SendResult ==
    /\ agent = "live"
    /\ results # << >>
    /\ results' = Tail(results)
    /\ \/ /\ link[cur] \/ Lossy
          /\ Push(ResultOf(Head(results)))
          /\ idle' = TRUE
          /\ UNCHANGED << agent, pending >>
       \/ /\ ~link[cur]
          /\ pending' = Append(pending, Head(results))
          /\ agent' = "register"
          /\ UNCHANGED << up, idle >>
    /\ Working
    /\ UNCHANGED << cur, session, work, starting, handles, shared, down, link, serverSide, sent >>

\* The jobs the worker has: their task is not through, or their result waits in the worker.
Busy(j) == work[j] \in {"run", "send"}
Kept(j) ==
    \/ \E i \in 1 .. Len(results) : results[i] = j
    \/ \E i \in 1 .. Len(pending) : pending[i] = j
Has(j) == Busy(j) \/ Kept(j)
Held == { j \in SJobs : Has(j) }

\* Job j comes to a worker that has other jobs.
Joins(j) == shared' = IF Held = {} THEN shared ELSE shared \cup Held \cup {j}

\* Mutated form of ReceiveRunJob: on_job_started is not called.
ReceiveRunJobIdle(j) ==
    /\ agent = "live"
    /\ j \in down[cur]
    /\ down' = [down EXCEPT ![cur] = @ \ {j}]
    /\ work' = [work EXCEPT ![j] = "run"]
    /\ starting' = {j}
    /\ Joins(j)
    /\ agent' = "insert"
    /\ Working
    /\ UNCHANGED << cur, session, handles, results, pending, idle, up, link, serverSide, sent >>

\* server_stream.message() returns a RunJob: its task is spawned, beside the tasks of
\* other jobs if there are any ...
ReceiveRunJob(j) ==
    /\ agent = "live"
    /\ j \in down[cur]
    /\ down' = [down EXCEPT ![cur] = @ \ {j}]
    /\ idle' = FALSE
    /\ work' = [work EXCEPT ![j] = "run"]
    /\ starting' = {j}
    /\ Joins(j)
    /\ agent' = "insert"
    /\ Working
    /\ UNCHANGED << cur, session, handles, results, pending, up, link, serverSide, sent >>

\* ... and its handle is stored afterwards, whether the task still runs or not.
InsertHandle ==
    /\ agent = "insert"
    /\ handles' = handles \cup starting
    /\ starting' = {}
    /\ agent' = "live"
    /\ Working
    /\ UNCHANGED << cur, session, work, results, pending, idle, shared, wires, serverSide, sent >>

\* server_stream ends or fails, or a heartbeat cannot be sent any more: commands that
\* were not read are dropped with the stream.
NoticeBreak ==
    /\ agent = "live"
    /\ ~link[cur]
    /\ agent' = "register"
    /\ Working
    /\ UNCHANGED << cur, session, jobsHere, wires, serverSide, sent >>

-----------------------------------------------------------------------------
(* The task of a job.                                                      *)

\* execute_from_command returns, with an exit code, an error or a timeout, and the
\* task takes its entry out of running_jobs ...
JobEnds(j) ==
    /\ work[j] = "run" /\ agent # "gone"
    /\ work' = [work EXCEPT ![j] = "send"]
    /\ handles' = handles \ {j}
    /\ Working
    /\ UNCHANGED << agent, cur, session, starting, results, pending, idle, shared, wires, serverSide, sent >>

\* ... and sends the result to the channel that outlives the connections.
JobReports(j) ==
    /\ work[j] = "send" /\ agent # "gone"
    /\ work' = [work EXCEPT ![j] = "done"]
    /\ results' = Append(results, j)
    /\ Working
    /\ UNCHANGED << agent, cur, session, starting, handles, pending, idle, shared, wires, serverSide, sent >>

-----------------------------------------------------------------------------
(* The end of the process.                                                 *)

\* auto_terminate_interval.tick() when cleanup_timeout_ms has passed since idle_since.
AutoTerminate ==
    /\ agent = "live"
    /\ handles = {} /\ idle
    /\ Push(SelfTerminate)
    /\ agent' = "leaving"
    /\ Working
    /\ UNCHANGED << cur, session, jobsHere, down, link, serverSide, sent >>

\* shutdown_rx.recv(), in the loops of main and of register_worker.
Shutdown ==
    /\ agent \in {"register", "open", "live"}
    /\ agent' = "stopping"
    /\ Working
    /\ UNCHANGED << cur, session, jobsHere, wires, serverSide, sent >>

\* Unfinished(h): the handles that retain keeps.
Unfinished(h) == { j \in h : work[j] \in {"run", "send"} }

\* The server's unregister_worker.
Unregister == known' = FALSE /\ chan' = 0

\* The graceful shutdown: once no handle is unfinished, or after ten seconds with the
\* others aborted, the worker is unregistered and the process ends.  What it had not
\* flushed on its stream is lost; nobody reads the result channel any more.
Exit ==
    /\ agent \in {"leaving", "stopping"}
    /\ work' = [j \in SJobs |-> IF j \in Unfinished(handles) THEN "aborted" ELSE work[j]]
    /\ handles' = {}
    /\ \/ Unregister /\ Working
       \/ UNCHANGED << known, chan >> /\ Failing
    /\ agent' = "gone"
    /\ link' = [s \in Streams |-> FALSE]
    /\ Cut(cur)
    /\ UNCHANGED << cur, sess, otp, starting, results, pending, idle, shared, down, server,
                    holder, sent, applied >>

-----------------------------------------------------------------------------
(* The server.                                                             *)

\* The task of worker_stream takes the next message.  The first heartbeat of a stream
\* stores the worker's id and channel; a result before it is dropped.
OnHeartbeat(s) ==
    /\ Head(up[s]) = Beat
    /\ holder' = [holder EXCEPT ![s] = TRUE]
    /\ chan' = IF holder[s] THEN chan ELSE s
    /\ UNCHANGED applied

OnResult(s) ==
    /\ Head(up[s]).type = "result"
    /\ applied' = IF holder[s] THEN [applied EXCEPT ![Head(up[s]).job] = @ + 1] ELSE applied
    /\ UNCHANGED << holder, chan >>

OnSelfTerminate(s) ==
    /\ Head(up[s]) = SelfTerminate
    /\ chan' = 0
    /\ UNCHANGED << holder, applied >>

\* Mutated form of ServerReads: a message is taken from the stream only after another read.
ServerReadsAgain(s) ==
    /\ server[s] = "reading"
    /\ up[s] # << >>
    /\ OnHeartbeat(s) \/ OnResult(s) \/ OnSelfTerminate(s)
    /\ up' = [up EXCEPT ![s] = Tail(@)] \/ UNCHANGED up
    /\ Working
    /\ UNCHANGED << agent, cur, session, jobsHere, down, link, server, sent >>

ServerReads(s) ==
    /\ server[s] = "reading"
    /\ up[s] # << >>
    /\ OnHeartbeat(s) \/ OnResult(s) \/ OnSelfTerminate(s)
    /\ up' = [up EXCEPT ![s] = Tail(@)]
    /\ Working
    /\ UNCHANGED << agent, cur, session, jobsHere, down, link, server, sent >>

\* Mutated form of ServerEnds: the entry in worker_channels is left behind.
ServerEndsQuietly(s) ==
    /\ server[s] = "reading"
    /\ up[s] = << >> /\ ~link[s]
    /\ server' = [server EXCEPT ![s] = "ended"]
    /\ Working
    /\ UNCHANGED << agent, cur, session, jobsHere, wires, holder, chan, applied, sent >>

\* inbound ends or fails, maybe long after the worker went on to another stream: the
\* task removes the entry of the worker, whichever stream that leads to.
ServerEnds(s) ==
    /\ server[s] = "reading"
    /\ up[s] = << >> /\ ~link[s]
    /\ server' = [server EXCEPT ![s] = "ended"]
    /\ chan' = IF holder[s] THEN 0 ELSE chan
    /\ Working
    /\ UNCHANGED << agent, cur, session, jobsHere, wires, holder, applied, sent >>

\* send_to_worker with a RunJob: it asks for a channel and nothing else, so that a worker
\* which the registry shows free, because a compensation, a cancellation or a timeout
\* released it, is given a job while it has another.  That RUN_JOB is sent once for a
\* job is RunJobOnce of SagaSteps.
SendToWorker(j) ==
    /\ j \notin sent
    /\ chan # 0
    /\ sent' = sent \cup {j}
    /\ down' = IF link[chan] THEN [down EXCEPT ![chan] = @ \cup {j}] ELSE down
    /\ Working
    /\ UNCHANGED << agent, cur, session, jobsHere, up, link, serverSide >>

-----------------------------------------------------------------------------
(* Faults.                                                                 *)

\* The connection of a stream breaks; the two ends notice on their own.
BreakConnection(s) ==
    /\ link[s]
    /\ link' = [link EXCEPT ![s] = FALSE]
    /\ Cut(s)
    /\ \/ UNCHANGED down
       \/ Lossy /\ down' = [down EXCEPT ![s] = {}]
    /\ Failing
    /\ UNCHANGED << agent, cur, session, jobsHere, serverSide, sent >>

\* The server restarts: sessions, channels and the tasks of the streams are gone.
ServiceRestarts ==
    /\ Lossy \/ \A s \in Streams : up[s] = << >>
    /\ link' = [s \in Streams |-> FALSE]
    /\ up' = [s \in Streams |-> << >>]
    /\ server' = [s \in Streams |-> IF server[s] = "none" THEN "none" ELSE "ended"]
    /\ known' = FALSE /\ chan' = 0
    /\ Failing
    /\ UNCHANGED << agent, cur, sess, otp, jobsHere, down, holder, applied, sent >>

-----------------------------------------------------------------------------

StreamNext ==
    \/ Register \/ RegisterFails \/ OpenStream \/ OpenStreamFails
    \/ SendHeartbeat \/ SendResult \/ InsertHandle \/ NoticeBreak
    \/ AutoTerminate \/ Shutdown \/ Exit
    \/ \E j \in SJobs : ReceiveRunJob(j) \/ JobEnds(j) \/ JobReports(j) \/ SendToWorker(j)
    \/ \E s \in Streams : ServerReads(s) \/ ServerEnds(s) \/ BreakConnection(s)
    \/ ServiceRestarts

StreamSpec == StreamInit /\ [][StreamNext]_streamVars

\* main's loops and the tasks of jobs and streams are polled, select! picks every branch
\* that stays ready, and a job ends because execute_from_command has a timeout.
StreamFairness ==
    /\ WF_streamVars(Register) /\ WF_streamVars(OpenStream)
    /\ WF_streamVars(SendHeartbeat) /\ WF_streamVars(SendResult)
    /\ WF_streamVars(InsertHandle) /\ WF_streamVars(NoticeBreak)
    /\ \A j \in SJobs : WF_streamVars(ReceiveRunJob(j) \/ JobEnds(j) \/ JobReports(j))
    /\ \A s \in Streams : WF_streamVars(ServerReads(s) \/ ServerEnds(s))

StreamFairSpec == StreamSpec /\ StreamFairness

-----------------------------------------------------------------------------
(* Properties.                                                             *)

\* Every variable of the worker, of its streams and of the server holds a value of
\* its type, and a connected worker has a stream.
StreamTypeOK ==
    /\ agent \in Agent /\ cur \in 0 .. StreamMaxFaults + 1
    /\ agent \in {"live", "insert"} => cur # 0
    /\ sess \in BOOLEAN /\ otp \in BOOLEAN /\ known \in BOOLEAN
    /\ work \in [SJobs -> Work]
    /\ starting \subseteq SJobs /\ handles \subseteq SJobs
    /\ results \in Seq(SJobs) /\ pending \in Seq(SJobs)
    /\ idle \in BOOLEAN /\ shared \subseteq SJobs
    /\ up \in [Streams -> Seq(Up)]
    /\ down \in [Streams -> SUBSET SJobs]
    /\ link \in [Streams -> BOOLEAN]
    /\ server \in [Streams -> {"none", "reading", "ended"}]
    /\ holder \in [Streams -> BOOLEAN]
    /\ chan \in 0 .. StreamMaxFaults + 1
    /\ sent \subseteq SJobs
    /\ applied \in [SJobs -> Nat]
    /\ sFaults \in 0 .. StreamMaxFaults

\* A result is applied at most once, although it goes through the result channel, the
\* pending list and several streams: no send keeps a copy of what it delivered.
ResultOnce == \A j \in SJobs : applied[j] <= 1

\* A worker that terminates itself kills no running job, and what it has not handed to
\* the stream is the result of a job that was on it together with another one: then
\* idle_since, set for the first result, is still set when the second job has left
\* running_jobs and its result is not sent.
LeavesEmptyHanded ==
    agent = "leaving" => \A j \in SJobs : work[j] # "run" /\ (Has(j) => j \in shared)

\* worker_channels never leads to a stream whose task has ended, so that
\* send_to_worker never puts a command where nobody will ever read an answer.
ChannelIsRead == chan # 0 => server[chan] = "reading" /\ holder[chan]

\* A worker that lost its stream comes back as long as the server remembers its
\* session, without another token: however often connections break and answers are
\* lost, it is connected again, stopped, or forgotten by a restarted server.
WorkerReconnects ==
    (agent \in {"register", "open"} /\ sess /\ known)
        ~> (agent \notin {"register", "open"} \/ ~known)

\* Without a fault, a job given to a worker that stays is answered: the command, the
\* task, the result channel and the stream lead to on_job_result.
JobsAreAnswered ==
    \A j \in SJobs :
        (j \in sent) ~> (applied[j] > 0 \/ sFaults > 0 \/ agent \in {"leaving", "stopping", "gone"})

\* What main.rs says of the result channel: as long as the worker runs, a result is
\* never lost when the connection drops; it is on its way or was applied.
ResultsSurvive ==
    agent \in {"register", "open", "live", "insert"} =>
        \A j \in SJobs : work[j] = "done" =>
            \/ applied[j] > 0
            \/ j \in ToSet(results) \cup ToSet(pending)
            \/ \E s \in Streams : ResultOf(j) \in ToSet(up[s])

-----------------------------------------------------------------------------
(* The inductive invariant behind ResultOnce and LeavesEmptyHanded: a      *)
(* command, a task and a result of a job exclude each other, a result is   *)
(* in one place, and the jobs that the worker has at the same time are     *)
(* known as such.                                                          *)

OnWire(j, s, i) == i \in 1 .. Len(up[s]) /\ up[s][i] = ResultOf(j)

\* Jobs that were not given to the worker.
SentInv ==
    /\ \A j \in SJobs \ sent : work[j] = "none" /\ applied[j] = 0
    /\ \A j \in SJobs : applied[j] <= 1

\* A command on its way, on one stream, has not been carried out.
CommandInv ==
    /\ \A s \in Streams : \A j \in down[s] : j \in sent /\ work[j] = "none" /\ applied[j] = 0
    /\ \A s, t \in Streams : \A j \in down[s] \cap down[t] : s = t

\* A task or a result that waits, once.
HandInv ==
    /\ \A j \in SJobs : Busy(j) => j \in sent /\ applied[j] = 0
    /\ \A j \in SJobs : Kept(j) => work[j] = "done" /\ j \in sent /\ applied[j] = 0
    /\ \A i, k \in 1 .. Len(results) : results[i] = results[k] => i = k
    /\ \A i, k \in 1 .. Len(pending) : pending[i] = pending[k] => i = k
    /\ \A i \in 1 .. Len(results), k \in 1 .. Len(pending) : results[i] # pending[k]

\* What the worker has while it is idle or leaves.
ShareInv ==
    /\ \A j, k \in SJobs : Has(j) /\ Has(k) /\ j # k => j \in shared
    /\ idle \/ agent = "leaving" => \A j \in SJobs : Has(j) => j \in shared

\* The handle of a running job is in the map as soon as main goes on.
HandleInv ==
    /\ \A j \in SJobs : work[j] = "run" => j \in handles \cup starting
    /\ starting # {} => agent = "insert"
    /\ agent = "leaving" => \A j \in SJobs : work[j] # "run"

\* A result on a stream is there once and nowhere else.
WireInv ==
    /\ \A j \in SJobs, s \in Streams : \A i \in 1 .. Len(up[s]) :
         OnWire(j, s, i) => work[j] = "done" /\ j \in sent /\ applied[j] = 0 /\ ~Kept(j)
    /\ \A j \in SJobs, s, t \in Streams : \A i \in 1 .. Len(up[s]), k \in 1 .. Len(up[t]) :
         OnWire(j, s, i) /\ OnWire(j, t, k) => s = t /\ i = k

StreamInv ==
    /\ StreamTypeOK /\ SentInv /\ CommandInv /\ HandInv /\ ShareInv /\ HandleInv /\ WireInv
    /\ ChannelIsRead
=============================================================================
