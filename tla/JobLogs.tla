------------------------------- MODULE JobLogs -------------------------------
(***************************************************************************)
(* The output of one job from the command to the clients that follow it:   *)
(* the reader and the flush task of stream_command_output share a          *)
(* LogBatcher (crates/worker/infrastructure), its batches and the job's    *)
(* result go through the worker's stream, the task of worker_stream        *)
(* ingests them, and LogStreamService keeps a circular buffer and sends    *)
(* every line to the subscribers (interface/src/grpc/log_stream.rs).       *)
(*                                                                         *)
(* A line is its number.  Sequence numbers, the worker's log file and      *)
(* persistent storage, which the server does not configure, are left out.  *)
(***************************************************************************)
EXTENDS Naturals, Sequences

CONSTANTS
    Followers,      \* clients that call subscribe_logs
    WithHistory,    \* those that set include_history
    MaxLines,       \* bound: the lines the command writes
    BatchLines,     \* log_batch_size
    WireCap,        \* capacity of the worker's channel to its stream
    LogBufferSize,  \* LOG_BUFFER_SIZE
    FollowerCap     \* capacity of the channels of a subscription

ASSUME LogAssumption ==
    /\ WithHistory \subseteq Followers
    /\ MaxLines \in Nat
    /\ BatchLines \in Nat \ {0} /\ WireCap \in Nat \ {0}
    /\ LogBufferSize \in Nat \ {0} /\ FollowerCap \in Nat \ {0}

VARIABLES
    written,   \* number of lines read from the command
    output,    \* where execute_from_command and its caller are: Output
    ticking,   \* the flush task exists
    batch,     \* LogBatcher.buffer
    flushing,  \* who is inside LogBatcher::flush and so holds its mutex: Flusher
    taken,     \* the lines that flush took out of the buffer
    wire,      \* the stream: batches of lines and the result
    broken,    \* the connection broke; the result goes on another stream
    late,      \* the result is on that other stream
    todo,      \* the rest of the batch that ingest_log_batch works on
    step,      \* where append_log is with Head(todo): Step
    serving,   \* the subscribers it has not served
    buffer,    \* logs[job]
    subs,      \* subscribers[job]
    closing,   \* where finalize_job_log is: Closing
    phase,     \* [Followers -> Phase]: subscribe_logs
    rest,      \* [Followers -> Seq(Nat)]: lines that subscribe still has to send
    chan,      \* [Followers -> Seq(Nat)]: the channel of subscribe
    out,       \* [Followers -> Seq(Nat)]: the channel of subscribe_logs
    got,       \* [Followers -> Seq(Nat)]: what the client has read
    \* history, read by the properties only
    lost,      \* lines that a flush gave up
    appended,  \* lines in the order append_log stored them
    timedOut,  \* the job timed out
    live       \* [Followers -> Nat]: lines the follower had when it was registered

Output == { "run", "drain", "end", "reported" }
Flusher == { "none", "reader", "task", "final" }
Step == { "buffer", "look", "send" }
Closing == { "no", "logs", "subscribers", "done" }
Phase == { "none", "history", "enter", "replay", "register", "open", "left", "dead", "ended" }
Result == [ type |-> "result" ]
LogBatch(lines) == [ type |-> "lines", lines |-> lines ]

worker == << written, output, ticking, batch, flushing, taken, lost, timedOut >>
ingest == << todo, step, serving, appended >>
followers == << phase, rest, chan, out, got, live >>
logVars == << worker, wire, broken, late, ingest, buffer, subs, closing, followers >>

LogInit ==
    /\ written = 0 /\ output = "run" /\ ticking = TRUE
    /\ batch = << >> /\ flushing = "none" /\ taken = << >> /\ lost = {} /\ timedOut = FALSE
    /\ wire = << >> /\ broken = FALSE /\ late = FALSE
    /\ todo = << >> /\ step = "buffer" /\ serving = << >> /\ appended = << >>
    /\ buffer = << >> /\ subs = << >> /\ closing = "no"
    /\ phase = [c \in Followers |-> "none"]
    /\ rest = [c \in Followers |-> << >>]
    /\ chan = [c \in Followers |-> << >>]
    /\ out = [c \in Followers |-> << >>]
    /\ got = [c \in Followers |-> << >>]
    /\ live = [c \in Followers |-> 0]

Lines(s) == { s[i] : i \in 1 .. Len(s) }

-----------------------------------------------------------------------------
(* The worker.                                                             *)

\* LogBatcher::flush takes the buffer first, under the mutex of the batcher.
Take(who, lines) ==
    IF lines = << >>
    THEN flushing' = "none" /\ taken' = << >> /\ batch' = << >>
    ELSE flushing' = who /\ taken' = lines /\ batch' = << >>

\* A line of stdout or stderr is pushed; a full buffer is flushed at once.
WriteLine ==
    LET lines == Append(batch, written + 1) IN
    /\ output = "run" /\ flushing = "none" /\ written < MaxLines
    /\ written' = written + 1
    /\ IF Len(lines) >= BatchLines
       THEN Take("reader", lines)
       ELSE batch' = lines /\ UNCHANGED << flushing, taken >>
    /\ UNCHANGED << output, ticking, lost, timedOut, wire, broken, late, ingest, buffer, subs,
                    closing, followers >>

\* Mutated form of FlushTick: the lines are sent and stay in the buffer.
FlushTickCopies ==
    /\ ticking /\ flushing = "none" /\ batch # << >>
    /\ flushing' = "task" /\ taken' = batch
    /\ UNCHANGED << written, output, ticking, batch, lost, timedOut, wire, broken, late, ingest,
                    buffer, subs, closing, followers >>

\* A tick of the flush task.
FlushTick ==
    /\ ticking /\ flushing = "none" /\ batch # << >>
    /\ Take("task", batch)
    /\ UNCHANGED << written, output, ticking, lost, timedOut, wire, broken, late, ingest, buffer,
                    subs, closing, followers >>

\* The flush is over; after the last one execute_from_command returns.
FlushEnds ==
    /\ flushing' = "none" /\ taken' = << >>
    /\ output' = IF flushing = "final" THEN "end" ELSE output

FlushSends ==
    /\ flushing # "none" /\ ~broken /\ Len(wire) < WireCap
    /\ wire' = Append(wire, LogBatch(taken))
    /\ FlushEnds
    /\ UNCHANGED << written, ticking, batch, lost, timedOut, broken, late, ingest, buffer, subs,
                    closing, followers >>

\* Five seconds pass without room in the channel, or its stream is gone: the batch is dropped.
FlushFails ==
    /\ flushing # "none" /\ (broken \/ Len(wire) >= WireCap)
    /\ lost' = lost \cup Lines(taken)
    /\ FlushEnds
    /\ UNCHANGED << written, ticking, batch, timedOut, wire, broken, late, ingest, buffer, subs,
                    closing, followers >>

\* Both pipes are at their end: the flush task is aborted, in the middle of a flush
\* perhaps, whose lines are gone with it.
OutputEnds ==
    /\ output = "run" /\ flushing # "reader"
    /\ output' = "drain"
    /\ ticking' = FALSE
    /\ lost' = lost \cup Lines(taken)
    /\ flushing' = "none" /\ taken' = << >>
    /\ UNCHANGED << written, batch, timedOut, wire, broken, late, ingest, buffer, subs, closing,
                    followers >>

\* Mutated form of FinalFlush: what is left in the buffer is not flushed.
FinalFlushSkipped ==
    /\ output = "drain" /\ flushing = "none"
    /\ output' = "end"
    /\ UNCHANGED << written, ticking, batch, flushing, taken, lost, timedOut, wire, broken, late,
                    ingest, buffer, subs, closing, followers >>

FinalFlush ==
    /\ output = "drain" /\ flushing = "none"
    /\ Take("final", batch)
    /\ output' = IF batch = << >> THEN "end" ELSE output
    /\ UNCHANGED << written, ticking, lost, timedOut, wire, broken, late, ingest, buffer, subs,
                    closing, followers >>

\* tokio::time::timeout drops stream_command_output where it is.  The handle of the
\* flush task is dropped with it, which does not abort the task.
JobTimesOut ==
    /\ output \in {"run", "drain"}
    /\ output' = "end" /\ timedOut' = TRUE
    /\ IF flushing \in {"reader", "final"}
       THEN flushing' = "none" /\ taken' = << >> /\ lost' = lost \cup Lines(taken)
       ELSE UNCHANGED << flushing, taken, lost >>
    /\ UNCHANGED << written, ticking, batch, wire, broken, late, ingest, buffer, subs, closing,
                    followers >>

\* The result follows, through the result channel and main, on the stream of that time.
Report ==
    /\ output = "end"
    /\ output' = "reported"
    /\ IF broken
       THEN late' = TRUE /\ UNCHANGED wire
       ELSE Len(wire) < WireCap /\ wire' = Append(wire, Result) /\ UNCHANGED late
    /\ UNCHANGED << written, ticking, batch, flushing, taken, lost, timedOut, broken, ingest,
                    buffer, subs, closing, followers >>

\* The connection breaks before the result is sent; what was sent last may be lost.
StreamBreaks ==
    /\ ~broken /\ output # "reported"
    /\ broken' = TRUE
    /\ \E n \in 0 .. Len(wire) : wire' = SubSeq(wire, 1, n)
    /\ UNCHANGED << worker, late, ingest, buffer, subs, closing, followers >>

-----------------------------------------------------------------------------
(* The server: worker_stream, LogIngestor and LogStreamService.            *)

\* subscribe keeps a guard of `logs` while it sends the buffer, append_log one of
\* `subscribers` while it sends a line; writers wait for both.  They wait in DashMap,
\* with their OS thread: that the other tasks go on meanwhile, as LogFairness says,
\* takes a runtime with a thread to spare.
LogsFree == \A c \in Followers : phase[c] # "replay"
SubscribersFree == step # "send"

\* The task of this stream is between two messages.
StreamIdle == todo = << >> /\ (broken \/ closing \in {"no", "done"})

ReadBatch ==
    /\ StreamIdle
    /\ wire # << >> /\ Head(wire) # Result
    /\ todo' = Head(wire).lines
    /\ wire' = Tail(wire)
    /\ UNCHANGED << worker, broken, late, step, serving, appended, buffer, subs, closing, followers >>

\* Mutated form of AppendLine: the oldest line goes one line too late.
AppendLineLate ==
    /\ todo # << >> /\ step = "buffer" /\ LogsFree
    /\ buffer' = Append(IF Len(buffer) > LogBufferSize THEN Tail(buffer) ELSE buffer, Head(todo))
    /\ appended' = Append(appended, Head(todo))
    /\ step' = "look"
    /\ UNCHANGED << worker, wire, broken, late, todo, serving, subs, closing, followers >>

\* append_log: the circular buffer first ...
AppendLine ==
    /\ todo # << >> /\ step = "buffer" /\ LogsFree
    /\ buffer' = Append(IF Len(buffer) >= LogBufferSize THEN Tail(buffer) ELSE buffer, Head(todo))
    /\ appended' = Append(appended, Head(todo))
    /\ step' = "look"
    /\ UNCHANGED << worker, wire, broken, late, todo, serving, subs, closing, followers >>

\* ... then the subscribers of that moment ...
LookUpSubscribers ==
    /\ step = "look"
    /\ step' = "send" /\ serving' = subs
    /\ UNCHANGED << worker, wire, broken, late, todo, appended, buffer, subs, closing, followers >>

\* Mutated form of SendLine: try_send, which drops the line for a follower that is behind.
SendLineOrDrop ==
    LET c == Head(serving) IN
    /\ step = "send" /\ serving # << >>
    /\ chan' = IF phase[c] = "dead" \/ Len(chan[c]) >= FollowerCap THEN chan
               ELSE [chan EXCEPT ![c] = Append(@, Head(todo))]
    /\ serving' = Tail(serving)
    /\ UNCHANGED << worker, wire, broken, late, todo, step, appended, buffer, subs, closing,
                    phase, rest, out, got, live >>

\* Mutated form of SendLine: a send to one that is gone waits like any other.
SendLineAwaitsAll ==
    LET c == Head(serving) IN
    /\ step = "send" /\ serving # << >>
    /\ Len(chan[c]) < FollowerCap
    /\ chan' = [chan EXCEPT ![c] = Append(@, Head(todo))]
    /\ serving' = Tail(serving)
    /\ UNCHANGED << worker, wire, broken, late, todo, step, appended, buffer, subs, closing,
                    phase, rest, out, got, live >>

\* ... one after the other, waiting for each; a send to one that is gone fails.
SendLine ==
    LET c == Head(serving) IN
    /\ step = "send" /\ serving # << >>
    /\ \/ phase[c] = "dead" /\ UNCHANGED chan
       \/ /\ phase[c] # "dead" /\ Len(chan[c]) < FollowerCap
          /\ chan' = [chan EXCEPT ![c] = Append(@, Head(todo))]
    /\ serving' = Tail(serving)
    /\ UNCHANGED << worker, wire, broken, late, todo, step, appended, buffer, subs, closing,
                    phase, rest, out, got, live >>

LineDone ==
    /\ step = "send" /\ serving = << >>
    /\ step' = "buffer" /\ todo' = Tail(todo)
    /\ UNCHANGED << worker, wire, broken, late, serving, appended, buffer, subs, closing, followers >>

\* The result, on this stream or on another: finalize_job_log clears what the
\* service keeps of the job.
ReadResult ==
    /\ closing = "no"
    /\ \/ late /\ late' = FALSE /\ UNCHANGED wire
       \/ /\ StreamIdle /\ wire # << >> /\ Head(wire) = Result
          /\ wire' = Tail(wire) /\ UNCHANGED late
    /\ closing' = "logs"
    /\ UNCHANGED << worker, broken, ingest, buffer, subs, followers >>

RemoveLogs ==
    /\ closing = "logs" /\ LogsFree
    /\ buffer' = << >>
    /\ closing' = "subscribers"
    /\ UNCHANGED << worker, wire, broken, late, ingest, subs, followers >>

\* Mutated form of RemoveSubscribers: the subscribers stay.
RemoveSubscribersNot ==
    /\ closing = "subscribers" /\ SubscribersFree
    /\ closing' = "done"
    /\ UNCHANGED << worker, wire, broken, late, ingest, buffer, subs, followers >>

RemoveSubscribers ==
    /\ closing = "subscribers" /\ SubscribersFree
    /\ subs' = << >>
    /\ closing' = "done"
    /\ UNCHANGED << worker, wire, broken, late, ingest, buffer, followers >>

-----------------------------------------------------------------------------
(* Subscriptions.                                                          *)

Move(c, p) == phase' = [phase EXCEPT ![c] = p]

\* subscribe_logs with include_history collects the buffer and sends it to the channel
\* of the answer, which nobody reads before the call returns.
Subscribe(c) ==
    /\ phase[c] = "none"
    /\ IF c \in WithHistory
       THEN Move(c, "history") /\ rest' = [rest EXCEPT ![c] = buffer]
       ELSE Move(c, "enter") /\ UNCHANGED rest
    /\ UNCHANGED << worker, wire, broken, late, ingest, buffer, subs, closing, chan, out, got, live >>

SendHistory(c) ==
    /\ phase[c] = "history"
    /\ \/ /\ rest[c] # << >> /\ Len(out[c]) < FollowerCap
          /\ out' = [out EXCEPT ![c] = Append(@, Head(rest[c]))]
          /\ rest' = [rest EXCEPT ![c] = Tail(@)]
          /\ UNCHANGED phase
       \/ /\ rest[c] = << >>
          /\ Move(c, "enter")
          /\ UNCHANGED << out, rest >>
    /\ UNCHANGED << worker, wire, broken, late, ingest, buffer, subs, closing, chan, got, live >>

\* subscribe reads the buffer under its guard, which it keeps if there is an entry ...
EnterReplay(c) ==
    /\ phase[c] = "enter"
    /\ Move(c, IF buffer = << >> THEN "register" ELSE "replay")
    /\ rest' = [rest EXCEPT ![c] = buffer]
    /\ UNCHANGED << worker, wire, broken, late, ingest, buffer, subs, closing, chan, out, got, live >>

\* ... and sends it to a channel that nobody reads before it returns ...
Replay(c) ==
    /\ phase[c] = "replay"
    /\ \/ /\ rest[c] # << >> /\ Len(chan[c]) < FollowerCap
          /\ chan' = [chan EXCEPT ![c] = Append(@, Head(rest[c]))]
          /\ rest' = [rest EXCEPT ![c] = Tail(@)]
          /\ UNCHANGED phase
       \/ /\ rest[c] = << >>
          /\ Move(c, "register")
          /\ UNCHANGED << chan, rest >>
    /\ UNCHANGED << worker, wire, broken, late, ingest, buffer, subs, closing, out, got, live >>

\* ... before it adds itself to the subscribers and returns.
RegisterFollower(c) ==
    /\ phase[c] = "register" /\ SubscribersFree
    /\ subs' = Append(subs, c)
    /\ Move(c, "open")
    /\ live' = [live EXCEPT ![c] = Len(out[c]) + Len(chan[c])]
    /\ UNCHANGED << worker, wire, broken, late, ingest, buffer, closing, rest, chan, out, got >>

\* The spawned task of subscribe_logs forwards a line to the client's channel.
Forward(c) ==
    /\ phase[c] = "open"
    /\ chan[c] # << >> /\ Len(out[c]) < FollowerCap
    /\ out' = [out EXCEPT ![c] = Append(@, Head(chan[c]))]
    /\ chan' = [chan EXCEPT ![c] = Tail(@)]
    /\ UNCHANGED << worker, wire, broken, late, ingest, buffer, subs, closing, phase, rest, got, live >>

ClientReads(c) ==
    /\ phase[c] = "open" /\ out[c] # << >>
    /\ got' = [got EXCEPT ![c] = Append(@, Head(out[c]))]
    /\ out' = [out EXCEPT ![c] = Tail(@)]
    /\ UNCHANGED << worker, wire, broken, late, ingest, buffer, subs, closing, phase, rest, chan, live >>

\* The client cancels: the call is dropped where it is, or, once it returned, the
\* forwarding task is left without a reader.
Leave(c) ==
    /\ phase[c] \notin {"none", "left", "dead", "ended"}
    /\ Move(c, IF phase[c] = "open" THEN "left" ELSE "dead")
    /\ out' = [out EXCEPT ![c] = << >>]
    /\ chan' = IF phase[c] = "open" THEN chan ELSE [chan EXCEPT ![c] = << >>]
    /\ rest' = [rest EXCEPT ![c] = << >>]
    /\ UNCHANGED << worker, wire, broken, late, ingest, buffer, subs, closing, got, live >>

\* The task notices when it has a line to forward, and drops its receiver.
ForwardFails(c) ==
    /\ phase[c] = "left" /\ chan[c] # << >>
    /\ Move(c, "dead")
    /\ chan' = [chan EXCEPT ![c] = << >>]
    /\ UNCHANGED << worker, wire, broken, late, ingest, buffer, subs, closing, rest, out, got, live >>

\* The sender was removed and every line was read: the client sees the end.
StreamEnds(c) ==
    /\ phase[c] = "open"
    /\ c \notin Lines(subs) /\ c \notin Lines(serving)
    /\ chan[c] = << >> /\ out[c] = << >>
    /\ Move(c, "ended")
    /\ UNCHANGED << worker, wire, broken, late, ingest, buffer, subs, closing, rest, chan, out, got, live >>

-----------------------------------------------------------------------------

ServerLogStep ==
    \/ ReadBatch \/ AppendLine \/ LookUpSubscribers \/ SendLine \/ LineDone
    \/ ReadResult \/ RemoveLogs \/ RemoveSubscribers

FollowerStep(c) == SendHistory(c) \/ EnterReplay(c) \/ Replay(c) \/ RegisterFollower(c)

LogNext ==
    \/ WriteLine \/ FlushTick \/ FlushSends \/ FlushFails \/ OutputEnds \/ FinalFlush
    \/ JobTimesOut \/ Report \/ StreamBreaks
    \/ ServerLogStep
    \/ \E c \in Followers :
         \/ Subscribe(c) \/ FollowerStep(c) \/ Forward(c) \/ ClientReads(c) \/ Leave(c)
         \/ ForwardFails(c) \/ StreamEnds(c)

LogSpec == LogInit /\ [][LogNext]_logVars

\* Tasks are polled and clients that stay read what they are sent.
LogFairness ==
    /\ WF_logVars(ServerLogStep)
    /\ \A c \in Followers :
         /\ WF_logVars(FollowerStep(c))
         /\ WF_logVars(Forward(c)) /\ WF_logVars(ClientReads(c))
         /\ WF_logVars(ForwardFails(c)) /\ WF_logVars(StreamEnds(c))

LogFairSpec == LogSpec /\ LogFairness

-----------------------------------------------------------------------------
(* Properties.                                                             *)

\* Every variable of the job's output holds a value of its type, and batches, the
\* channels and the circular buffer stay within their capacities.
LogTypeOK ==
    /\ written \in 0 .. MaxLines
    /\ output \in Output /\ ticking \in BOOLEAN /\ timedOut \in BOOLEAN
    /\ batch \in Seq(Nat) /\ taken \in Seq(Nat) /\ flushing \in Flusher
    /\ Len(batch) < BatchLines
    /\ wire \in Seq({Result} \cup [type : {"lines"}, lines : Seq(Nat)]) /\ Len(wire) <= WireCap
    /\ broken \in BOOLEAN /\ late \in BOOLEAN
    /\ todo \in Seq(Nat) /\ step \in Step /\ serving \in Seq(Followers)
    /\ buffer \in Seq(Nat) /\ Len(buffer) <= LogBufferSize
    /\ subs \in Seq(Followers)
    /\ closing \in Closing
    /\ phase \in [Followers -> Phase]
    /\ rest \in [Followers -> Seq(Nat)]
    /\ chan \in [Followers -> Seq(Nat)] /\ out \in [Followers -> Seq(Nat)]
    /\ \A c \in Followers : Len(chan[c]) <= FollowerCap /\ Len(out[c]) <= FollowerCap
    /\ got \in [Followers -> Seq(Nat)]
    /\ lost \subseteq Nat /\ appended \in Seq(Nat)
    /\ live \in [Followers -> Nat]

\* append_log sees the lines in the order the command wrote them, each once, although
\* the reader, the flush task and the last flush all send batches, any of which may be
\* dropped, and a flush task that outlives a timeout goes on sending.
LinesInOrder == \A i, k \in 1 .. Len(appended) : i < k => appended[i] < appended[k]

\* On one connection and without a timeout the result comes last: when the server
\* clears the job's logs, every line was stored or given up, and none is on its way that
\* would bring the job's entries back for ever.
ResultComesLast ==
    closing # "no" /\ ~timedOut /\ ~broken =>
        /\ batch = << >> /\ taken = << >> /\ wire = << >> /\ todo = << >>
        /\ Lines(appended) \cup lost = 1 .. written

\* A registered follower misses nothing and sees nothing twice from then on: the lines
\* in its channels and with its client are consecutive lines of the log, up to the line
\* that is being sent, however slow other followers are and whoever leaves.
FollowersMissNothing ==
    \A c \in Followers : phase[c] = "open" =>
        LET all == got[c] \o out[c] \o chan[c]
            since == SubSeq(all, live[c] + 1, Len(all))
            n == Len(since)
            behind == c \in Lines(serving) \/ step = "look"
        IN  \E k \in 0 .. Len(appended) :
              /\ k + n <= Len(appended)
              /\ since = SubSeq(appended, k + 1, k + n)
              /\ c \in Lines(subs) /\ n > 0 => k + n >= Len(appended) - (IF behind THEN 1 ELSE 0)

\* A subscription whose buffer does not fit its channel never returns, and keeps its
\* guard of `logs` for as long as its client waits.
Stuck == \E c \in Followers : phase[c] = "replay" /\ rest[c] # << >> /\ Len(chan[c]) >= FollowerCap

\* Followers that read, leave or die do not hold up the worker's stream: once the result
\* was sent the job's logs are finalized, unless a subscription is stuck in its replay.
LogsAreFinalized == (output = "reported") ~> (closing = "done" \/ Stuck)

\* A follower that was registered in time sees the end of the stream.
FollowersEnd ==
    \A c \in Followers :
        (c \in Lines(subs) /\ closing \in {"logs", "subscribers"})
            ~> (phase[c] \in {"left", "dead", "ended"} \/ Stuck)

-----------------------------------------------------------------------------
(* The inductive invariant behind LinesInOrder and ResultComesLast: what   *)
(* the places a line goes through hold is in order from each to the next,  *)
(* and no line is outside them.                                            *)

Increasing(s) == \A i, k \in 1 .. Len(s) : i < k => s[i] < s[k]
Before(s, t) == \A i \in 1 .. Len(s), k \in 1 .. Len(t) : s[i] < t[k]
Upto(s, n) == \A i \in 1 .. Len(s) : s[i] \in 1 .. n
In(n, s) == \E i \in 1 .. Len(s) : s[i] = n

\* The places: n lines were written, A are stored, U of the batch T are not, K are being
\* flushed, B are in the batcher, and L are the batches on the stream.
Places(n, A, U, T, K, B, L) ==
    /\ n \in Nat /\ A \in Seq(Nat) /\ U \in Seq(Nat) /\ T \in Seq(Nat) /\ K \in Seq(Nat)
    /\ B \in Seq(Nat) /\ L \in Seq(Seq(Nat))

\* No place holds a line that was not written.
Bounded(n, A, T, K, B, L) ==
    /\ Upto(A, n) /\ Upto(T, n) /\ Upto(K, n) /\ Upto(B, n)
    /\ \A m \in 1 .. Len(L) : Upto(L[m], n)

\* Each place is in order ...
Sorted(A, T, K, B, L) ==
    /\ Increasing(A) /\ Increasing(T) /\ Increasing(K) /\ Increasing(B)
    /\ \A m \in 1 .. Len(L) : Increasing(L[m])

\* ... and comes before the places behind it.
Ahead(A, U, T, K, B, L) ==
    /\ Before(A, U) /\ Before(A, K) /\ Before(A, B)
    /\ Before(T, K) /\ Before(T, B) /\ Before(K, B)
    /\ \A m \in 1 .. Len(L) :
         /\ Before(A, L[m]) /\ Before(T, L[m]) /\ Before(L[m], K) /\ Before(L[m], B)
    /\ \A m, k \in 1 .. Len(L) : m < k => Before(L[m], L[k])

Ordered(n, A, U, T, K, B, L) ==
    /\ Places(n, A, U, T, K, B, L)
    /\ Bounded(n, A, T, K, B, L) /\ Sorted(A, T, K, B, L) /\ Ahead(A, U, T, K, B, L)

\* No line is outside the places, but for the lines X that were given up.
Covered(n, X, A, U, K, B, L) ==
    /\ X \subseteq 1 .. n
    /\ \A x \in 1 .. n :
         \/ In(x, A) \/ x \in X \/ In(x, U) \/ In(x, K) \/ In(x, B)
         \/ \E m \in 1 .. Len(L) : In(x, L[m])

LinesOf(msg) == IF msg = Result THEN << >> ELSE msg.lines
WireLines == [m \in 1 .. Len(wire) |-> LinesOf(wire[m])]

\* The lines of the current batch that append_log has not stored.
Unstored == IF step = "buffer" THEN todo ELSE Tail(todo)

\* append_log serves subscribers with a line in hand.
InHand == step # "buffer" => todo # << >>

OrderInv == Ordered(written, appended, Unstored, todo, taken, batch, WireLines)

\* The mutex: who may hold it when.
MutexInv ==
    /\ flushing = "none" => taken = << >>
    /\ flushing = "reader" => output = "run"
    /\ flushing = "final" => output = "drain" /\ batch = << >>
    /\ flushing = "task" => ticking

\* On one connection and without a timeout nothing follows the result.
LastInv ==
    ~timedOut /\ ~broken =>
        /\ output # "run" => ~ticking
        /\ output \in {"end", "reported"} => batch = << >> /\ flushing = "none"
        /\ \A m \in 1 .. Len(wire) : wire[m] = Result => m = Len(wire) /\ output = "reported"
        /\ ~late
        /\ closing # "no" => wire = << >> /\ todo = << >> /\ output = "reported"

CoverInv == ~broken => Covered(written, lost, appended, Unstored, taken, batch, WireLines)

LogInv == LogTypeOK /\ InHand /\ OrderInv /\ MutexInv /\ LastInv /\ CoverInv

-----------------------------------------------------------------------------
(* The inductive invariant behind FollowersMissNothing.                    *)

\* The lines with the client of c and on their way to it.
AllLines(c) == got[c] \o out[c] \o chan[c]

\* The line in hand is stored and still has to be sent to c.
Owed(c) == IF c \in Lines(serving) \/ step = "look" THEN 1 ELSE 0

\* The n lines c had since it was registered are those stored after the first a.
Has(c, a, n) ==
    /\ Len(AllLines(c)) = live[c] + n
    /\ a + n <= Len(appended)
    /\ \A i \in 1 .. n : AllLines(c)[live[c] + i] = appended[a + i]
    /\ c \in Lines(subs) /\ n > 0 => a + n + Owed(c) = Len(appended)

Distinct(s) == \A i, k \in 1 .. Len(s) : s[i] = s[k] => i = k

\* Nobody is registered or served twice; only the subscribers of the moment are
\* served; and a client reads nothing before it is registered.
ServingInv ==
    /\ Distinct(subs) /\ Distinct(serving)
    /\ Lines(serving) \subseteq Lines(subs)
    /\ step # "send" => serving = << >>
    /\ \A c \in Followers : phase[c] \in {"none", "history", "enter", "replay", "register"} =>
           c \notin Lines(subs) /\ got[c] = << >>

\* The line in hand is the last one stored.
HandInv == step # "buffer" => appended # << >> /\ Head(todo) = appended[Len(appended)]

FollowInv ==
    /\ ServingInv
    /\ HandInv
    /\ \A c \in Followers : phase[c] = "open" => \E a, n \in Nat : Has(c, a, n)
=============================================================================
