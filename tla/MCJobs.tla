------------------------------- MODULE MCJobs -------------------------------
(* A job for TLC: its handlers one at a time, and its logs.  The two share no *)
(* variable, so that a behaviour exercises one of them while the other stays  *)
(* as it is.  In the logs either one follower subscribes, with timeouts and   *)
(* broken connections, or two do, without.                                    *)
EXTENDS JobExecution, JobLogs

CONSTANTS
    Parts,           \* the components this run explores
    j1, w1, t1, d1,  \* job, worker, handler, dispatcher
    f1, f2,          \* followers of the logs, f2 with history
    PairLines        \* bound: lines where two followers subscribe

VARIABLES part, active

JobsInit ==
    /\ part \in Parts
    /\ active \in IF part = "logs" THEN {{f2}, {f1, f2}} ELSE {{}}
    /\ Init /\ LogInit

LogFocus ==
    /\ \A c \in Followers \ active : phase'[c] = "none"
    /\ active = Followers => ~timedOut' /\ ~broken' /\ written' <= PairLines

JobsNext ==
    /\ UNCHANGED << part, active >>
    /\ \/ part = "handlers" /\ CheckedNext /\ UNCHANGED logVars
       \/ part = "logs" /\ LogNext /\ LogFocus /\ UNCHANGED vars

\* The fairness of LogFairSpec, for the followers that subscribe.
JobsSpec ==
    /\ JobsInit
    /\ [][JobsNext]_<< part, active, vars, logVars >>
    /\ WF_logVars(part = "logs" /\ ServerLogStep)
    /\ \A c \in Followers :
         /\ WF_logVars(c \in active /\ FollowerStep(c))
         /\ WF_logVars(c \in active /\ (Forward(c) \/ ForwardFails(c)))
         /\ WF_logVars(c \in active /\ (ClientReads(c) \/ StreamEnds(c)))
=============================================================================
