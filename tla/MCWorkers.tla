------------------------------ MODULE MCWorkers ------------------------------
(* The workers for TLC: the life of a worker as the server sees it, and the   *)
(* worker process with its streams.  The two share no variable, so that a     *)
(* behaviour exercises one of them while the other stays as it is.  No        *)
(* operation of WorkerLifecycle relates two workers: a behaviour follows one  *)
(* worker, the focus, and the others are never provisioned.  The worker       *)
(* process is explored twice: with one job through several faults, and with   *)
(* two jobs at a time through one.                                            *)
EXTENDS WorkerLifecycle, WorkerStream

CONSTANTS
    Parts,      \* what this run explores: "life", "stream", "pair"
    pod,        \* a worker of the dispatcher, as the Kubernetes provider makes it
    listedPod,  \* one that a saga may destroy and whose provider can list it
    container,  \* one whose handle names no container, as Docker's do
    j1, j2      \* jobs of the worker process

VARIABLES part, focus

WorkersInit ==
    /\ part \in Parts
    /\ focus \in IF part = "life" THEN Workers ELSE {pod}
    /\ LifeInit /\ StreamInit

WorkersNext ==
    /\ \/ /\ part = "life"
          /\ LifeNext
          /\ \A w \in Workers \ {focus} : box'[w] = "none"
          /\ UNCHANGED streamVars
       \/ part = "stream" /\ StreamNext /\ sent' \subseteq {j1} /\ UNCHANGED lifeVars
       \/ part = "pair" /\ StreamNext /\ sFaults' <= 1 /\ UNCHANGED lifeVars
    /\ UNCHANGED << part, focus >>

\* The fairness of LifeFairness and StreamFairness, each where its component runs
\* and for the worker that moves.
WorkersSpec ==
    /\ WorkersInit
    /\ [][WorkersNext]_<< part, focus, lifeVars, streamVars >>
    /\ WF_lifeVars(part = "life" /\ ServerStep(focus))
    /\ WF_lifeVars(part = "life" /\ CleanupScans(focus))
    /\ WF_lifeVars(part = "life" /\ (HealthScans(focus) \/ HealthMarks(focus)))
    /\ WF_lifeVars(part = "life" /\ (SweepLists(focus) \/ SweepCompares(focus) \/ SweepDestroys(focus)))
    /\ WF_lifeVars(part = "life" /\ HeartbeatAges(focus))
    /\ \A c \in Answering : WF_lifeVars(part = "life" /\ CleanStep(c, focus))
    /\ WF_streamVars(part # "life" /\ Register)
    /\ WF_streamVars(part # "life" /\ OpenStream)
    /\ WF_streamVars(part # "life" /\ SendHeartbeat)
    /\ WF_streamVars(part # "life" /\ SendResult)
    /\ WF_streamVars(part # "life" /\ (InsertHandle \/ NoticeBreak))
    /\ \A j \in SJobs :
         WF_streamVars(part # "life" /\ (ReceiveRunJob(j) \/ JobEnds(j) \/ JobReports(j)))
    /\ \A s \in Streams : WF_streamVars(part # "life" /\ (ServerReads(s) \/ ServerEnds(s)))
=============================================================================
