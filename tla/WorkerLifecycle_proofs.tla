------------------------ MODULE WorkerLifecycle_proofs ------------------------
(***************************************************************************)
(* LifeTypeOK and ForgottenIsDestroyed for any set of workers, whatever    *)
(* loops run and however many faults there are.                            *)
(***************************************************************************)
EXTENDS WorkerLifecycle, TLAPS

RowTypes ==
    /\ wState \in [Workers -> WRow]
    /\ wJob \in [Workers -> BOOLEAN]
    /\ wAge \in [Workers -> WAge]
    /\ wOld \in [Workers -> BOOLEAN]

JobTypes ==
    /\ dispatch \in [Workers -> Dispatch]
    /\ ended \in [Workers -> BOOLEAN]
    /\ result \in [Workers -> Result]
    /\ statusEvent \in [Workers -> BOOLEAN]
    /\ notice \in [Workers -> BOOLEAN]

AgentTypes ==
    /\ box \in [Workers -> Box]
    /\ join \in [Workers -> Join]
    /\ running \in [Workers -> BOOLEAN]
    /\ infra \in [Workers -> Seq(Infra)]

TaskTypes ==
    /\ clean \in [Cleaners -> [Workers -> Clean]]
    /\ excused \in [Workers -> BOOLEAN]
    /\ overdue \in [Workers -> BOOLEAN]
    /\ sweep \in [Workers -> Sweep]

\* A row belongs to a registered worker; a worker that registers, and one that
\* is being cleaned up, has or had a container.
RowsFit ==
    \A w \in Workers :
        /\ HasRow(w) => box[w] # "none" /\ join[w] \in {"ready", "in"}
        /\ wJob[w] => HasRow(w)
        /\ join[w] # "no" => box[w] # "none"
        /\ \A c \in Cleaners : clean[c][w] # "idle" => box[w] # "none"

\* A cleaner of the manager that is about to delete the row has destroyed the
\* container.
DeletionIsDue ==
    \A c \in Answering, w \in Workers : clean[c][w] = "unregister" => box[w] = "gone"

\* The inductive invariant.
LifeInv ==
    /\ RowTypes
    /\ JobTypes
    /\ AgentTypes
    /\ TaskTypes
    /\ lifeFaults \in Nat
    /\ RowsFit
    /\ DeletionIsDue
    /\ ForgottenIsDestroyed

\* What LifeInv says of rows, seen from the rest: no row appears or goes.
RowsStay ==
    /\ RowTypes'
    /\ \A w \in Workers : /\ HasRow(w)' <=> HasRow(w)
                          /\ wJob'[w] => wJob[w] \/ HasRow(w)

USE DEF HasRow

\* Every UPDATE of the registry leaves the set of rows as it is.
LEMMA UpdatesStay ==
    ASSUME RowTypes, NEW w \in Workers, NEW s \in WRow \ {"Absent"},
           UNCHANGED rows \/ UpdateState(w, s) \/ AssignToJob(w) \/ Unassign(w)
    PROVE  RowsStay
  BY DEF RowsStay, RowTypes, UpdateState, AssignToJob, Unassign, rows, WRow

LEMMA ReleaseStays ==
    ASSUME RowTypes, NEW w \in Workers, ReleaseFromJob(w)
    PROVE  RowsStay
  BY DEF RowsStay, RowTypes, ReleaseFromJob, WRow

LEMMA FaultsType ==
    ASSUME lifeFaults \in Nat, LifeFine \/ LifeFault
    PROVE  lifeFaults' \in Nat
  BY LifeAssumption DEF LifeFine, LifeFault

\* Steps that leave containers, registrations and clean-ups alone.
LEMMA QuietSteps ==
    ASSUME LifeInv, RowsStay, UNCHANGED << box, join, clean, excused >>,
           JobTypes', AgentTypes', TaskTypes', lifeFaults' \in Nat
    PROVE  LifeInv'
  <1>1. RowsFit'
    BY DEF LifeInv, RowsFit, RowsStay
  <1>2. DeletionIsDue' /\ ForgottenIsDestroyed'
    BY DEF LifeInv, DeletionIsDue, ForgottenIsDestroyed, RowsStay
  <1> QED BY <1>1, <1>2 DEF LifeInv, RowsStay

\* The types of the parts a step does not name.
LEMMA PartsStay ==
    ASSUME LifeInv
    PROVE  /\ UNCHANGED rows => RowsStay
           /\ UNCHANGED job => JobTypes'
           /\ UNCHANGED << box, agents, infra >> => AgentTypes'
           /\ UNCHANGED tasks => TaskTypes'
           /\ UNCHANGED lifeFaults => lifeFaults' \in Nat
           /\ LifeFine \/ LifeFault => lifeFaults' \in Nat
  <1>1. UNCHANGED rows => RowsStay
    BY DEF LifeInv, rows, RowsStay, RowTypes
  <1>2. UNCHANGED job => JobTypes'
    BY DEF LifeInv, job, JobTypes
  <1>3. UNCHANGED << box, agents, infra >> => AgentTypes'
    BY DEF LifeInv, agents, AgentTypes
  <1>4. UNCHANGED tasks => TaskTypes'
    BY DEF LifeInv, tasks, TaskTypes
  <1> QED BY <1>1, <1>2, <1>3, <1>4, FaultsType DEF LifeInv

-----------------------------------------------------------------------------
(* Time, heartbeats and requests.                                          *)

LEMMA TimeSteps ==
    ASSUME LifeInv, NEW w \in Workers, HeartbeatAges(w) \/ LifetimePasses(w) \/ Heartbeat(w)
    PROVE  LifeInv'
  <1>1. UNCHANGED << box, agents, job, infra, tasks, lifeFaults >>
    BY DEF HeartbeatAges, LifetimePasses, Heartbeat
  <1>2. RowsStay
    BY DEF LifeInv, RowTypes, RowsStay, HeartbeatAges, LifetimePasses, Heartbeat, WRow, WAge
  <1> QED BY <1>1, <1>2, PartsStay, QuietSteps DEF agents, tasks

LEMMA GrpcAssignStep ==
    ASSUME LifeInv, NEW w \in Workers, GrpcAssign(w)
    PROVE  LifeInv'
  <1>1. RowsStay
    BY UpdatesStay DEF LifeInv, GrpcAssign, WRow
  <1> QED BY <1>1, PartsStay, QuietSteps DEF GrpcAssign, agents, tasks

LEMMA InfraEventStep ==
    ASSUME LifeInv, NEW w \in Workers, InfraEvent(w)
    PROVE  LifeInv'
  <1>1. RowsStay
    BY UpdatesStay DEF LifeInv, InfraEvent, WRow
  <1>2. AgentTypes'
    BY DEF LifeInv, InfraEvent, AgentTypes, agents
  <1> QED BY <1>1, <1>2, PartsStay, QuietSteps DEF InfraEvent, agents, tasks

-----------------------------------------------------------------------------
(* The job.                                                                *)

LEMMA DispatchSteps ==
    ASSUME LifeInv, NEW w \in Workers,
           DispatchReads(w) \/ DispatchAssigns(w) \/ DispatchSends(w) \/ DispatchCompletes(w)
    PROVE  LifeInv'
  <1>1. RowsStay
    <2>1. CASE DispatchReads(w)
      BY <2>1, PartsStay DEF DispatchReads
    <2>2. CASE DispatchAssigns(w)
      BY <2>2, UpdatesStay DEF LifeInv, DispatchAssigns, WRow
    <2>3. CASE DispatchSends(w)
      BY <2>3, UpdatesStay DEF LifeInv, DispatchSends, WRow
    <2>4. CASE DispatchCompletes(w)
      BY <2>4, UpdatesStay DEF LifeInv, DispatchCompletes, WRow
    <2> QED BY <2>1, <2>2, <2>3, <2>4
  <1>2. UNCHANGED << box, join, infra, tasks >> /\ (LifeFine \/ LifeFault)
    BY DEF DispatchReads, DispatchAssigns, DispatchSends, DispatchCompletes, agents
  <1>3. JobTypes'
    BY DEF LifeInv, JobTypes, Dispatch, DispatchTo,
           DispatchReads, DispatchAssigns, DispatchSends, DispatchCompletes
  <1>4. AgentTypes'
    BY DEF LifeInv, AgentTypes, agents,
           DispatchReads, DispatchAssigns, DispatchSends, DispatchCompletes
  <1> QED BY <1>1, <1>2, <1>3, <1>4, PartsStay, QuietSteps DEF tasks

LEMMA ResultSteps ==
    ASSUME LifeInv, NEW w \in Workers,
           OnJobResult(w) \/ ResultAnnounces(w) \/ ResultReleases(w) \/ Coordinate(w)
    PROVE  LifeInv'
  <1>1. RowsStay
    <2>1. CASE ResultReleases(w)
      BY <2>1, PartsStay, ReleaseStays DEF LifeInv, ResultReleases
    <2>2. CASE OnJobResult(w) \/ ResultAnnounces(w) \/ Coordinate(w)
      BY <2>2, PartsStay DEF OnJobResult, ResultAnnounces, Coordinate
    <2> QED BY <2>1, <2>2
  <1>2. UNCHANGED << box, join, infra, tasks >> /\ (LifeFine \/ LifeFault)
    BY DEF OnJobResult, ResultAnnounces, ResultReleases, Coordinate, agents
  <1>3. JobTypes'
    BY DEF LifeInv, JobTypes, Result, OnJobResult, ResultAnnounces, ResultReleases, Coordinate
  <1>4. AgentTypes'
    BY DEF LifeInv, AgentTypes, agents,
           OnJobResult, ResultAnnounces, ResultReleases, Coordinate
  <1> QED BY <1>1, <1>2, <1>3, <1>4, PartsStay, QuietSteps DEF tasks

-----------------------------------------------------------------------------
(* Health and the orphan scan's reads.                                     *)

LEMMA ScanSteps ==
    ASSUME LifeInv, NEW w \in Workers,
           HealthScans(w) \/ HealthMarks(w) \/ SweepLists(w) \/ SweepCompares(w)
    PROVE  LifeInv'
  <1>1. RowsStay
    BY PartsStay, UpdatesStay
       DEF LifeInv, HealthScans, HealthMarks, SweepLists, SweepCompares, WRow
  <1>2. UNCHANGED << box, agents, infra, job, clean, excused >>
    BY DEF HealthScans, HealthMarks, SweepLists, SweepCompares
  <1>3. lifeFaults' \in Nat
    BY PartsStay DEF HealthScans, HealthMarks, SweepLists, SweepCompares
  <1>4. TaskTypes'
    BY DEF LifeInv, TaskTypes, Sweep, SweepTo,
           HealthScans, HealthMarks, SweepLists, SweepCompares
  <1> QED BY <1>1, <1>2, <1>3, <1>4, PartsStay, QuietSteps DEF agents

-----------------------------------------------------------------------------
(* The container and the registration.                                     *)

LEMMA StartedStopped ==
    ASSUME LifeInv, NEW w \in Workers
    PROVE  Append(infra[w], "started") \in Seq(Infra) /\ Append(infra[w], "stopped") \in Seq(Infra)
  BY DEF LifeInv, AgentTypes, Infra

LEMMA ContainerSteps ==
    ASSUME LifeInv, NEW w \in Workers, ProvisionWorker(w) \/ ContainerExits(w)
    PROVE  LifeInv'
  <1>1. UNCHANGED << rows, join, job, tasks, lifeFaults >>
    BY DEF ProvisionWorker, ContainerExits, agents
  <1>2. AgentTypes'
    <2>1. CASE ProvisionWorker(w)
      BY <2>1, StartedStopped DEF LifeInv, AgentTypes, Box, ProvisionWorker, agents
    <2>2. CASE ContainerExits(w)
      BY <2>2, StartedStopped DEF LifeInv, AgentTypes, Box, ContainerExits
    <2> QED BY <2>1, <2>2
  <1>3. \A v \in Workers : /\ box[v] # "none" => box'[v] # "none"
                           /\ box[v] = "gone" => box'[v] = "gone"
    BY DEF LifeInv, AgentTypes, ProvisionWorker, ContainerExits
  <1>4. RowsFit'
    BY <1>1, <1>3 DEF LifeInv, RowsFit, rows, tasks
  <1>5. DeletionIsDue' /\ ForgottenIsDestroyed'
    BY <1>1, <1>3 DEF LifeInv, DeletionIsDue, ForgottenIsDestroyed, rows, tasks
  <1> QED BY <1>1, <1>2, <1>4, <1>5, PartsStay DEF LifeInv, RowsStay

LEMMA RegisterArrivesStep ==
    ASSUME LifeInv, NEW w \in Workers, RegisterArrives(w)
    PROVE  LifeInv'
  <1>1. AgentTypes'
    BY DEF LifeInv, AgentTypes, Join, RegisterArrives
  <1>2. RowsFit'
    BY DEF LifeInv, AgentTypes, RowsFit, RegisterArrives, rows, tasks
  <1>3. DeletionIsDue' /\ ForgottenIsDestroyed'
    BY DEF LifeInv, AgentTypes, DeletionIsDue, ForgottenIsDestroyed, RegisterArrives, rows, tasks
  <1> QED BY <1>1, <1>2, <1>3, PartsStay DEF LifeInv, RowsStay, RegisterArrives

LEMMA RegisterInsertsStep ==
    ASSUME LifeInv, NEW w \in Workers, RegisterInserts(w)
    PROVE  LifeInv'
  <1>1. UNCHANGED << box, running, job, infra, tasks >> /\ lifeFaults' \in Nat
    BY PartsStay DEF RegisterInserts
  <1>2. AgentTypes'
    BY DEF LifeInv, AgentTypes, Join, RegisterInserts
  <1>3. RowTypes'
    BY DEF LifeInv, RowTypes, RegisterInserts, RegisterRow, rows, WRow
  <1>4. RowsFit'
    <2>1. CASE RegisterRow(w) /\ join' = [join EXCEPT ![w] = "ready"]
      BY <1>1, <2>1 DEF LifeInv, RowTypes, AgentTypes, RowsFit, RegisterInserts, RegisterRow, tasks
    <2>2. CASE UNCHANGED rows /\ join' = [join EXCEPT ![w] = "failed"]
      BY <1>1, <2>2 DEF LifeInv, RowTypes, AgentTypes, RowsFit, RegisterInserts, rows, tasks
    <2> QED BY <2>1, <2>2 DEF RegisterInserts
  <1>5. ForgottenIsDestroyed'
    <2>1. CASE RegisterRow(w) /\ join' = [join EXCEPT ![w] = "ready"]
      BY <1>1, <2>1 DEF LifeInv, RowTypes, AgentTypes, ForgottenIsDestroyed, RegisterRow, tasks
    <2>2. CASE UNCHANGED rows /\ join' = [join EXCEPT ![w] = "failed"]
      BY <1>1, <2>2 DEF LifeInv, RowTypes, AgentTypes, ForgottenIsDestroyed, rows, tasks
    <2> QED BY <2>1, <2>2 DEF RegisterInserts
  <1>6. DeletionIsDue'
    BY <1>1 DEF LifeInv, DeletionIsDue, tasks
  <1> QED BY <1>1, <1>2, <1>3, <1>4, <1>5, <1>6, PartsStay DEF LifeInv

LEMMA RegisterSetsReadyStep ==
    ASSUME LifeInv, NEW w \in Workers, RegisterSetsReady(w)
    PROVE  LifeInv'
  <1>1. UNCHANGED << box, running, job, infra, tasks >> /\ lifeFaults' \in Nat
    BY PartsStay DEF RegisterSetsReady
  <1>2. AgentTypes' /\ RowsStay
    BY UpdatesStay DEF LifeInv, AgentTypes, Join, RegisterSetsReady, WRow
  <1>3. \A v \in Workers : /\ join'[v] \in {"ready", "in"} <=> join[v] \in {"ready", "in"}
                           /\ join'[v] # "no" => join[v] # "no"
    BY DEF LifeInv, AgentTypes, RegisterSetsReady
  <1>4. RowsFit'
    BY <1>1, <1>2, <1>3 DEF LifeInv, RowsFit, RowsStay, tasks
  <1>5. DeletionIsDue' /\ ForgottenIsDestroyed'
    BY <1>1, <1>2, <1>3 DEF LifeInv, DeletionIsDue, ForgottenIsDestroyed, RowsStay, tasks
  <1> QED BY <1>1, <1>2, <1>4, <1>5, PartsStay DEF LifeInv, RowsStay

-----------------------------------------------------------------------------
(* Clean-up.                                                               *)

\* A clean-up that starts, or takes a step that does not reach the deletion.
LEMMA CleanMoves ==
    ASSUME LifeInv, NEW c \in Cleaners, NEW w \in Workers, NEW pc \in Clean,
           pc = "unregister" => c \notin Answering,
           CleanTo(c, w, pc) \/ UNCHANGED clean, box[w] # "none",
           RowsStay, UNCHANGED << box, agents, infra, overdue, sweep >>,
           UNCHANGED excused, JobTypes', lifeFaults' \in Nat
    PROVE  LifeInv'
  <1>1. TaskTypes'
    BY DEF LifeInv, TaskTypes, CleanTo
  <1>2. \A d \in Cleaners, v \in Workers :
            \/ clean'[d][v] = clean[d][v]
            \/ v = w /\ (d \in Answering => clean'[d][v] # "unregister")
    BY DEF LifeInv, TaskTypes, CleanTo
  <1>3. RowsFit'
    BY <1>2 DEF LifeInv, RowsFit, RowsStay, agents
  <1>4. DeletionIsDue' /\ ForgottenIsDestroyed'
    BY <1>2 DEF LifeInv, DeletionIsDue, ForgottenIsDestroyed, RowsStay, agents, Cleaners,
                Answering
  <1> QED BY <1>1, <1>3, <1>4, PartsStay DEF LifeInv, RowsStay

LEMMA StartSteps ==
    ASSUME LifeInv, NEW w \in Workers,
           CleanupScans(w) \/ SagaDestroys(w) \/ ServiceTerminates(w) \/ MonitorTakes(w)
    PROVE  LifeInv'
  <1>1. "gc" \in Cleaners /\ "event" \in Cleaners /\ "saga" \in Cleaners /\ "service" \in Cleaners
    BY DEF Cleaners
  <1>2. StartOf(w) \in Clean \ {"unregister"} /\ {"mark", "destroy"} \subseteq Clean
    BY DEF StartOf, Clean
  <1>3. UNCHANGED << rows, box, agents, infra, excused, overdue, sweep >> /\ lifeFaults' \in Nat
    BY PartsStay DEF CleanupScans, SagaDestroys, ServiceTerminates, MonitorTakes
  <1>4. JobTypes'
    BY DEF LifeInv, JobTypes, job, CleanupScans, SagaDestroys, ServiceTerminates, MonitorTakes
  <1>6. HasRow(w) => box[w] # "none"
    BY DEF LifeInv, RowsFit
  <1>7. CASE CleanupScans(w)
    BY <1>1, <1>2, <1>3, <1>4, <1>6, <1>7, PartsStay, CleanMoves DEF CleanupScans
  <1>8. CASE SagaDestroys(w)
    BY <1>1, <1>2, <1>3, <1>4, <1>6, <1>8, PartsStay, CleanMoves DEF SagaDestroys
  <1>9. CASE ServiceTerminates(w)
    BY <1>1, <1>2, <1>3, <1>4, <1>6, <1>9, PartsStay, CleanMoves DEF ServiceTerminates
  <1>10. CASE MonitorTakes(w)
    <2>1. CASE HasRow(w) /\ CleanTo("event", w, StartOf(w))
      BY <1>1, <1>2, <1>3, <1>4, <1>6, <2>1, PartsStay, CleanMoves
    <2>2. CASE UNCHANGED clean
      BY <1>3, <1>4, <2>2, PartsStay, QuietSteps DEF agents, tasks
    <2> QED BY <1>10, <2>1, <2>2 DEF MonitorTakes
  <1> QED BY <1>7, <1>8, <1>9, <1>10

LEMMA CleanMarksStep ==
    ASSUME LifeInv, NEW c \in Cleaners, NEW w \in Workers, CleanMarks(c, w)
    PROVE  LifeInv'
  <1>1. UNCHANGED << box, agents, job, infra, excused, overdue, sweep >> /\ lifeFaults' \in Nat
    BY PartsStay DEF CleanMarks
  <1>2. RowsStay
    BY UpdatesStay DEF LifeInv, CleanMarks, WRow
  <1>3. box[w] # "none"
    BY DEF LifeInv, RowsFit, CleanMarks
  <1>4. PICK pc \in Clean \ {"unregister"} : CleanTo(c, w, pc)
    BY DEF CleanMarks, Clean
  <1> QED BY <1>1, <1>2, <1>3, <1>4, PartsStay, CleanMoves

LEMMA ServiceAnnouncesStep ==
    ASSUME LifeInv, NEW w \in Workers, ServiceAnnounces(w)
    PROVE  LifeInv'
  <1>1. /\ UNCHANGED << rows, box, agents, infra, excused, overdue, sweep >>
        /\ lifeFaults' \in Nat
    BY PartsStay DEF ServiceAnnounces
  <1>2. JobTypes'
    BY DEF LifeInv, JobTypes, ServiceAnnounces
  <1>3. "service" \in Cleaners /\ "service" \notin Answering
    BY DEF Cleaners, Answering
  <1>4. box[w] # "none"
    BY <1>3 DEF LifeInv, RowsFit, ServiceAnnounces
  <1>5. PICK pc \in Clean : CleanTo("service", w, pc)
    BY DEF ServiceAnnounces, Clean
  <1> QED BY <1>1, <1>2, <1>3, <1>4, <1>5, PartsStay, CleanMoves

\* ContainerGoes: the container is gone, all others are as they were.
LEMMA Goes ==
    ASSUME LifeInv, NEW w \in Workers, ContainerGoes(w), UNCHANGED join
    PROVE  /\ AgentTypes'
           /\ box[w] # "none" => box'[w] = "gone"
           /\ \A v \in Workers : /\ box[v] # "none" => box'[v] # "none"
                                 /\ box[v] = "gone" => box'[v] = "gone"
  BY StartedStopped DEF LifeInv, AgentTypes, Box, ContainerGoes

LEMMA CleanDestroysStep ==
    ASSUME LifeInv, NEW c \in Cleaners, NEW w \in Workers, CleanDestroys(c, w)
    PROVE  LifeInv'
  <1>1. UNCHANGED << rows, join, job, excused, overdue, sweep >> /\ lifeFaults' \in Nat
    BY PartsStay DEF CleanDestroys
  <1>2. box[w] # "none"
    BY DEF LifeInv, RowsFit, CleanDestroys
  <1>3. /\ AgentTypes'
        /\ \A v \in Workers : /\ box[v] # "none" => box'[v] # "none"
                              /\ box[v] = "gone" => box'[v] = "gone"
        /\ \/ CleanTo(c, w, "unregister") /\ (c \in Answering => box'[w] = "gone")
           \/ CleanTo(c, w, "idle")
    <2>1. CASE ContainerGoes(w) /\ CleanTo(c, w, "unregister")
      BY <1>1, <1>2, <2>1, Goes
    <2>2. CASE /\ CleanTo(c, w, IF c = "saga" THEN "unregister" ELSE "idle")
               /\ UNCHANGED << box, running, infra >>
      BY <1>1, <2>2, PartsStay DEF agents, Answering
    <2> QED BY <2>1, <2>2 DEF CleanDestroys
  <1>4. TaskTypes'
    BY <1>1, <1>3 DEF LifeInv, TaskTypes, CleanTo, Clean
  <1>5. \A d \in Cleaners, v \in Workers :
            \/ clean'[d][v] = clean[d][v]
            \/ v = w /\ (d \in Answering /\ clean'[d][v] = "unregister" => box'[w] = "gone")
    BY <1>3 DEF LifeInv, TaskTypes, CleanTo
  <1>6. RowsFit'
    BY <1>1, <1>2, <1>3, <1>5 DEF LifeInv, RowsFit, rows
  <1>7. DeletionIsDue' /\ ForgottenIsDestroyed'
    BY <1>1, <1>3, <1>5 DEF LifeInv, DeletionIsDue, ForgottenIsDestroyed, rows, Cleaners,
                            Answering
  <1> QED BY <1>1, <1>3, <1>4, <1>6, <1>7, PartsStay DEF LifeInv, RowsStay

\* A row is deleted, and the others stay.
LEMMA RowGoes ==
    ASSUME LifeInv, NEW w \in Workers, UnregisterRow(w) \/ UNCHANGED rows
    PROVE  RowTypes' /\ \A v \in Workers : /\ HasRow(v)' => HasRow(v)
                                           /\ wJob'[v] => wJob[v] /\ HasRow(v)'
                                           /\ v # w => (HasRow(v) => HasRow(v)')
  <1>1. CASE UnregisterRow(w)
    BY <1>1 DEF LifeInv, RowTypes, RowsFit, UnregisterRow, WRow, WAge
  <1>2. CASE UNCHANGED rows
    BY <1>2 DEF LifeInv, RowTypes, RowsFit, rows
  <1> QED BY <1>1, <1>2

LEMMA CleanUnregistersStep ==
    ASSUME LifeInv, NEW c \in Cleaners, NEW w \in Workers, CleanUnregisters(c, w)
    PROVE  LifeInv'
  <1>1. UNCHANGED << box, agents, infra, overdue, sweep >> /\ lifeFaults' \in Nat
    BY PartsStay DEF CleanUnregisters
  <1>2. JobTypes'
    BY DEF LifeInv, JobTypes, CleanUnregisters
  <1>3. TaskTypes'
    BY DEF LifeInv, TaskTypes, CleanUnregisters, CleanTo, Clean, Excuse
  <1>4. RowTypes' /\ \A v \in Workers : /\ HasRow(v)' => HasRow(v)
                                        /\ wJob'[v] => wJob[v] /\ HasRow(v)'
                                        /\ v # w => (HasRow(v) => HasRow(v)')
    BY RowGoes DEF CleanUnregisters
  <1>5. \A d \in Cleaners, v \in Workers : clean'[d][v] = clean[d][v] \/ clean'[d][v] = "idle"
    BY DEF LifeInv, TaskTypes, CleanUnregisters, CleanTo
  <1>6. RowsFit'
    BY <1>1, <1>4, <1>5 DEF LifeInv, RowsFit, agents
  <1>7. DeletionIsDue'
    BY <1>1, <1>5 DEF LifeInv, DeletionIsDue, Cleaners, Answering
  <1>8. ForgottenIsDestroyed'
    <2>1. /\ \A v \in Workers : excused[v] => excused'[v]
          /\ HasRow(w)' \/ ~ HasRow(w) \/ c \in Answering \/ excused'[w]
      BY DEF LifeInv, TaskTypes, CleanUnregisters, Excuse, rows, Answering
    <2>2. c \in Answering => box[w] = "gone"
      BY DEF LifeInv, DeletionIsDue, CleanUnregisters
    <2> QED
      BY <1>1, <1>4, <2>1, <2>2 DEF LifeInv, ForgottenIsDestroyed, agents
  <1> QED BY <1>1, <1>2, <1>3, <1>4, <1>6, <1>7, <1>8, PartsStay DEF LifeInv

LEMMA UnregisterOnlyStep ==
    ASSUME LifeInv, NEW w \in Workers, UnregisterOnly(w)
    PROVE  LifeInv'
  <1>1. UNCHANGED << box, agents, job, infra, clean, overdue, sweep, lifeFaults >>
    BY DEF UnregisterOnly
  <1>2. TaskTypes' /\ excused'[w] /\ \A v \in Workers : excused[v] => excused'[v]
    BY DEF LifeInv, TaskTypes, UnregisterOnly, Excuse
  <1>3. RowTypes' /\ \A v \in Workers : /\ HasRow(v)' => HasRow(v)
                                        /\ wJob'[v] => wJob[v] /\ HasRow(v)'
                                        /\ v # w => (HasRow(v) => HasRow(v)')
    BY RowGoes DEF UnregisterOnly
  <1>4. RowsFit'
    BY <1>1, <1>3 DEF LifeInv, RowsFit, agents
  <1>5. DeletionIsDue' /\ ForgottenIsDestroyed'
    BY <1>1, <1>2, <1>3 DEF LifeInv, DeletionIsDue, ForgottenIsDestroyed, agents
  <1> QED BY <1>1, <1>2, <1>3, <1>4, <1>5, PartsStay DEF LifeInv

LEMMA SweepDestroysStep ==
    ASSUME LifeInv, NEW w \in Workers, SweepDestroys(w)
    PROVE  LifeInv'
  <1>1. UNCHANGED << rows, join, job, clean, excused, overdue >> /\ lifeFaults' \in Nat
    BY PartsStay DEF SweepDestroys
  <1>2. AgentTypes' /\ \A v \in Workers : /\ box[v] # "none" => box'[v] # "none"
                                          /\ box[v] = "gone" => box'[v] = "gone"
    <2>1. CASE ContainerGoes(w)
      BY <1>1, <2>1, Goes
    <2>2. CASE UNCHANGED << box, running, infra >>
      BY <1>1, <2>2, PartsStay DEF agents
    <2> QED BY <2>1, <2>2 DEF SweepDestroys
  <1>3. TaskTypes'
    BY <1>1 DEF LifeInv, TaskTypes, SweepDestroys, SweepTo, Sweep
  <1>4. RowsFit'
    BY <1>1, <1>2 DEF LifeInv, RowsFit, rows
  <1>5. DeletionIsDue' /\ ForgottenIsDestroyed'
    BY <1>1, <1>2 DEF LifeInv, DeletionIsDue, ForgottenIsDestroyed, rows
  <1> QED BY <1>1, <1>2, <1>3, <1>4, <1>5, PartsStay DEF LifeInv, RowsStay

LEMMA ServerRestartsStep ==
    ASSUME LifeInv, ServerRestarts
    PROVE  LifeInv'
  <1>1. UNCHANGED << rows, box, running, ended, excused >> /\ lifeFaults' \in Nat
    BY PartsStay DEF ServerRestarts
  <1>2. \A v \in Workers : /\ join'[v] \in Join
                           /\ join'[v] \in {"ready", "in"} <=> join[v] \in {"ready", "in"}
                           /\ join'[v] # "no" => join[v] # "no"
    BY DEF LifeInv, AgentTypes, Join, ServerRestarts
  <1>3. AgentTypes'
    BY <1>1, <1>2 DEF LifeInv, AgentTypes, ServerRestarts
  <1>4. JobTypes'
    BY <1>1 DEF LifeInv, JobTypes, Dispatch, Result, ServerRestarts
  <1>5. TaskTypes'
    BY <1>1 DEF LifeInv, TaskTypes, Clean, Sweep, ServerRestarts
  <1>6. \A c \in Cleaners, v \in Workers : clean'[c][v] = "idle"
    BY DEF ServerRestarts
  <1>7. RowsFit'
    BY <1>1, <1>2, <1>6 DEF LifeInv, RowsFit, rows
  <1>8. DeletionIsDue' /\ ForgottenIsDestroyed'
    BY <1>1, <1>2, <1>6 DEF LifeInv, DeletionIsDue, ForgottenIsDestroyed, rows, Cleaners,
                            Answering
  <1> QED BY <1>1, <1>3, <1>4, <1>5, <1>7, <1>8, PartsStay DEF LifeInv, RowsStay

-----------------------------------------------------------------------------
LEMMA LifeInitInv ==
    ASSUME LifeInit
    PROVE  LifeInv
  <1>1. RowTypes /\ JobTypes /\ TaskTypes /\ lifeFaults \in Nat
    BY DEF LifeInit, RowTypes, JobTypes, TaskTypes, WRow, WAge, Dispatch, Result, Clean, Sweep
  <1>2. AgentTypes
    BY DEF LifeInit, AgentTypes, Box, Join
  <1>3. RowsFit /\ DeletionIsDue /\ ForgottenIsDestroyed
    BY DEF LifeInit, RowsFit, DeletionIsDue, ForgottenIsDestroyed, Cleaners, Answering
  <1> QED BY <1>1, <1>2, <1>3 DEF LifeInv

LEMMA LifeStutterInv ==
    ASSUME LifeInv, UNCHANGED lifeVars
    PROVE  LifeInv'
  BY PartsStay, QuietSteps DEF lifeVars, agents, tasks

LEMMA LifeNextInv ==
    ASSUME LifeInv, LifeNext
    PROVE  LifeInv'
  <1>1. CASE ServerRestarts
    BY <1>1, ServerRestartsStep
  <1>2. ASSUME NEW w \in Workers,
               \/ ProvisionWorker(w) \/ SagaDestroys(w) \/ ServiceTerminates(w)
               \/ UnregisterOnly(w) \/ GrpcAssign(w)
               \/ HeartbeatAges(w) \/ LifetimePasses(w)
        PROVE  LifeInv'
    BY <1>2, ContainerSteps, StartSteps, UnregisterOnlyStep, GrpcAssignStep, TimeSteps
  <1>3. ASSUME NEW w \in Workers, AgentStep(w)
        PROVE  LifeInv'
    BY <1>3, ContainerSteps, RegisterArrivesStep, TimeSteps, ResultSteps DEF AgentStep
  <1>4. ASSUME NEW w \in Workers, ServerStep(w)
        PROVE  LifeInv'
    BY <1>4, RegisterInsertsStep, RegisterSetsReadyStep, InfraEventStep, DispatchSteps,
       ResultSteps, StartSteps DEF ServerStep
  <1>5. ASSUME NEW w \in Workers, LoopStep(w)
        PROVE  LifeInv'
    BY <1>5, StartSteps, ScanSteps, SweepDestroysStep DEF LoopStep
  <1>6. ASSUME NEW w \in Workers, NEW c \in Cleaners, CleanStep(c, w)
        PROVE  LifeInv'
    BY <1>6, CleanMarksStep, CleanDestroysStep, CleanUnregistersStep, ServiceAnnouncesStep
       DEF CleanStep
  <1> QED BY <1>1, <1>2, <1>3, <1>4, <1>5, <1>6 DEF LifeNext

\* LifeInv is inductive: every operation of the registration, the result path,
\* the cleaners and the loops preserves it.
THEOREM LifeInvariant == LifeSpec => []LifeInv
  <1>1. LifeInit => LifeInv
    BY LifeInitInv
  <1>2. LifeInv /\ [LifeNext]_lifeVars => LifeInv'
    BY LifeNextInv, LifeStutterInv
  <1> QED BY <1>1, <1>2, PTL DEF LifeSpec

\* Type correctness: rows belong to registered workers whose container was made,
\* and a job is held only by a row.
THEOREM LifeTypeCorrect == LifeSpec => []LifeTypeOK
  <1>1. LifeInv => LifeTypeOK
    BY DEF LifeInv, LifeTypeOK, RowTypes, JobTypes, AgentTypes, TaskTypes, RowsFit
  <1> QED BY <1>1, LifeInvariant, PTL

\* Whatever loops run and whatever fails, a registered worker leaves the
\* registry only after its container is destroyed, or through one who does not
\* answer for the container: destroy_worker, the steps and handlers that only
\* unregister, WorkerTerminationService.
THEOREM ForgottenDestroyed == LifeSpec => []ForgottenIsDestroyed
  <1>1. LifeInv => ForgottenIsDestroyed
    BY DEF LifeInv
  <1> QED BY <1>1, LifeInvariant, PTL
=============================================================================
