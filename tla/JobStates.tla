------------------------------ MODULE JobStates ------------------------------
(***************************************************************************)
(* The state machines every part of the server shares: the states of a job *)
(* and of a worker, the transitions the domain calls valid, and the        *)
(* predicates derived from them (crates/shared/src/states.rs).             *)
(***************************************************************************)

JobState == { "Pending", "Assigned", "Scheduled", "Running", "Succeeded",
              "Failed", "Cancelled", "Timeout", "ManualInterventionRequired" }

\* The right-hand sides of the arms of JobState::can_transition_to.
JobSuccessors ==
    [ Pending   |-> {"Assigned", "Scheduled", "Failed", "Cancelled", "Timeout",
                     "ManualInterventionRequired"},
      Assigned  |-> {"Running", "Failed", "Timeout", "Cancelled",
                     "ManualInterventionRequired"},
      Scheduled |-> {"Running", "Failed", "Timeout", "Cancelled",
                     "ManualInterventionRequired"},
      Running   |-> {"Succeeded", "Failed", "Cancelled", "Timeout",
                     "ManualInterventionRequired"},
      ManualInterventionRequired |-> {"Pending", "Failed", "Cancelled"} ]

CanTransition(s, t) ==
    /\ s \in DOMAIN JobSuccessors
    /\ t \in JobSuccessors[s]

IsTerminal(s) == s \in {"Succeeded", "Failed", "Cancelled", "Timeout"}

\* JobState::is_scheduled: assigned to somebody, not yet running.
IsScheduled(s) == s \in {"Assigned", "Scheduled"}

WorkerState == { "Creating", "Ready", "Busy", "Terminated" }
=============================================================================
