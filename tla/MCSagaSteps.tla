----------------------------- MODULE MCSagaSteps -----------------------------
(* Instances of SagaSteps for TLC. *)
EXTENDS SagaSteps, TLC

CONSTANTS j1, w1, w2, r1, r2

\* An execution saga with one of any kind.
MCMay == r1 :> {"execution"} @@ r2 :> Kinds

\* A saga that runs alone meets MaxFaults faults, two sagas meet one.
FewFaults ==
    faults <= 1 \/ \A r, q \in Runs : saga[r].st # "none" /\ saga[q].st # "none" => r = q

MCSpec ==
    /\ Init
    /\ [][Next /\ FewFaults']_vars
    /\ \A r \in Runs : WF_vars(Progress(r))
=============================================================================
