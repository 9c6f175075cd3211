---------------------------- MODULE SagaContract ----------------------------
(***************************************************************************)
(* What the saga engine promises of one saga at a time, without executors, *)
(* transactions, step rows or crashes: the traits Saga and SagaStep of     *)
(* crates/server/domain/src/saga/types.rs, as the engine calls them.       *)
(*                                                                         *)
(* Steps complete strictly in order.  Once a step fails the completed      *)
(* steps that have a compensation are undone strictly in reverse order.  A *)
(* saga is completed only with every step done or with every compensable   *)
(* step undone.                                                            *)
(***************************************************************************)
EXTENDS Naturals

CONSTANTS
    Sagas,            \* saga ids
    NSteps,           \* number of steps of a saga
    HasCompensation   \* the steps with has_compensation()

Steps == 1..NSteps

VARIABLES
    phase,            \* [Sagas -> Phase]
    done              \* [Sagas -> SUBSET Steps]: steps completed and not undone

vars == << phase, done >>

Phase == { "absent", "forward", "rollback", "completed", "failed" }

Init ==
    /\ phase = [s \in Sagas |-> "absent"]
    /\ done  = [s \in Sagas |-> {}]

SetPhase(s, p) ==
    /\ phase' = [phase EXCEPT ![s] = p]
    /\ UNCHANGED done

\* The saga is started or started again; what was done stays done.
Open(s) == SetPhase(s, "forward")

\* The first step that is not done completes.
Forward(s) ==
    /\ phase[s] = "forward"
    /\ \E i \in Steps :
         /\ i \notin done[s]
         /\ \A j \in 1..(i - 1) : j \in done[s]
         /\ done' = [done EXCEPT ![s] = @ \cup {i}]
    /\ UNCHANGED phase

\* A step failed: from now on steps are undone.
BeginRollback(s) == phase[s] = "forward" /\ SetPhase(s, "rollback")

\* The last step that is done and can be undone is undone.
Undo(s) ==
    /\ phase[s] = "rollback"
    /\ \E i \in done[s] \cap HasCompensation :
         /\ \A j \in done[s] \cap HasCompensation : j <= i
         /\ done' = [done EXCEPT ![s] = @ \ {i}]
    /\ UNCHANGED phase

Complete(s) ==
    /\ \/ phase[s] = "forward"  /\ done[s] = Steps
       \/ phase[s] = "rollback" /\ done[s] \cap HasCompensation = {}
    /\ SetPhase(s, "completed")

\* The saga timed out, or a compensation failed.
GiveUp(s) == phase[s] \in {"forward", "rollback"} /\ SetPhase(s, "failed")

Next == \E s \in Sagas :
    \/ Open(s) \/ Forward(s) \/ BeginRollback(s) \/ Undo(s)
    \/ Complete(s) \/ GiveUp(s)

Spec == Init /\ [][Next]_vars
=============================================================================
