----------------------------- MODULE MCMessaging -----------------------------
(* The event relay, the command outbox and the saga consumers for TLC.  They  *)
(* share no variable, so that a behaviour exercises one of them while the     *)
(* others stay as they are.                                                   *)
EXTENDS EventRelay, CommandOutbox, SagaConsumers

CONSTANTS
    Parts,      \* the components this run explores
    e1, e2, r1, \* events, relay
    b1, k1,     \* a bus command, a carried command
    m1          \* a message

VARIABLE part

MessagingInit ==
    /\ part \in Parts
    /\ Init
    /\ CmdInit
    /\ ConsumerInit
    /\ part = "consumers" \/ consumer = "execution"

MessagingNext ==
    /\ UNCHANGED part
    /\ \/ part = "events" /\ Next /\ UNCHANGED << cmdVars, consumerVars >>
       \/ part = "commands" /\ CmdNext /\ UNCHANGED << vars, consumerVars >>
       \/ part = "consumers" /\ ConsumerNext /\ UNCHANGED << vars, cmdVars >>

\* The fairness of FairSpec, CmdFairSpec and ConsumerFairSpec, each where its component runs.
MessagingSpec ==
    /\ MessagingInit
    /\ [][MessagingNext]_<< part, vars, cmdVars, consumerVars >>
    /\ \A r \in Relays :
         /\ WF_vars(part = "events" /\ FetchBatch(r))
         /\ WF_vars(part = "events" /\ OpenDurationPasses(r))
         /\ \A e \in Events :
              /\ WF_vars(part = "events" /\ TaskStep(r, e))
              /\ SF_vars(part = "events" /\ CallSucceeds(r, e))
              /\ SF_vars(part = "events" /\ MarkPublished(r, e))
    /\ WF_cmdVars(part = "commands" /\ WatchdogTick)
    /\ \A c \in Commands :
         /\ WF_cmdVars(part = "commands" /\ RelayStep(c))
         /\ WF_cmdVars(part = "commands" /\ (DispatchRuns(c) \/ DispatchReturns(c)))
    /\ WF_consumerVars(part = "consumers" /\ Start)
    /\ WF_consumerVars(part = "consumers" /\ loop = "draining" /\ ServerEnds)
    /\ WF_consumerVars(part = "consumers" /\ HandlerStep)
    /\ WF_consumerVars(part = "consumers" /\ \E m \in Messages : TakeMessage(m))
    /\ \A m \in Messages : WF_consumerVars(part = "consumers" /\ Deliver(m))
=============================================================================
