---------------------------- MODULE CommandOutbox ----------------------------
(***************************************************************************)
(* Commands and their outbox: OutboxCommandBus writes a row to             *)
(* hodei_commands and runs the command in memory (domain/src/command),     *)
(* CommandRelay publishes the rows to NATS (messaging/hybrid/              *)
(* command_relay.rs) and the command consumers take them from the stream   *)
(* (consumer_utils.rs, saga_command_consumers.rs).                         *)
(*                                                                         *)
(* The row of a bus command carries neither the command nor its key.  A    *)
(* carried command is one whose row does, as the repository allows.        *)
(* Nothing in the system notifies the channel the relay listens to, so     *)
(* that a relay whose listener works is never woken.                       *)
(***************************************************************************)
EXTENDS Naturals, Sequences

CONSTANTS
    Commands,
    Carried,        \* the commands whose row holds payload and idempotency key
    CmdBatchSize,   \* batch_size
    CmdMaxRetries,  \* max_retries
    CmdMaxFaults    \* bound: failing calls, lost messages, crashes

ASSUME CommandAssumption ==
    /\ Carried \subseteq Commands
    /\ CmdBatchSize \in Nat \ {0}
    /\ CmdMaxRetries \in Nat \ {0}
    /\ CmdMaxFaults \in Nat

VARIABLES
    cmdTable,      \* Seq(Commands): rows of hodei_commands by created_at
    cmdStatus,     \* [Commands -> CmdStatus]: status column
    cmdBody,       \* [Commands -> CmdBody]: payload column
    cmdCall,       \* [Commands -> CmdCall]: what the caller of dispatch_erased knows
    executed,      \* [Commands -> Nat]: how often a handler ran the command
    listenerDown,  \* the relay has no listener, or lost it
    cmdTask,       \* [Commands -> CmdTask]: the relay's future for the row
    cmdTries,      \* [Commands -> Nat]: its failed attempts
    handed,        \* commands whose publish returned Ok
    cmdStream,     \* [Commands -> Nat]: unacknowledged messages of HODEI_COMMANDS
    cmdFaults

cmdVars == << cmdTable, cmdStatus, cmdBody, cmdCall, executed, listenerDown,
              cmdTask, cmdTries, handed, cmdStream, cmdFaults >>

CmdStatus == { "absent", "PENDING", "COMPLETED", "FAILED" }
CmdBody == { "placeholder", "command" }
CmdCall == { "none", "inserted", "ran", "ok", "err", "refused", "lost" }
CmdTask == { "idle", "try", "sent" }

CmdNoFault == UNCHANGED cmdFaults
CmdFault == cmdFaults < CmdMaxFaults /\ cmdFaults' = cmdFaults + 1

relayVars == << listenerDown, cmdTask, cmdTries, handed >>
rowVars == << cmdTable, cmdStatus, cmdBody >>
callVars == << cmdCall, executed >>

CmdInit ==
    /\ cmdTable = << >>
    /\ cmdStatus = [c \in Commands |-> "absent"]
    /\ cmdBody = [c \in Commands |-> "placeholder"]
    /\ cmdCall = [c \in Commands |-> "none"]
    /\ executed = [c \in Commands |-> 0]
    /\ listenerDown \in BOOLEAN
    /\ cmdTask = [c \in Commands |-> "idle"]
    /\ cmdTries = [c \in Commands |-> 0]
    /\ handed = {}
    /\ cmdStream = [c \in Commands |-> 0]
    /\ cmdFaults = 0

-----------------------------------------------------------------------------
(* The bus.                                                                *)

\* insert_command: a new PENDING row; a key that exists keeps its row.
InsertRow(c, b) ==
    /\ cmdTable' = Append(cmdTable, c)
    /\ cmdStatus' = [cmdStatus EXCEPT ![c] = "PENDING"]
    /\ cmdBody' = [cmdBody EXCEPT ![c] = b]

\* Mutated form of DispatchInserts: the row gets the command itself.
DispatchInsertsWhole(c) ==
    /\ c \notin Carried
    /\ cmdCall[c] = "none"
    /\ cmdCall' = [cmdCall EXCEPT ![c] = "inserted"]
    /\ InsertRow(c, "command")
    /\ CmdNoFault
    /\ UNCHANGED << executed, cmdStream, relayVars >>

\* OutboxCommandBus::dispatch_erased up to the insert: the payload names the
\* Rust type only, the key is NULL, the target a new id.
DispatchInserts(c) ==
    /\ c \notin Carried
    /\ cmdCall[c] = "none"
    /\ cmdCall' = [cmdCall EXCEPT ![c] = "inserted"]
    /\ InsertRow(c, "placeholder")
    /\ CmdNoFault
    /\ UNCHANGED << executed, cmdStream, relayVars >>

\* The insert fails: the command is not run.
DispatchRefused(c) ==
    /\ c \notin Carried
    /\ cmdCall[c] = "none"
    /\ cmdCall' = [cmdCall EXCEPT ![c] = "refused"]
    /\ CmdFault
    /\ UNCHANGED << executed, cmdStream, rowVars, relayVars >>

\* The inner bus runs the handler, or has none for the type ...
DispatchRuns(c) ==
    /\ cmdCall[c] = "inserted"
    /\ \/ /\ executed' = [executed EXCEPT ![c] = @ + 1]
          /\ cmdCall' = [cmdCall EXCEPT ![c] = "ran"]
          /\ CmdNoFault
       \/ /\ cmdCall' = [cmdCall EXCEPT ![c] = "err"]
          /\ CmdFault
          /\ UNCHANGED executed
    /\ UNCHANGED << cmdStream, rowVars, relayVars >>

\* ... and the caller gets what the handler returned, which may be an error.
DispatchReturns(c) ==
    /\ cmdCall[c] = "ran"
    /\ \/ CmdNoFault /\ cmdCall' = [cmdCall EXCEPT ![c] = "ok"]
       \/ CmdFault /\ cmdCall' = [cmdCall EXCEPT ![c] = "err"]
    /\ UNCHANGED << executed, cmdStream, rowVars, relayVars >>

\* A carried command is inserted and not run.
InsertCarried(c) ==
    /\ c \in Carried
    /\ cmdStatus[c] = "absent"
    /\ InsertRow(c, "command")
    /\ CmdNoFault
    /\ UNCHANGED << callVars, cmdStream, relayVars >>

-----------------------------------------------------------------------------
(* The relay.                                                              *)

\* get_pending_commands: ORDER BY created_at LIMIT batch_size.
PendingCommands ==
    LET pending == SelectSeq(cmdTable, LAMBDA c : cmdStatus[c] = "PENDING")
        n == IF Len(pending) < CmdBatchSize THEN Len(pending) ELSE CmdBatchSize
    IN { pending[i] : i \in 1..n }

RelayIdle == \A c \in Commands : cmdTask[c] = "idle"

\* process_pending_batch: one future per row, all awaited before the next batch.
TakeBatch ==
    /\ RelayIdle
    /\ PendingCommands # {}
    /\ cmdTask' = [c \in Commands |-> IF c \in PendingCommands THEN "try" ELSE "idle"]
    /\ cmdTries' = [c \in Commands |-> IF c \in PendingCommands THEN 0 ELSE cmdTries[c]]
    /\ UNCHANGED handed

\* Mutated form of WatchdogTick: only a relay whose listener works is polled.
WatchdogTickListening ==
    /\ ~ listenerDown
    /\ TakeBatch
    /\ CmdNoFault
    /\ UNCHANGED << listenerDown, callVars, rowVars, cmdStream >>

\* The watchdog polls a relay that is degraded.
WatchdogTick ==
    /\ listenerDown
    /\ TakeBatch
    /\ CmdNoFault
    /\ UNCHANGED << listenerDown, callVars, rowVars, cmdStream >>

\* The listener fails: degraded from now on, and a batch at once.
ListenerFails ==
    /\ ~ listenerDown
    /\ RelayIdle
    /\ listenerDown' = TRUE
    /\ CmdFault
    /\ \/ TakeBatch
       \/ PendingCommands = {} /\ UNCHANGED << cmdTask, cmdTries, handed >>
    /\ UNCHANGED << callVars, rowVars, cmdStream >>

\* Mutated form of CommandAttemptFails: one attempt more than max_retries.
CommandAttemptFailsLate(c) ==
    /\ cmdTries' = [cmdTries EXCEPT ![c] = @ + 1]
    /\ \/ /\ cmdTries[c] < CmdMaxRetries
          /\ cmdTask' = [cmdTask EXCEPT ![c] = "try"]
          /\ UNCHANGED cmdStatus
       \/ /\ cmdTries[c] >= CmdMaxRetries
          /\ cmdTask' = [cmdTask EXCEPT ![c] = "idle"]
          /\ cmdStatus' \in { cmdStatus, [cmdStatus EXCEPT ![c] = "FAILED"] }

\* process_command_with_retry after a failed attempt; an error of mark_failed
\* is dropped, and the row stays PENDING for a later batch.
CommandAttemptFails(c) ==
    /\ cmdTries' = [cmdTries EXCEPT ![c] = @ + 1]
    /\ \/ /\ cmdTries[c] + 1 < CmdMaxRetries
          /\ cmdTask' = [cmdTask EXCEPT ![c] = "try"]
          /\ UNCHANGED cmdStatus
       \/ /\ cmdTries[c] + 1 >= CmdMaxRetries
          /\ cmdTask' = [cmdTask EXCEPT ![c] = "idle"]
          /\ cmdStatus' \in { cmdStatus, [cmdStatus EXCEPT ![c] = "FAILED"] }

\* nats_client.publish returns when the message is buffered: it may be lost.
PublishCommand(c) ==
    /\ cmdTask[c] = "try"
    /\ cmdTask' = [cmdTask EXCEPT ![c] = "sent"]
    /\ handed' = handed \cup {c}
    /\ \/ CmdNoFault /\ cmdStream' = [cmdStream EXCEPT ![c] = @ + 1]
       \/ CmdFault /\ UNCHANGED cmdStream
    /\ UNCHANGED << listenerDown, cmdTries, callVars, rowVars >>

\* Mutated form of PublishCommandFails: the row is completed before the publish
\* is known to have worked.
PublishCommandFailsMarked(c) ==
    /\ cmdTask[c] = "try"
    /\ CmdFault
    /\ cmdTask' = [cmdTask EXCEPT ![c] = "idle"]
    /\ cmdStatus' = [cmdStatus EXCEPT ![c] = "COMPLETED"]
    /\ UNCHANGED << cmdTable, cmdBody, listenerDown, cmdTries, handed, callVars, cmdStream >>

\* The publish fails, times out or is rejected by the open circuit.
PublishCommandFails(c) ==
    /\ cmdTask[c] = "try"
    /\ CmdFault
    /\ CommandAttemptFails(c)
    /\ UNCHANGED << cmdTable, cmdBody, listenerDown, handed, callVars, cmdStream >>

MarkCommandCompleted(c) ==
    /\ cmdTask[c] = "sent"
    /\ cmdTask' = [cmdTask EXCEPT ![c] = "idle"]
    /\ cmdStatus' = [cmdStatus EXCEPT ![c] = "COMPLETED"]
    /\ CmdNoFault
    /\ UNCHANGED << cmdTable, cmdBody, listenerDown, cmdTries, handed, callVars, cmdStream >>

\* mark_completed fails: the attempt counts as failed and publishes again.
MarkCommandFails(c) ==
    /\ cmdTask[c] = "sent"
    /\ CmdFault
    /\ CommandAttemptFails(c)
    /\ UNCHANGED << cmdTable, cmdBody, listenerDown, handed, callVars, cmdStream >>

-----------------------------------------------------------------------------
(* The consumers.                                                          *)

\* is_command_processed: a row with the command's key, in any status.
KeyFound(c) == c \in Carried /\ cmdStatus[c] # "absent"

Acked(c) == cmdStream' = [cmdStream EXCEPT ![c] = @ - 1]
AckLost == CmdFault /\ UNCHANGED cmdStream

\* The payload is no command of the consumer's type: acknowledged.
DropUnreadable(c) ==
    /\ cmdStream[c] > 0
    /\ cmdBody[c] = "placeholder"
    /\ (CmdNoFault /\ Acked(c)) \/ AckLost
    /\ UNCHANGED << rowVars, callVars, relayVars >>

\* A row with the key exists, be it the row the message was made from: COMPLETED
\* and acknowledged, not run.  Errors of either call are dropped.
SkipProcessed(c) ==
    /\ cmdStream[c] > 0
    /\ cmdBody[c] = "command"
    /\ KeyFound(c)
    /\ LET completed == [cmdStatus EXCEPT ![c] = "COMPLETED"]
       IN \/ CmdNoFault /\ Acked(c) /\ cmdStatus' = completed
          \/ AckLost /\ cmdStatus' = completed
          \/ CmdFault /\ Acked(c) /\ UNCHANGED cmdStatus
    /\ UNCHANGED << cmdTable, cmdBody, callVars, relayVars >>

\* No row, or no answer from the database: the handler runs, and whatever it
\* returns the message is acknowledged.
ConsumerRuns(c) ==
    /\ cmdStream[c] > 0
    /\ cmdBody[c] = "command"
    /\ CmdFault \/ (~ KeyFound(c) /\ CmdNoFault)
    /\ executed' = [executed EXCEPT ![c] = @ + 1]
    /\ cmdStream' \in { cmdStream, [cmdStream EXCEPT ![c] = @ - 1] }
    /\ UNCHANGED << rowVars, cmdCall, relayVars >>

\* The server dies: calls and futures are gone, rows and messages stay.
CmdCrash ==
    /\ CmdFault
    /\ cmdCall' = [c \in Commands |-> IF cmdCall[c] \in {"inserted", "ran"} THEN "lost" ELSE cmdCall[c]]
    /\ cmdTask' = [c \in Commands |-> "idle"]
    /\ cmdTries' = [c \in Commands |-> 0]
    /\ listenerDown' \in BOOLEAN
    /\ UNCHANGED << executed, rowVars, handed, cmdStream >>

-----------------------------------------------------------------------------
RelayStep(c) ==
    \/ PublishCommand(c) \/ PublishCommandFails(c)
    \/ MarkCommandCompleted(c) \/ MarkCommandFails(c)

CmdNext ==
    \/ \E c \in Commands :
         \/ DispatchInserts(c) \/ DispatchRefused(c) \/ DispatchRuns(c) \/ DispatchReturns(c)
         \/ InsertCarried(c)
         \/ RelayStep(c)
         \/ DropUnreadable(c) \/ SkipProcessed(c) \/ ConsumerRuns(c)
    \/ WatchdogTick \/ ListenerFails \/ CmdCrash

CmdSpec == CmdInit /\ [][CmdNext]_cmdVars

\* Tasks are polled: a dispatch goes on, the watchdog ticks, a future ends.
CmdFairSpec ==
    /\ CmdSpec
    /\ WF_cmdVars(WatchdogTick)
    /\ \A c \in Commands : WF_cmdVars(RelayStep(c)) /\ WF_cmdVars(DispatchRuns(c) \/ DispatchReturns(c))

-----------------------------------------------------------------------------
(* Properties.                                                             *)

\* Columns and futures keep their values, and a row's attempts stay within
\* max_retries.
CmdTypeOK ==
    /\ cmdTable \in Seq(Commands)
    /\ cmdStatus \in [Commands -> CmdStatus]
    /\ cmdBody \in [Commands -> CmdBody]
    /\ cmdCall \in [Commands -> CmdCall]
    /\ executed \in [Commands -> Nat]
    /\ listenerDown \in BOOLEAN
    /\ cmdTask \in [Commands -> CmdTask]
    /\ cmdTries \in [Commands -> 0..CmdMaxRetries]
    /\ handed \subseteq Commands
    /\ cmdStream \in [Commands -> Nat]
    /\ cmdFaults \in 0..CmdMaxFaults

\* A command sent through the bus runs at most once although its row is
\* published again, any number of times, also after a crash that fell between
\* the handler's effect and its return: no consumer can read what the relay
\* publishes.  Ok means that it ran, a refusal that it did not.
BusCommandOnce ==
    \A c \in Commands \ Carried :
        /\ executed[c] <= 1
        /\ cmdCall[c] = "ok" => executed[c] = 1
        /\ cmdCall[c] = "refused" => executed[c] = 0

\* A row is COMPLETED only when its message was handed to NATS, whichever of
\* relay and consumer marks it and however many attempts, crashes and
\* redeliveries come before.
CompletedWasHanded ==
    \A c \in Commands : cmdStatus[c] = "COMPLETED" => c \in handed

\* A degraded relay settles every row: failed rows leave the batch, so that no
\* row is passed over for ever.
RowsAreSettled ==
    \A c \in Commands : (cmdStatus[c] = "PENDING" /\ listenerDown)
        ~> (cmdStatus[c] \in {"COMPLETED", "FAILED"} \/ ~ listenerDown)

\* "This ensures that commands are not lost even if the application crashes":
\* a command whose row was committed is run, or its caller gets an error.
CommandsSurvive ==
    \A c \in Commands : cmdCall[c] = "inserted" ~> executed[c] > 0 \/ cmdCall[c] = "err"
=============================================================================
