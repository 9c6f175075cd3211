------------------------ MODULE CommandOutbox_proofs ------------------------
(***************************************************************************)
(* Proofs about CommandOutbox, for any commands, any batch size and retry  *)
(* limit and any number of faults.                                         *)
(*                                                                         *)
(* The argument.  A row that carries no command keeps the placeholder it   *)
(* was inserted with, so that of the two places that run a command only    *)
(* the bus is left, which runs it once on the way out of "inserted".  A    *)
(* row becomes COMPLETED by a future that has published it, or by a        *)
(* consumer that holds a message of it, and a message exists only after a  *)
(* publish.                                                                *)
(***************************************************************************)
EXTENDS CommandOutbox, TLAPS

\* A future that is alive has an attempt left.
TriesLeft ==
    \A c \in Commands : cmdTask[c] # "idle" => cmdTries[c] < CmdMaxRetries

\* The row of a bus command holds no command.
BusRowsUnreadable ==
    \A c \in Commands \ Carried : cmdBody[c] = "placeholder"

\* Only bus commands have a caller, and their handler runs once.
BusCalls ==
    \A c \in Commands :
        /\ c \in Carried => cmdCall[c] = "none"
        /\ c \notin Carried =>
             /\ executed[c] \in {0, 1}
             /\ cmdCall[c] \in {"ran", "ok"} => executed[c] = 1
             /\ cmdCall[c] \in {"none", "refused", "inserted"} => executed[c] = 0

\* What was published: the row of a future that is past its publish, a message
\* of the stream, a completed row.
Published ==
    \A c \in Commands :
        cmdTask[c] = "sent" \/ cmdStream[c] > 0 \/ cmdStatus[c] = "COMPLETED" => c \in handed

CmdInv == CmdTypeOK /\ TriesLeft /\ BusRowsUnreadable /\ BusCalls /\ Published

LEMMA CmdInvInit == CmdInit => CmdInv
BY CommandAssumption
   DEF CmdInit, CmdInv, CmdTypeOK, TriesLeft, BusRowsUnreadable, BusCalls, Published,
       CmdStatus, CmdBody, CmdCall, CmdTask

LEMMA CmdInvStutter == CmdInv /\ UNCHANGED cmdVars => CmdInv'
BY DEF CmdInv, CmdTypeOK, TriesLeft, BusRowsUnreadable, BusCalls, Published, cmdVars

LEMMA FaultTyped ==
    ASSUME cmdFaults \in 0..CmdMaxFaults, CmdFault \/ CmdNoFault
    PROVE  cmdFaults' \in 0..CmdMaxFaults
BY CommandAssumption DEF CmdFault, CmdNoFault

LEMMA TableTyped ==
    ASSUME cmdTable \in Seq(Commands), NEW c \in Commands
    PROVE  Append(cmdTable, c) \in Seq(Commands)
OBVIOUS

-----------------------------------------------------------------------------
(* The bus.                                                                *)

LEMMA DispatchInsertsKeeps ==
    ASSUME CmdInv, NEW c \in Commands, DispatchInserts(c)
    PROVE  CmdInv'
<1>1. cmdTable' \in Seq(Commands)
  BY TableTyped DEF CmdInv, CmdTypeOK, DispatchInserts, InsertRow
<1> QED
  BY <1>1 DEF CmdInv, CmdTypeOK, TriesLeft, BusRowsUnreadable, BusCalls, Published,
     CmdStatus, CmdBody, CmdCall, CmdTask, DispatchInserts, InsertRow, CmdNoFault, relayVars

LEMMA DispatchRefusedKeeps ==
    ASSUME CmdInv, NEW c \in Commands, DispatchRefused(c)
    PROVE  CmdInv'
<1>1. cmdFaults' \in 0..CmdMaxFaults
  BY FaultTyped DEF CmdInv, CmdTypeOK, DispatchRefused
<1> QED
  BY <1>1 DEF CmdInv, CmdTypeOK, TriesLeft, BusRowsUnreadable, BusCalls, Published,
     CmdStatus, CmdBody, CmdCall, CmdTask, DispatchRefused, rowVars, relayVars

LEMMA DispatchRunsKeeps ==
    ASSUME CmdInv, NEW c \in Commands, DispatchRuns(c)
    PROVE  CmdInv'
<1>1. cmdFaults' \in 0..CmdMaxFaults
  BY FaultTyped DEF CmdInv, CmdTypeOK, DispatchRuns
<1>2. PICK s \in {"ran", "err"} :
        /\ cmdCall' = [cmdCall EXCEPT ![c] = s]
        /\ \/ executed' = [executed EXCEPT ![c] = @ + 1]
           \/ s = "err" /\ executed' = executed
  BY DEF DispatchRuns
<1>3. c \notin Carried /\ executed[c] = 0
  BY DEF DispatchRuns, CmdInv, BusCalls
<1>4. /\ executed' \in [Commands -> Nat]
      /\ executed'[c] \in {0, 1}
      /\ s = "ran" => executed'[c] = 1
      /\ \A d \in Commands \ {c} : executed'[d] = executed[d]
  <2>1. executed \in [Commands -> Nat]
    BY DEF CmdInv, CmdTypeOK
  <2>2. CASE executed' = [executed EXCEPT ![c] = @ + 1]
    BY <1>3, <2>1, <2>2
  <2>3. CASE s = "err" /\ executed' = executed
    BY <1>3, <2>1, <2>3
  <2> QED
    BY <1>2, <2>2, <2>3
<1>5. /\ cmdCall' \in [Commands -> CmdCall]
      /\ cmdCall'[c] = s
      /\ \A d \in Commands \ {c} : cmdCall'[d] = cmdCall[d]
  BY <1>2 DEF CmdInv, CmdTypeOK, CmdCall
<1>6. BusCalls'
  BY <1>3, <1>4, <1>5 DEF CmdInv, BusCalls
<1>7. UNCHANGED << cmdStream, rowVars, relayVars >>
  BY DEF DispatchRuns
<1> QED
  BY <1>1, <1>4, <1>5, <1>6, <1>7
     DEF CmdInv, CmdTypeOK, TriesLeft, BusRowsUnreadable, Published, rowVars, relayVars

LEMMA DispatchReturnsKeeps ==
    ASSUME CmdInv, NEW c \in Commands, DispatchReturns(c)
    PROVE  CmdInv'
<1>1. cmdFaults' \in 0..CmdMaxFaults
  BY FaultTyped DEF CmdInv, CmdTypeOK, DispatchReturns
<1>2. PICK s \in {"ok", "err"} : cmdCall' = [cmdCall EXCEPT ![c] = s]
  BY DEF DispatchReturns
<1>3. c \notin Carried /\ executed[c] = 1
  BY DEF DispatchReturns, CmdInv, BusCalls
<1>4. /\ cmdCall' \in [Commands -> CmdCall]
      /\ cmdCall'[c] = s
      /\ \A d \in Commands \ {c} : cmdCall'[d] = cmdCall[d]
  BY <1>2 DEF CmdInv, CmdTypeOK, CmdCall
<1>5. UNCHANGED << executed, cmdStream, rowVars, relayVars >>
  BY DEF DispatchReturns
<1>6. BusCalls'
  BY <1>3, <1>4, <1>5 DEF CmdInv, BusCalls
<1> QED
  BY <1>1, <1>4, <1>5, <1>6
     DEF CmdInv, CmdTypeOK, TriesLeft, BusRowsUnreadable, Published, rowVars, relayVars

LEMMA InsertCarriedKeeps ==
    ASSUME CmdInv, NEW c \in Commands, InsertCarried(c)
    PROVE  CmdInv'
<1>1. cmdTable' \in Seq(Commands)
  BY TableTyped DEF CmdInv, CmdTypeOK, InsertCarried, InsertRow
<1> QED
  BY <1>1 DEF CmdInv, CmdTypeOK, TriesLeft, BusRowsUnreadable, BusCalls, Published,
     CmdStatus, CmdBody, CmdTask, InsertCarried, InsertRow, CmdNoFault, callVars, relayVars

-----------------------------------------------------------------------------
(* The relay.                                                              *)

\* A batch starts every future with all its attempts.
LEMMA TakeBatchKeeps ==
    ASSUME CmdInv, TakeBatch, listenerDown' \in BOOLEAN, CmdFault \/ CmdNoFault,
           UNCHANGED << callVars, rowVars, cmdStream >>
    PROVE  CmdInv'
<1>1. cmdFaults' \in 0..CmdMaxFaults
  BY FaultTyped DEF CmdInv, CmdTypeOK
<1>2. /\ cmdTask' \in [Commands -> CmdTask]
      /\ \A c \in Commands : cmdTask'[c] # "sent"
      /\ cmdTries' \in [Commands -> 0..CmdMaxRetries]
  BY CommandAssumption DEF TakeBatch, CmdInv, CmdTypeOK, CmdTask
<1>3. TriesLeft'
  BY CommandAssumption DEF TakeBatch, TriesLeft
<1> QED
  BY <1>1, <1>2, <1>3
     DEF CmdInv, CmdTypeOK, BusRowsUnreadable, BusCalls, Published, TakeBatch, callVars, rowVars

LEMMA WatchdogTickKeeps == CmdInv /\ WatchdogTick => CmdInv'
BY TakeBatchKeeps DEF WatchdogTick, CmdInv, CmdTypeOK

LEMMA ListenerFailsKeeps == CmdInv /\ ListenerFails => CmdInv'
<1> SUFFICES ASSUME CmdInv, ListenerFails PROVE CmdInv'
  OBVIOUS
<1>1. CASE TakeBatch
  BY <1>1, TakeBatchKeeps DEF ListenerFails
<1>2. CASE UNCHANGED << cmdTask, cmdTries, handed >>
  <2>1. cmdFaults' \in 0..CmdMaxFaults
    BY FaultTyped DEF CmdInv, CmdTypeOK, ListenerFails
  <2> QED
    BY <1>2, <2>1 DEF ListenerFails, CmdInv, CmdTypeOK, TriesLeft, BusRowsUnreadable,
       BusCalls, Published, callVars, rowVars
<1> QED
  BY <1>1, <1>2 DEF ListenerFails

LEMMA PublishCommandKeeps ==
    ASSUME CmdInv, NEW c \in Commands, PublishCommand(c)
    PROVE  CmdInv'
<1>1. cmdFaults' \in 0..CmdMaxFaults
  BY FaultTyped DEF CmdInv, CmdTypeOK, PublishCommand
<1>2. /\ cmdStream' \in [Commands -> Nat]
      /\ \A d \in Commands \ {c} : cmdStream'[d] = cmdStream[d]
  <2>1. cmdStream \in [Commands -> Nat]
    BY DEF CmdInv, CmdTypeOK
  <2>2. CASE cmdStream' = [cmdStream EXCEPT ![c] = @ + 1]
    BY <2>1, <2>2
  <2>3. CASE cmdStream' = cmdStream
    BY <2>1, <2>3
  <2> QED
    BY <2>2, <2>3 DEF PublishCommand
<1>3. /\ cmdTask' \in [Commands -> CmdTask]
      /\ \A d \in Commands \ {c} : cmdTask'[d] = cmdTask[d]
      /\ cmdTask[c] # "idle"
  BY DEF PublishCommand, CmdInv, CmdTypeOK, CmdTask
<1>4. /\ handed' = handed \cup {c}
      /\ UNCHANGED << listenerDown, cmdTries, callVars, rowVars >>
  BY DEF PublishCommand
<1> QED
  BY <1>1, <1>2, <1>3, <1>4
     DEF CmdInv, CmdTypeOK, TriesLeft, BusRowsUnreadable, BusCalls, Published,
         callVars, rowVars

\* A failed attempt uses up one of the future's attempts, or ends it.
LEMMA AttemptFailsKeeps ==
    ASSUME CmdInv, NEW c \in Commands, cmdTask[c] # "idle", CmdFault, CommandAttemptFails(c),
           UNCHANGED << cmdTable, cmdBody, listenerDown, handed, callVars, cmdStream >>
    PROVE  CmdInv'
<1>1. cmdFaults' \in 0..CmdMaxFaults
  BY FaultTyped DEF CmdInv, CmdTypeOK
<1>2. cmdTries[c] \in 0..CmdMaxRetries /\ cmdTries[c] < CmdMaxRetries
  BY DEF CmdInv, CmdTypeOK, TriesLeft
<1>3. /\ cmdTries' \in [Commands -> 0..CmdMaxRetries]
      /\ cmdTries'[c] = cmdTries[c] + 1
      /\ \A d \in Commands \ {c} : cmdTries'[d] = cmdTries[d]
  BY <1>2, CommandAssumption DEF CommandAttemptFails, CmdInv, CmdTypeOK
<1>4. /\ cmdTask' \in [Commands -> CmdTask]
      /\ cmdTask'[c] \in {"try", "idle"}
      /\ cmdTask'[c] = "try" => cmdTries[c] + 1 < CmdMaxRetries
      /\ \A d \in Commands \ {c} : cmdTask'[d] = cmdTask[d]
  BY DEF CommandAttemptFails, CmdInv, CmdTypeOK, CmdTask
<1>5. /\ cmdStatus' \in [Commands -> CmdStatus]
      /\ \A d \in Commands : cmdStatus'[d] = "COMPLETED" => cmdStatus[d] = "COMPLETED"
  BY DEF CommandAttemptFails, CmdInv, CmdTypeOK, CmdStatus
<1>6. TriesLeft'
  BY <1>3, <1>4 DEF CmdInv, TriesLeft
<1> QED
  BY <1>1, <1>3, <1>4, <1>5, <1>6
     DEF CmdInv, CmdTypeOK, BusRowsUnreadable, BusCalls, Published, callVars

LEMMA PublishCommandFailsKeeps ==
    ASSUME CmdInv, NEW c \in Commands, PublishCommandFails(c)
    PROVE  CmdInv'
BY AttemptFailsKeeps DEF PublishCommandFails

LEMMA MarkCommandFailsKeeps ==
    ASSUME CmdInv, NEW c \in Commands, MarkCommandFails(c)
    PROVE  CmdInv'
BY AttemptFailsKeeps DEF MarkCommandFails

LEMMA MarkCommandCompletedKeeps ==
    ASSUME CmdInv, NEW c \in Commands, MarkCommandCompleted(c)
    PROVE  CmdInv'
BY DEF CmdInv, CmdTypeOK, TriesLeft, BusRowsUnreadable, BusCalls, Published, CmdStatus,
       CmdTask, MarkCommandCompleted, CmdNoFault, callVars

-----------------------------------------------------------------------------
(* The consumers.                                                          *)

\* A message that is acknowledged, or not, adds none.
LEMMA AckTyped ==
    ASSUME CmdInv, NEW c \in Commands, cmdStream[c] > 0,
           cmdStream' \in { cmdStream, [cmdStream EXCEPT ![c] = @ - 1] }
    PROVE  /\ cmdStream' \in [Commands -> Nat]
           /\ \A d \in Commands : cmdStream'[d] > 0 => cmdStream[d] > 0
<1>1. cmdStream \in [Commands -> Nat]
  BY DEF CmdInv, CmdTypeOK
<1>2. CASE cmdStream' = [cmdStream EXCEPT ![c] = @ - 1]
  BY <1>1, <1>2
<1>3. CASE cmdStream' = cmdStream
  BY <1>1, <1>3
<1> QED
  BY <1>2, <1>3

LEMMA DropUnreadableKeeps ==
    ASSUME CmdInv, NEW c \in Commands, DropUnreadable(c)
    PROVE  CmdInv'
<1>1. cmdFaults' \in 0..CmdMaxFaults
  BY FaultTyped DEF CmdInv, CmdTypeOK, DropUnreadable, AckLost
<1>2. /\ cmdStream' \in [Commands -> Nat]
      /\ \A d \in Commands : cmdStream'[d] > 0 => cmdStream[d] > 0
  BY AckTyped DEF DropUnreadable, Acked, AckLost
<1> QED
  BY <1>1, <1>2 DEF CmdInv, CmdTypeOK, TriesLeft, BusRowsUnreadable, BusCalls, Published,
     DropUnreadable, rowVars, callVars, relayVars

LEMMA SkipProcessedKeeps ==
    ASSUME CmdInv, NEW c \in Commands, SkipProcessed(c)
    PROVE  CmdInv'
<1>1. cmdFaults' \in 0..CmdMaxFaults
  BY FaultTyped DEF CmdInv, CmdTypeOK, SkipProcessed, AckLost
<1>2. /\ cmdStream' \in [Commands -> Nat]
      /\ \A d \in Commands : cmdStream'[d] > 0 => cmdStream[d] > 0
  BY AckTyped DEF SkipProcessed, Acked, AckLost
<1>3. /\ cmdStatus' \in [Commands -> CmdStatus]
      /\ \A d \in Commands \ {c} : cmdStatus'[d] = cmdStatus[d]
  BY DEF SkipProcessed, CmdInv, CmdTypeOK, CmdStatus
<1>4. c \in handed
  BY DEF SkipProcessed, CmdInv, Published
<1>5. UNCHANGED << cmdTable, cmdBody, callVars, relayVars >>
  BY DEF SkipProcessed
<1> QED
  BY <1>1, <1>2, <1>3, <1>4, <1>5
     DEF CmdInv, CmdTypeOK, TriesLeft, BusRowsUnreadable, BusCalls, Published,
         callVars, relayVars

LEMMA ConsumerRunsKeeps ==
    ASSUME CmdInv, NEW c \in Commands, ConsumerRuns(c)
    PROVE  CmdInv'
<1>1. cmdFaults' \in 0..CmdMaxFaults
  BY FaultTyped DEF CmdInv, CmdTypeOK, ConsumerRuns
<1>2. /\ cmdStream' \in [Commands -> Nat]
      /\ \A d \in Commands : cmdStream'[d] > 0 => cmdStream[d] > 0
  BY AckTyped DEF ConsumerRuns
<1>3. c \in Carried
  BY DEF ConsumerRuns, CmdInv, BusRowsUnreadable
<1>4. /\ executed' \in [Commands -> Nat]
      /\ \A d \in Commands \ {c} : executed'[d] = executed[d]
  BY DEF ConsumerRuns, CmdInv, CmdTypeOK
<1>5. UNCHANGED << rowVars, cmdCall, relayVars >>
  BY DEF ConsumerRuns
<1> QED
  BY <1>1, <1>2, <1>3, <1>4, <1>5
     DEF CmdInv, CmdTypeOK, TriesLeft, BusRowsUnreadable, BusCalls, Published,
         rowVars, relayVars

LEMMA CmdCrashKeeps == CmdInv /\ CmdCrash => CmdInv'
<1> SUFFICES ASSUME CmdInv, CmdCrash PROVE CmdInv'
  OBVIOUS
<1>1. cmdFaults' \in 0..CmdMaxFaults
  BY FaultTyped DEF CmdInv, CmdTypeOK, CmdCrash
<1>2. /\ cmdCall' \in [Commands -> CmdCall]
      /\ BusCalls'
  BY DEF CmdCrash, CmdInv, CmdTypeOK, CmdCall, BusCalls
<1>3. /\ cmdTask' \in [Commands -> CmdTask]
      /\ cmdTries' \in [Commands -> 0..CmdMaxRetries]
      /\ \A d \in Commands : cmdTask'[d] = "idle"
  BY CommandAssumption DEF CmdCrash, CmdTask
<1> QED
  BY <1>1, <1>2, <1>3
     DEF CmdCrash, CmdInv, CmdTypeOK, TriesLeft, BusRowsUnreadable, Published, rowVars

-----------------------------------------------------------------------------
LEMMA CmdInvStep == CmdInv /\ [CmdNext]_cmdVars => CmdInv'
<1> SUFFICES ASSUME CmdInv, [CmdNext]_cmdVars PROVE CmdInv'
  OBVIOUS
<1>1. ASSUME NEW c \in Commands,
             \/ DispatchInserts(c) \/ DispatchRefused(c) \/ DispatchRuns(c) \/ DispatchReturns(c)
             \/ InsertCarried(c)
             \/ RelayStep(c)
             \/ DropUnreadable(c) \/ SkipProcessed(c) \/ ConsumerRuns(c)
      PROVE  CmdInv'
  BY <1>1, DispatchInsertsKeeps, DispatchRefusedKeeps, DispatchRunsKeeps, DispatchReturnsKeeps,
     InsertCarriedKeeps,
     PublishCommandKeeps, PublishCommandFailsKeeps, MarkCommandCompletedKeeps,
     MarkCommandFailsKeeps, DropUnreadableKeeps, SkipProcessedKeeps, ConsumerRunsKeeps
     DEF RelayStep
<1> QED
  BY <1>1, WatchdogTickKeeps, ListenerFailsKeeps, CmdCrashKeeps, CmdInvStutter DEF CmdNext

LEMMA CmdInvAlways == CmdSpec => []CmdInv
BY CmdInvInit, CmdInvStep, PTL DEF CmdSpec

\* hodei_commands, the bus and the command relay keep their types; a future of
\* process_command_with_retry never makes more than max_retries attempts.
THEOREM CommandTypeCorrect == CmdSpec => []CmdTypeOK
<1>1. CmdInv => CmdTypeOK
  BY DEF CmdInv
<1> QED
  BY <1>1, CmdInvAlways, PTL

\* A command sent through OutboxCommandBus is run at most once, however often
\* the relay publishes its row, for any number of faults and crashes.
THEOREM BusCommandRunsOnce == CmdSpec => []BusCommandOnce
<1>1. ASSUME CmdInv, NEW c \in Commands \ Carried
      PROVE  /\ executed[c] <= 1
             /\ cmdCall[c] \in {"ran", "ok"} => executed[c] = 1
             /\ cmdCall[c] \in {"none", "refused", "inserted"} => executed[c] = 0
  <2>1. executed[c] \in {0, 1}
    BY <1>1 DEF CmdInv, BusCalls
  <2>2. executed[c] <= 1
    BY <2>1
  <2> QED
    BY <1>1, <2>2 DEF CmdInv, BusCalls
<1>2. CmdInv => BusCommandOnce
  BY <1>1 DEF BusCommandOnce
<1> QED
  BY <1>2, CmdInvAlways, PTL

\* Neither the relay nor a consumer marks a row COMPLETED whose message no
\* publish has handed to NATS.
THEOREM CompletedStaysHanded == CmdSpec => []CompletedWasHanded
<1>1. CmdInv => CompletedWasHanded
  BY DEF CmdInv, Published, CompletedWasHanded
<1> QED
  BY <1>1, CmdInvAlways, PTL
=============================================================================
