------------------------- MODULE WorkerStream_proofs -------------------------
(* Proofs about WorkerStream, for any jobs, any bound on faults, and streams   *)
(* that may or may not lose what was sent on them.                             *)
EXTENDS WorkerStream, TLAPS

-----------------------------------------------------------------------------
(* Types, by groups of variables.                                          *)

TypeMain ==
    /\ agent \in Agent /\ cur \in 0 .. StreamMaxFaults + 1
    /\ agent \in {"live", "insert"} => cur # 0
    /\ sFaults \in 0 .. StreamMaxFaults
TypeSession == sess \in BOOLEAN /\ otp \in BOOLEAN /\ known \in BOOLEAN
TypeJobs ==
    /\ work \in [SJobs -> Work]
    /\ starting \subseteq SJobs /\ handles \subseteq SJobs
    /\ results \in Seq(SJobs) /\ pending \in Seq(SJobs)
    /\ shared \subseteq SJobs
TypeWires ==
    /\ up \in [Streams -> Seq(Up)]
    /\ down \in [Streams -> SUBSET SJobs]
    /\ link \in [Streams -> BOOLEAN]
TypeServer ==
    /\ server \in [Streams -> {"none", "reading", "ended"}]
    /\ holder \in [Streams -> BOOLEAN]
    /\ chan \in 0 .. StreamMaxFaults + 1
    /\ applied \in [SJobs -> Nat]
TypeRest == idle \in BOOLEAN /\ sent \subseteq SJobs

LEMMA TypeGroups ==
    StreamTypeOK <=> TypeMain /\ TypeSession /\ TypeJobs /\ TypeWires /\ TypeServer /\ TypeRest
  BY Zenon DEF StreamTypeOK, TypeMain, TypeSession, TypeJobs, TypeWires, TypeServer, TypeRest

LEMMA TypeGroupsNext ==
    StreamTypeOK' <=> TypeMain' /\ TypeSession' /\ TypeJobs' /\ TypeWires' /\ TypeServer' /\ TypeRest'
  BY Zenon DEF StreamTypeOK, TypeMain, TypeSession, TypeJobs, TypeWires, TypeServer, TypeRest

LEMMA SessionStays == ASSUME TypeSession, UNCHANGED session PROVE TypeSession'
  BY Zenon DEF TypeSession, session

LEMMA JobsStay == ASSUME TypeJobs, UNCHANGED jobsHere PROVE TypeJobs'
  BY Zenon DEF TypeJobs, jobsHere

LEMMA WiresStay == ASSUME TypeWires, UNCHANGED wires PROVE TypeWires'
  BY Zenon DEF TypeWires, wires

LEMMA ServerStays == ASSUME TypeServer, UNCHANGED serverSide PROVE TypeServer'
  BY Zenon DEF TypeServer, serverSide

LEMMA RestStays == ASSUME TypeRest, UNCHANGED << idle, sent >> PROVE TypeRest'
  BY Zenon DEF TypeRest

LEMMA Faults ==
    ASSUME TypeMain, Working \/ Failing
    PROVE  sFaults' \in 0 .. StreamMaxFaults
  BY StreamAssumption DEF TypeMain, Working, Failing

LEMMA MainMoves ==
    ASSUME TypeMain, Working \/ Failing, agent' \in Agent, UNCHANGED cur,
           agent' \in {"live", "insert"} => agent \in {"live", "insert"}
    PROVE  TypeMain'
  BY Faults DEF TypeMain

LEMMA CutKeepsType ==
    ASSUME up \in [Streams -> Seq(Up)], NEW s, Cut(s)
    PROVE  up' \in [Streams -> Seq(Up)]
  <1>1. CASE UNCHANGED up
    BY <1>1
  <1>2. ASSUME s \in Streams, NEW n \in 0 .. Len(up[s]), up' = [up EXCEPT ![s] = SubSeq(@, 1, n)]
        PROVE  up' \in [Streams -> Seq(Up)]
    <2>1. SubSeq(up[s], 1, n) \in Seq(Up)
      BY <1>2
    <2> QED
      BY <1>2, <2>1
  <1> QED
    BY <1>1, <1>2 DEF Cut

LEMMA PushKeepsType ==
    ASSUME up \in [Streams -> Seq(Up)], NEW msg \in Up, Push(msg)
    PROVE  up' \in [Streams -> Seq(Up)]
  <1>1. Append(up[cur], msg) \in Seq(Up) \/ cur \notin Streams
    OBVIOUS
  <1> QED
    BY <1>1 DEF Push

LEMMA InitKeeps == ASSUME StreamInit PROVE StreamInv
  <1> USE StreamAssumption
  <1>1. TypeMain /\ TypeJobs
    BY DEF StreamInit, TypeMain, TypeJobs, Agent, Work
  <1>6. TypeWires
    BY DEF StreamInit, TypeWires
  <1>7. TypeServer
    BY DEF StreamInit, TypeServer
  <1>2. TypeSession /\ TypeRest
    BY Zenon DEF StreamInit, TypeSession, TypeRest
  <1>3. SentInv /\ CommandInv /\ ChannelIsRead
    BY DEF StreamInit, SentInv, CommandInv, ChannelIsRead
  <1>4. HandInv /\ ShareInv /\ HandleInv
    BY DEF StreamInit, HandInv, ShareInv, HandleInv, Busy, Kept, Has
  <1>5. WireInv
    <2>1. \A s \in Streams : up[s] = << >>
      BY DEF StreamInit
    <2>2. \A s \in Streams : \A i \in 1 .. Len(up[s]) : FALSE
      BY <2>1
    <2> QED
      BY <2>2 DEF WireInv
  <1> QED
    BY <1>1, <1>2, <1>3, <1>4, <1>5, <1>6, <1>7, TypeGroups DEF StreamInv

-----------------------------------------------------------------------------
(* Steps that leave the jobs, the results and the messages alone.          *)

\* No result is on a stream that was not there.
NoNew ==
    \A j \in SJobs, s \in Streams : \A i \in 1 .. Len(up'[s]) :
        up'[s][i] = ResultOf(j) => OnWire(j, s, i)

data == << work, results, pending, sent, applied >>

LEMMA WireNoNew ==
    ASSUME WireInv, UNCHANGED data, NoNew
    PROVE  WireInv'
  <1>1. ASSUME NEW j \in SJobs, NEW s \in Streams, NEW i \in 1 .. Len(up'[s]), OnWire(j, s, i)'
        PROVE  i \in 1 .. Len(up[s]) /\ OnWire(j, s, i)
    BY <1>1 DEF NoNew, OnWire
  <1>2. ASSUME NEW j \in SJobs PROVE Kept(j)' <=> Kept(j)
    BY DEF Kept, data
  <1>3. ASSUME NEW j \in SJobs, NEW s \in Streams, NEW i \in 1 .. Len(up'[s]), OnWire(j, s, i)'
        PROVE  work'[j] = "done" /\ j \in sent' /\ applied'[j] = 0 /\ ~Kept(j)'
    BY <1>1, <1>2, <1>3 DEF WireInv, data
  <1>4. ASSUME NEW j \in SJobs, NEW s \in Streams, NEW t \in Streams,
               NEW i \in 1 .. Len(up'[s]), NEW k \in 1 .. Len(up'[t]),
               OnWire(j, s, i)', OnWire(j, t, k)'
        PROVE  s = t /\ i = k
    BY <1>1, <1>4 DEF WireInv
  <1> QED
    BY <1>3, <1>4 DEF WireInv

LEMMA SameIsNoNew == ASSUME UNCHANGED up PROVE NoNew
  BY DEF NoNew, OnWire

LEMMA CutIsNoNew ==
    ASSUME up \in [Streams -> Seq(Up)], NEW s, Cut(s)
    PROVE  NoNew
  <1>1. CASE UNCHANGED up
    BY <1>1, SameIsNoNew
  <1>2. ASSUME s \in Streams, NEW n \in 0 .. Len(up[s]), up' = [up EXCEPT ![s] = SubSeq(@, 1, n)]
        PROVE  NoNew
    <2>1. up'[s] = SubSeq(up[s], 1, n) /\ \A t \in Streams \ {s} : up'[t] = up[t]
      BY <1>2
    <2>2. up[s] \in Seq(Up)
      BY <1>2
    <2>3. Len(SubSeq(up[s], 1, n)) = n /\ \A i \in 1 .. n : SubSeq(up[s], 1, n)[i] = up[s][i]
      BY <1>2, <2>2
    <2>4. \A i \in 1 .. n : i \in 1 .. Len(up[s])
      BY <1>2, <2>2
    <2> QED
      BY <2>1, <2>3, <2>4 DEF NoNew, OnWire
  <1> QED
    BY <1>1, <1>2 DEF Cut

LEMMA PushIsNoNew ==
    ASSUME up \in [Streams -> Seq(Up)], NEW msg, Push(msg), \A j \in SJobs : msg # ResultOf(j)
    PROVE  NoNew
  <1>1. CASE up' = up
    BY <1>1, SameIsNoNew
  <1>2. CASE cur \in Streams /\ up' = [up EXCEPT ![cur] = Append(@, msg)]
    <2>1. up'[cur] = Append(up[cur], msg) /\ \A t \in Streams \ {cur} : up'[t] = up[t]
      BY <1>2
    <2>2. \A i \in 1 .. Len(up'[cur]) :
            \/ i \in 1 .. Len(up[cur]) /\ up'[cur][i] = up[cur][i]
            \/ up'[cur][i] = msg
      BY <1>2, <2>1
    <2> QED
      BY <2>1, <2>2 DEF NoNew, OnWire
  <1> QED
    BY <1>1, <1>2 DEF Push

\* Messages of different kinds differ.
LEMMA Kinds ==
    ASSUME NEW j \in SJobs
    PROVE  Beat # ResultOf(j) /\ SelfTerminate # ResultOf(j) /\ Beat # SelfTerminate
  BY DEF Beat, SelfTerminate, ResultOf

LEMMA SentStays == ASSUME SentInv, UNCHANGED data PROVE SentInv'
  BY DEF SentInv, data

LEMMA CommandStays == ASSUME CommandInv, UNCHANGED << data, down >> PROVE CommandInv'
  BY DEF CommandInv, data

LEMMA HandStays == ASSUME HandInv, UNCHANGED data PROVE HandInv'
  <1>1. \A j \in SJobs : (Kept(j)' <=> Kept(j)) /\ (Busy(j)' <=> Busy(j))
    BY DEF Kept, Busy, data
  <1> QED
    BY <1>1 DEF HandInv, data

LEMMA ShareStays ==
    ASSUME ShareInv, UNCHANGED << data, idle, shared >>,
           agent' = "leaving" => agent = "leaving" \/ idle
    PROVE  ShareInv'
  <1>1. \A j \in SJobs : Has(j)' <=> Has(j)
    BY DEF Has, Kept, Busy, data
  <1> QED
    BY <1>1 DEF ShareInv

LEMMA HandleStays ==
    ASSUME HandleInv, UNCHANGED << work, handles, starting >>,
           agent = "insert" => agent' = "insert",
           agent' = "leaving" => agent = "leaving" \/ (handles = {} /\ agent # "insert")
    PROVE  HandleInv'
  BY DEF HandleInv

\* A step that moves only main, the session, the links and the tasks of the server.
LEMMA QuietStep ==
    ASSUME SentInv, CommandInv, HandInv, ShareInv, HandleInv, WireInv,
           UNCHANGED << data, idle, shared, down, handles, starting >>, NoNew,
           agent = "insert" => agent' = "insert",
           agent' = "leaving" => agent = "leaving" \/ (handles = {} /\ idle /\ agent # "insert")
    PROVE  SentInv' /\ CommandInv' /\ HandInv' /\ ShareInv' /\ HandleInv' /\ WireInv'
  <1>1. UNCHANGED data /\ UNCHANGED work
    BY DEF data
  <1> QED
    BY <1>1, SentStays, CommandStays, HandStays, ShareStays, HandleStays, WireNoNew

LEMMA RegisterStep ==
    ASSUME StreamInv, Register \/ RegisterFails
    PROVE  StreamInv'
  <1>1. UNCHANGED << cur, jobsHere, wires, serverSide, sent >> /\ agent' \in {"register", "open"}
        /\ agent = "register"
    BY DEF Register, RegisterFails
  <1>2. TypeSession'
    BY Zenon, TypeGroups DEF Register, RegisterFails, Admit, ConsumeToken, TypeSession, StreamInv
  <1>3. TypeMain'
    BY <1>1, MainMoves, TypeGroups DEF Register, RegisterFails, Agent, StreamInv
  <1>4. StreamTypeOK'
    BY <1>1, <1>2, <1>3, JobsStay, WiresStay, ServerStays, RestStays, TypeGroups, TypeGroupsNext
       DEF StreamInv, jobsHere
  <1>5. SentInv' /\ CommandInv' /\ HandInv' /\ ShareInv' /\ HandleInv' /\ WireInv'
    BY <1>1, QuietStep, SameIsNoNew DEF StreamInv, data, jobsHere, wires, serverSide
  <1>6. ChannelIsRead'
    BY <1>1 DEF StreamInv, ChannelIsRead, serverSide
  <1> QED
    BY <1>4, <1>5, <1>6 DEF StreamInv

\* The steps of main that move nothing but main itself.
LEMMA MainStep ==
    ASSUME StreamInv, OpenStreamFails \/ NoticeBreak \/ Shutdown
    PROVE  StreamInv'
  <1>1. /\ UNCHANGED << cur, session, jobsHere, wires, serverSide, sent >>
        /\ agent' \in {"register", "stopping"} /\ agent # "insert"
    BY DEF OpenStreamFails, NoticeBreak, Shutdown
  <1>3. TypeMain'
    BY <1>1, MainMoves, TypeGroups DEF OpenStreamFails, NoticeBreak, Shutdown, Agent, StreamInv
  <1>4. StreamTypeOK'
    BY <1>1, <1>3, SessionStays, JobsStay, WiresStay, ServerStays, RestStays, TypeGroups,
       TypeGroupsNext DEF StreamInv, jobsHere
  <1>5. SentInv' /\ CommandInv' /\ HandInv' /\ ShareInv' /\ HandleInv' /\ WireInv'
    BY <1>1, QuietStep, SameIsNoNew DEF StreamInv, data, jobsHere, wires, serverSide
  <1>6. ChannelIsRead'
    BY <1>1 DEF StreamInv, ChannelIsRead, serverSide
  <1> QED
    BY <1>4, <1>5, <1>6 DEF StreamInv

LEMMA InsertStep == ASSUME StreamInv, InsertHandle PROVE StreamInv'
  <1>1. /\ UNCHANGED << cur, session, work, results, pending, idle, shared, wires, serverSide, sent >>
        /\ agent' = "live" /\ agent = "insert"
        /\ handles' = handles \cup starting /\ starting' = {}
    BY DEF InsertHandle
  <1>2. TypeJobs'
    BY <1>1, TypeGroups DEF InsertHandle, TypeJobs, StreamInv
  <1>3. TypeMain'
    BY <1>1, MainMoves, TypeGroups DEF InsertHandle, Agent, StreamInv
  <1>4. StreamTypeOK'
    BY <1>1, <1>2, <1>3, SessionStays, WiresStay, ServerStays, RestStays, TypeGroups,
       TypeGroupsNext DEF StreamInv
  <1>5. UNCHANGED << data, down >> /\ NoNew
    BY <1>1, SameIsNoNew DEF data, wires, serverSide
  <1>6. SentInv' /\ CommandInv' /\ HandInv' /\ ShareInv' /\ WireInv'
    BY <1>1, <1>5, SentStays, CommandStays, HandStays, ShareStays, WireNoNew DEF StreamInv
  <1>7. HandleInv'
    BY <1>1 DEF StreamInv, HandleInv
  <1>8. ChannelIsRead'
    BY <1>1 DEF StreamInv, ChannelIsRead, serverSide
  <1> QED
    BY <1>4, <1>6, <1>7, <1>8 DEF StreamInv

\* A heartbeat or the self-termination message goes out.
LEMMA SendStep == ASSUME StreamInv, SendHeartbeat \/ AutoTerminate PROVE StreamInv'
  <1>1. /\ UNCHANGED << cur, session, jobsHere, down, link, serverSide, sent >>
        /\ agent' = "leaving" => idle /\ handles = {}
        /\ agent = "live" /\ agent' \in {"live", "leaving"}
        /\ Working
    BY DEF SendHeartbeat, AutoTerminate
  <1>2. /\ up \in [Streams -> Seq(Up)]
        /\ agent \in Agent
    BY DEF StreamInv, StreamTypeOK
  <1>3. PICK msg \in {Beat, SelfTerminate} : Push(msg)
    BY DEF SendHeartbeat, AutoTerminate
  <1>4. NoNew
    BY <1>2, <1>3, PushIsNoNew, Kinds
  <1>5. TypeWires'
    <2>1. msg \in Up
      BY <1>3 DEF Up
    <2> QED
      BY <1>1, <1>2, <1>3, <2>1, PushKeepsType, TypeGroups DEF StreamInv, TypeWires
  <1>6. TypeMain'
    BY <1>1, <1>2, MainMoves, TypeGroups DEF Agent, StreamInv
  <1>7. StreamTypeOK'
    BY <1>1, <1>5, <1>6, SessionStays, JobsStay, ServerStays, RestStays, TypeGroups,
       TypeGroupsNext DEF StreamInv, jobsHere
  <1>8. SentInv' /\ CommandInv' /\ HandInv' /\ ShareInv' /\ HandleInv' /\ WireInv'
    BY <1>1, <1>4, QuietStep DEF StreamInv, data, jobsHere, serverSide
  <1>9. ChannelIsRead'
    BY <1>1 DEF StreamInv, ChannelIsRead, serverSide
  <1> QED
    BY <1>7, <1>8, <1>9 DEF StreamInv

LEMMA EndsStep == ASSUME StreamInv, NEW s \in Streams, ServerEnds(s) PROVE StreamInv'
  <1>1. /\ UNCHANGED << agent, cur, session, jobsHere, wires, holder, applied, sent >>
        /\ Working
        /\ server' = [server EXCEPT ![s] = "ended"]
        /\ chan' = IF holder[s] THEN 0 ELSE chan
    BY DEF ServerEnds
  <1>2. TypeServer'
    <2>1. TypeServer
      BY TypeGroups DEF StreamInv
    <2>2. chan' \in {0, chan} /\ 0 \in 0 .. StreamMaxFaults + 1
      BY <1>1, StreamAssumption
    <2> QED
      BY <1>1, <2>1, <2>2 DEF TypeServer
  <1>3. TypeMain'
    BY <1>1, MainMoves, TypeGroups DEF StreamInv, TypeMain
  <1>4. StreamTypeOK'
    BY <1>1, <1>2, <1>3, SessionStays, JobsStay, WiresStay, RestStays, TypeGroups,
       TypeGroupsNext DEF StreamInv, jobsHere
  <1>5. SentInv' /\ CommandInv' /\ HandInv' /\ ShareInv' /\ HandleInv' /\ WireInv'
    BY <1>1, QuietStep, SameIsNoNew DEF StreamInv, data, jobsHere, wires
  <1>6. ChannelIsRead'
    <2>1. server \in [Streams -> {"none", "reading", "ended"}]
      BY DEF StreamInv, StreamTypeOK
    <2> QED
      BY <1>1, <2>1 DEF StreamInv, ChannelIsRead
  <1> QED
    BY <1>4, <1>5, <1>6 DEF StreamInv

-----------------------------------------------------------------------------
(* Faults and the end of the process.                                      *)

LEMMA CommandShrinks ==
    ASSUME CommandInv, UNCHANGED data, \A s \in Streams : down'[s] \subseteq down[s]
    PROVE  CommandInv'
  BY DEF CommandInv, data

LEMMA BreakStep == ASSUME StreamInv, NEW s \in Streams, BreakConnection(s) PROVE StreamInv'
  <1>1. /\ UNCHANGED << agent, cur, session, jobsHere, serverSide, sent >>
        /\ link' = [link EXCEPT ![s] = FALSE]
        /\ Cut(s) /\ Failing
        /\ down' = down \/ down' = [down EXCEPT ![s] = {}]
    BY DEF BreakConnection
  <1>2. up \in [Streams -> Seq(Up)] /\ down \in [Streams -> SUBSET SJobs] /\ TypeWires
    BY TypeGroups DEF StreamInv, StreamTypeOK
  <1>3. TypeWires'
    BY <1>1, <1>2, CutKeepsType DEF TypeWires
  <1>4. TypeMain'
    BY <1>1, MainMoves, TypeGroups DEF StreamInv, TypeMain
  <1>5. StreamTypeOK'
    BY <1>1, <1>3, <1>4, SessionStays, JobsStay, ServerStays, RestStays, TypeGroups,
       TypeGroupsNext DEF StreamInv, jobsHere
  <1>6. UNCHANGED << data, idle, shared, work, handles, starting >> /\ NoNew
    BY <1>1, <1>2, CutIsNoNew DEF data, jobsHere, serverSide
  <1>7. CommandInv'
    <2>1. \A t \in Streams : down'[t] \subseteq down[t]
      BY <1>1, <1>2
    <2> QED
      BY <1>6, <2>1, CommandShrinks DEF StreamInv
  <1>8. SentInv' /\ HandInv' /\ ShareInv' /\ HandleInv' /\ WireInv'
    BY <1>1, <1>6, SentStays, HandStays, ShareStays, HandleStays, WireNoNew DEF StreamInv
  <1>9. ChannelIsRead'
    BY <1>1 DEF StreamInv, ChannelIsRead, serverSide
  <1> QED
    BY <1>5, <1>7, <1>8, <1>9 DEF StreamInv

LEMMA RestartStep == ASSUME StreamInv, ServiceRestarts PROVE StreamInv'
  <1>1. /\ UNCHANGED << agent, cur, sess, otp, jobsHere, down, holder, applied, sent >>
        /\ link' = [s \in Streams |-> FALSE]
        /\ up' = [s \in Streams |-> << >>]
        /\ server' = [s \in Streams |-> IF server[s] = "none" THEN "none" ELSE "ended"]
        /\ known' = FALSE /\ chan' = 0 /\ Failing
    BY DEF ServiceRestarts
  <1>2. TypeWires'
    BY <1>1, TypeGroups DEF TypeWires, StreamInv
  <1>3. TypeServer'
    BY <1>1, TypeGroups, StreamAssumption DEF TypeServer, StreamInv
  <1>4. TypeSession'
    BY <1>1, Zenon, TypeGroups DEF TypeSession, StreamInv
  <1>5. TypeMain'
    BY <1>1, MainMoves, TypeGroups DEF StreamInv, TypeMain
  <1>6. StreamTypeOK'
    BY <1>1, <1>2, <1>3, <1>4, <1>5, JobsStay, RestStays, TypeGroups, TypeGroupsNext
       DEF StreamInv, jobsHere
  <1>7. NoNew
    <2>1. \A s \in Streams : \A i \in 1 .. Len(up'[s]) : FALSE
      BY <1>1
    <2> QED
      BY <2>1 DEF NoNew
  <1>8. SentInv' /\ CommandInv' /\ HandInv' /\ ShareInv' /\ HandleInv' /\ WireInv'
    BY <1>1, <1>7, QuietStep DEF StreamInv, data, jobsHere
  <1> QED
    BY <1>1, <1>6, <1>8 DEF StreamInv, ChannelIsRead

LEMMA ExitStep == ASSUME StreamInv, Exit PROVE StreamInv'
  <1>1. /\ UNCHANGED << cur, sess, otp, starting, results, pending, idle, shared, down, server,
                        holder, sent, applied >>
        /\ agent \in {"leaving", "stopping"}
        /\ work' = [j \in SJobs |-> IF j \in Unfinished(handles) THEN "aborted" ELSE work[j]]
        /\ handles' = {} /\ agent' = "gone"
        /\ link' = [s \in Streams |-> FALSE]
        /\ Cut(cur)
        /\ Working \/ Failing
    BY DEF Exit
  <1>2. (known' = FALSE /\ chan' = 0) \/ UNCHANGED << known, chan >>
    BY DEF Exit, Unregister
  <1>3. up \in [Streams -> Seq(Up)] /\ work \in [SJobs -> Work]
    BY DEF StreamInv, StreamTypeOK
  <1>4. TypeWires'
    BY <1>1, <1>3, CutKeepsType, TypeGroups DEF TypeWires, StreamInv
  <1>5. TypeServer'
    <2>1. chan' \in 0 .. StreamMaxFaults + 1
      BY <1>2, StreamAssumption, TypeGroups DEF TypeServer, StreamInv
    <2> QED
      BY <1>1, <2>1, TypeGroups DEF TypeServer, StreamInv
  <1>6. TypeSession'
    BY <1>1, <1>2, Zenon, TypeGroups DEF TypeSession, StreamInv
  <1>7. TypeMain'
    BY <1>1, MainMoves, TypeGroups DEF StreamInv, TypeMain, Agent
  <1>8. TypeJobs'
    <2>1. work' \in [SJobs -> Work]
      BY <1>1, <1>3 DEF Work
    <2> QED
      BY <1>1, <2>1, TypeGroups DEF TypeJobs, StreamInv
  <1>9. StreamTypeOK'
    BY <1>1, <1>4, <1>5, <1>6, <1>7, <1>8, RestStays, TypeGroups, TypeGroupsNext DEF StreamInv
  <1>10. \A j \in SJobs : work'[j] = work[j] \/ (Busy(j) /\ work'[j] = "aborted")
    BY <1>1 DEF Unfinished, Busy
  <1>11. \A j \in SJobs : (Kept(j)' <=> Kept(j)) /\ (Busy(j)' => Busy(j))
    BY <1>1, <1>10 DEF Kept, Busy
  <1>12. \A j \in SJobs : Busy(j) => j \in sent /\ work[j] # "none" /\ work[j] # "done"
    BY DEF StreamInv, HandInv, Busy
  <1>13. SentInv'
    BY <1>1, <1>10, <1>12 DEF StreamInv, SentInv
  <1>14. CommandInv'
    <2>1. \A s \in Streams : \A j \in down[s] : j \in SJobs
      BY DEF StreamInv, StreamTypeOK
    <2> QED
      BY <1>1, <1>10, <1>12, <2>1 DEF StreamInv, CommandInv
  <1>15. HandInv' /\ ShareInv'
    <2>1. \A j \in SJobs : Has(j)' => Has(j)
      BY <1>11 DEF Has
    <2>2. \A j \in SJobs : work[j] = "done" => work'[j] = "done"
      BY <1>10, <1>12
    <2>3. HandInv'
      BY <1>1, <1>11, <2>2 DEF StreamInv, HandInv
    <2>4. ShareInv'
      BY <1>1, <2>1 DEF StreamInv, ShareInv
    <2> QED
      BY <2>3, <2>4
  <1>18. HandleInv'
    <2>1. starting = {} /\ \A j \in SJobs : work[j] = "run" => j \in Unfinished(handles)
      BY <1>1 DEF StreamInv, HandleInv, Unfinished
    <2>2. \A j \in SJobs : work'[j] # "run"
      BY <1>1, <2>1
    <2> QED
      BY <1>1, <2>1, <2>2 DEF HandleInv
  <1>16. WireInv'
    <2>1. NoNew
      BY <1>1, <1>3, CutIsNoNew
    <2>2. ASSUME NEW j \in SJobs, NEW s \in Streams, NEW i \in 1 .. Len(up'[s]), OnWire(j, s, i)'
          PROVE  i \in 1 .. Len(up[s]) /\ OnWire(j, s, i)
      BY <2>1, <2>2 DEF NoNew, OnWire
    <2>3. ASSUME NEW j \in SJobs, NEW s \in Streams, NEW i \in 1 .. Len(up'[s]), OnWire(j, s, i)'
          PROVE  work'[j] = "done" /\ j \in sent' /\ applied'[j] = 0 /\ ~Kept(j)'
      BY <1>1, <1>10, <1>11, <1>12, <2>2, <2>3 DEF StreamInv, WireInv
    <2>4. ASSUME NEW j \in SJobs, NEW s \in Streams, NEW t \in Streams,
                 NEW i \in 1 .. Len(up'[s]), NEW k \in 1 .. Len(up'[t]),
                 OnWire(j, s, i)', OnWire(j, t, k)'
          PROVE  s = t /\ i = k
      BY <2>2, <2>4 DEF StreamInv, WireInv
    <2> QED
      BY <2>3, <2>4 DEF WireInv
  <1>17. ChannelIsRead'
    BY <1>1, <1>2 DEF StreamInv, ChannelIsRead
  <1> QED
    BY <1>9, <1>13, <1>14, <1>15, <1>16, <1>17, <1>18 DEF StreamInv

-----------------------------------------------------------------------------
(* Steps that move a job, its command or its result.                       *)

LEMMA SentCore == ASSUME SentInv, UNCHANGED << work, sent, applied >> PROVE SentInv'
  BY DEF SentInv

LEMMA CommandCore == ASSUME CommandInv, UNCHANGED << work, sent, applied, down >> PROVE CommandInv'
  BY DEF CommandInv

LEMMA Injective ==
    ASSUME NEW j \in SJobs, NEW k \in SJobs, ResultOf(j) = ResultOf(k) PROVE j = k
  BY DEF ResultOf

LEMMA ReceiveStep == ASSUME StreamInv, NEW j \in SJobs, ReceiveRunJob(j) PROVE StreamInv'
  <1>1. /\ UNCHANGED << cur, session, handles, results, pending, up, link, serverSide, sent >>
        /\ shared' = IF Held = {} THEN shared ELSE shared \cup Held \cup {j}
        /\ down' = [down EXCEPT ![cur] = @ \ {j}]
        /\ work' = [work EXCEPT ![j] = "run"]
        /\ starting' = {j} /\ idle' = FALSE /\ agent' = "insert" /\ Working
        /\ j \in down[cur] /\ agent = "live"
    BY DEF ReceiveRunJob, Joins
  <1>2. /\ work \in [SJobs -> Work] /\ down \in [Streams -> SUBSET SJobs]
        /\ shared \subseteq SJobs /\ Held \subseteq SJobs
    BY DEF StreamInv, StreamTypeOK, Held
  <1>3. applied' = applied
    BY <1>1 DEF serverSide
  <1>4. cur \in Streams
    BY <1>1 DEF StreamInv, StreamTypeOK, Streams
  <1>5. /\ j \in sent /\ work[j] = "none" /\ applied[j] = 0
        /\ \A t \in Streams \ {cur} : j \notin down[t]
    BY <1>1, <1>2, <1>4 DEF StreamInv, CommandInv
  <1>8. StreamTypeOK'
    <2>1. TypeMain'
      BY <1>1, MainMoves, TypeGroups DEF StreamInv, Agent
    <2>2. TypeJobs'
      <3>1. work' \in [SJobs -> Work] /\ shared' \subseteq SJobs
        BY <1>1, <1>2 DEF Work
      <3> QED
        BY <1>1, <3>1, TypeGroups DEF TypeJobs, StreamInv
    <2>3. TypeWires'
      <3>1. down' \in [Streams -> SUBSET SJobs]
        BY <1>1, <1>2
      <3> QED
        BY <1>1, <3>1, TypeGroups DEF TypeWires, StreamInv
    <2>4. TypeRest'
      BY <1>1, Zenon, TypeGroups DEF TypeRest, StreamInv
    <2> QED
      BY <1>1, <2>1, <2>2, <2>3, <2>4, SessionStays, ServerStays, TypeGroups, TypeGroupsNext
         DEF StreamInv
  <1>9. work'[j] = "run" /\ \A k \in SJobs \ {j} : work'[k] = work[k]
    BY <1>1, <1>2
  <1>10. SentInv'
    BY <1>1, <1>3, <1>5, <1>9 DEF StreamInv, SentInv
  <1>11. CommandInv'
    <2>1. \A t \in Streams : down'[t] \subseteq down[t] /\ j \notin down'[t]
      BY <1>1, <1>2, <1>4, <1>5
    <2>2. \A t \in Streams : down[t] \subseteq SJobs
      BY <1>2
    <2> QED
      BY <1>1, <1>3, <1>9, <2>1, <2>2 DEF StreamInv, CommandInv
  <1>12. \A k \in SJobs : (Kept(k)' <=> Kept(k)) /\ (k # j => (Busy(k)' <=> Busy(k)))
    BY <1>1, <1>9 DEF Kept, Busy
  <1>6. HandInv'
    <2>1. \A k \in SJobs : work[k] = "done" => work'[k] = "done"
      BY <1>5, <1>9
    <2> QED
      BY <1>1, <1>3, <1>5, <1>12, <2>1 DEF StreamInv, HandInv
  <1>7. ShareInv'
    <2>1. \A k \in SJobs : k # j => (Has(k)' <=> k \in Held)
      BY <1>12 DEF Has, Held
    <2>2. \A k \in SJobs : k # j /\ Has(k)' => k \in shared' /\ j \in shared'
      BY <1>1, <2>1
    <2> QED
      BY <1>1, <2>2 DEF ShareInv
  <1>15. HandleInv'
    BY <1>1, <1>9 DEF StreamInv, HandleInv
  <1>13. WireInv'
    <2>1. \A k \in SJobs : (Kept(k)' <=> Kept(k)) /\ (work[k] = "done" => work'[k] = "done")
      BY <1>5, <1>9, <1>12
    <2>2. \A k \in SJobs, s \in Streams, i \in Nat : OnWire(k, s, i)' <=> OnWire(k, s, i)
      BY <1>1 DEF OnWire
    <2> QED
      BY <1>1, <1>3, <2>1, <2>2 DEF StreamInv, WireInv, OnWire
  <1>14. ChannelIsRead'
    BY <1>1 DEF StreamInv, ChannelIsRead, serverSide
  <1> QED
    BY <1>6, <1>7, <1>8, <1>10, <1>11, <1>13, <1>14, <1>15 DEF StreamInv

LEMMA JobEndsStep == ASSUME StreamInv, NEW j \in SJobs, JobEnds(j) PROVE StreamInv'
  <1>1. /\ UNCHANGED << agent, cur, session, starting, results, pending, idle, shared, wires, serverSide,
                        sent >>
        /\ work[j] = "run" /\ work' = [work EXCEPT ![j] = "send"]
        /\ handles' = handles \ {j} /\ Working
    BY DEF JobEnds
  <1>2. work \in [SJobs -> Work]
    BY DEF StreamInv, StreamTypeOK
  <1>3. work'[j] = "send" /\ \A k \in SJobs \ {j} : work'[k] = work[k]
    BY <1>1, <1>2
  <1>4. StreamTypeOK'
    <2>1. TypeMain'
      BY <1>1, MainMoves, TypeGroups DEF StreamInv, TypeMain
    <2>2. work' \in [SJobs -> Work]
      BY <1>1, <1>2 DEF Work
    <2>3. TypeJobs'
      BY <1>1, <2>2, TypeGroups DEF TypeJobs, StreamInv
    <2> QED
      BY <1>1, <2>1, <2>3, SessionStays, WiresStay, ServerStays, RestStays, TypeGroups,
         TypeGroupsNext DEF StreamInv
  <1>5. applied' = applied /\ down' = down /\ up' = up
    BY <1>1 DEF serverSide, wires
  <1>6. \A k \in SJobs : (Kept(k)' <=> Kept(k)) /\ (Busy(k)' <=> Busy(k))
    BY <1>1, <1>3 DEF Kept, Busy
  <1>7. \A k \in SJobs : (work'[k] = "done" <=> work[k] = "done") /\ (work'[k] = "none" <=> work[k] = "none")
    BY <1>1, <1>3
  <1>8. SentInv'
    BY <1>1, <1>5, <1>7 DEF StreamInv, SentInv
  <1>9. CommandInv'
    <2>1. \A s \in Streams : down[s] \subseteq SJobs
      BY DEF StreamInv, StreamTypeOK
    <2> QED
      BY <1>1, <1>5, <1>7, <2>1 DEF StreamInv, CommandInv
  <1>10. HandInv' /\ ShareInv' /\ HandleInv'
    <2>1. HandInv'
      BY <1>1, <1>5, <1>6, <1>7 DEF StreamInv, HandInv
    <2>2. ShareInv'
      <3>1. \A k \in SJobs : Has(k)' <=> Has(k)
        BY <1>6 DEF Has
      <3> QED
        BY <1>1, <3>1 DEF StreamInv, ShareInv
    <2>3. HandleInv'
      BY <1>1, <1>3 DEF StreamInv, HandleInv
    <2> QED
      BY <2>1, <2>2, <2>3
  <1>11. WireInv'
    <2>1. \A k \in SJobs, s \in Streams, i \in Nat : OnWire(k, s, i)' <=> OnWire(k, s, i)
      BY <1>5 DEF OnWire
    <2> QED
      BY <1>1, <1>5, <1>6, <1>7, <2>1 DEF StreamInv, WireInv, OnWire
  <1>12. ChannelIsRead'
    BY <1>1 DEF StreamInv, ChannelIsRead, serverSide
  <1> QED
    BY <1>4, <1>8, <1>9, <1>10, <1>11, <1>12 DEF StreamInv

LEMMA JobReportsStep == ASSUME StreamInv, NEW j \in SJobs, JobReports(j) PROVE StreamInv'
  <1>1. /\ UNCHANGED << agent, cur, session, starting, handles, pending, idle, shared, wires, serverSide,
                        sent >>
        /\ work[j] = "send" /\ work' = [work EXCEPT ![j] = "done"]
        /\ results' = Append(results, j) /\ Working
    BY DEF JobReports
  <1>2. work \in [SJobs -> Work] /\ results \in Seq(SJobs) /\ pending \in Seq(SJobs)
    BY DEF StreamInv, StreamTypeOK
  <1>3. work'[j] = "done" /\ \A k \in SJobs \ {j} : work'[k] = work[k]
    BY <1>1, <1>2
  <1>4. Busy(j) /\ j \in sent /\ applied[j] = 0 /\ ~Kept(j)
    BY <1>1 DEF StreamInv, HandInv, Busy
  <1>5. /\ Len(results') = Len(results) + 1 /\ results'[Len(results) + 1] = j
        /\ \A i \in 1 .. Len(results) : results'[i] = results[i]
        /\ Len(results) \in Nat
    BY <1>1, <1>2
  <1>6. StreamTypeOK'
    <2>1. TypeMain'
      BY <1>1, MainMoves, TypeGroups DEF StreamInv, TypeMain
    <2>2. work' \in [SJobs -> Work] /\ results' \in Seq(SJobs)
      BY <1>1, <1>2 DEF Work
    <2>3. TypeJobs'
      BY <1>1, <2>2, TypeGroups DEF TypeJobs, StreamInv
    <2> QED
      BY <1>1, <2>1, <2>3, SessionStays, WiresStay, ServerStays, RestStays, TypeGroups,
         TypeGroupsNext DEF StreamInv
  <1>7. applied' = applied /\ down' = down /\ up' = up
    BY <1>1 DEF serverSide, wires
  <1>8. \A k \in SJobs : Busy(k)' <=> Busy(k) /\ k # j
    BY <1>3 DEF Busy
  <1>9. \A k \in SJobs : Kept(k)' <=> Kept(k) \/ k = j
    <2>1. \A i \in 1 .. Len(results') : i \in 1 .. Len(results) \/ i = Len(results) + 1
      BY <1>5
    <2>2. \A i \in 1 .. Len(results) : i \in 1 .. Len(results')
      BY <1>5
    <2>3. Len(results) + 1 \in 1 .. Len(results')
      BY <1>5
    <2> QED
      BY <1>1, <1>5, <2>1, <2>2, <2>3 DEF Kept
  <1>10. SentInv'
    BY <1>1, <1>3, <1>4, <1>7 DEF StreamInv, SentInv
  <1>11. CommandInv'
    <2>1. \A s \in Streams : down[s] \subseteq SJobs
      BY DEF StreamInv, StreamTypeOK
    <2> QED
      BY <1>1, <1>3, <1>7, <2>1 DEF StreamInv, CommandInv
  <1>12. HandInv' /\ ShareInv' /\ HandleInv'
    <2>1. \A k \in SJobs : Kept(k)' => work'[k] = "done" /\ k \in sent' /\ applied'[k] = 0
      BY <1>1, <1>3, <1>4, <1>7, <1>9 DEF StreamInv, HandInv
    <2>2. \A i \in 1 .. Len(results) : results[i] # j
      BY <1>4 DEF Kept
    <2>3. \A i, k \in 1 .. Len(results') : results'[i] = results'[k] => i = k
      <3>1. \A i \in 1 .. Len(results') : i \in 1 .. Len(results) \/ i = Len(results) + 1
        BY <1>5
      <3> QED
        BY <1>5, <2>2, <3>1 DEF StreamInv, HandInv
    <2>4. \A i \in 1 .. Len(results'), k \in 1 .. Len(pending') : results'[i] # pending'[k]
      <3>1. \A i \in 1 .. Len(results') : i \in 1 .. Len(results) \/ i = Len(results) + 1
        BY <1>5
      <3>2. \A k \in 1 .. Len(pending) : pending[k] # j
        BY <1>4 DEF Kept
      <3> QED
        BY <1>1, <1>5, <3>1, <3>2 DEF StreamInv, HandInv
    <2>5. HandInv'
      BY <1>1, <1>7, <1>8, <2>1, <2>3, <2>4 DEF StreamInv, HandInv
    <2>6. ShareInv'
      <3>1. \A k \in SJobs : Has(k)' <=> Has(k)
        BY <1>4, <1>8, <1>9 DEF Has
      <3> QED
        BY <1>1, <3>1 DEF StreamInv, ShareInv
    <2>7. HandleInv'
      BY <1>1, <1>3 DEF StreamInv, HandleInv
    <2> QED
      BY <2>5, <2>6, <2>7
  <1>13. WireInv'
    <2>1. \A k \in SJobs, s \in Streams, i \in Nat : OnWire(k, s, i)' <=> OnWire(k, s, i)
      BY <1>7 DEF OnWire
    <2>2. \A s \in Streams, i \in Nat : ~OnWire(j, s, i)
      BY <1>1 DEF StreamInv, WireInv, OnWire
    <2>3. ASSUME NEW k \in SJobs, NEW s \in Streams, NEW i \in 1 .. Len(up'[s]), OnWire(k, s, i)'
          PROVE  k # j /\ OnWire(k, s, i) /\ i \in 1 .. Len(up[s])
      BY <1>7, <2>1, <2>2, <2>3 DEF OnWire
    <2>4. ASSUME NEW k \in SJobs, NEW s \in Streams, NEW i \in 1 .. Len(up'[s]), OnWire(k, s, i)'
          PROVE  work'[k] = "done" /\ k \in sent' /\ applied'[k] = 0 /\ ~Kept(k)'
      BY <1>1, <1>3, <1>7, <1>9, <2>3, <2>4 DEF StreamInv, WireInv
    <2>5. ASSUME NEW k \in SJobs, NEW s \in Streams, NEW t \in Streams,
                 NEW i \in 1 .. Len(up'[s]), NEW m \in 1 .. Len(up'[t]),
                 OnWire(k, s, i)', OnWire(k, t, m)'
          PROVE  s = t /\ i = m
      BY <2>3, <2>5 DEF StreamInv, WireInv
    <2> QED
      BY <2>4, <2>5 DEF WireInv
  <1>14. ChannelIsRead'
    BY <1>1 DEF StreamInv, ChannelIsRead, serverSide
  <1> QED
    BY <1>6, <1>10, <1>11, <1>12, <1>13, <1>14 DEF StreamInv

LEMMA SendToWorkerStep == ASSUME StreamInv, NEW j \in SJobs, SendToWorker(j) PROVE StreamInv'
  <1>1. /\ UNCHANGED << agent, cur, session, jobsHere, up, link, serverSide >>
        /\ j \notin sent
        /\ sent' = sent \cup {j} /\ Working /\ chan # 0
        /\ down' = down \/ down' = [down EXCEPT ![chan] = @ \cup {j}]
    BY DEF SendToWorker
  <1>2. /\ down \in [Streams -> SUBSET SJobs] /\ sent \subseteq SJobs
        /\ chan \in Streams /\ applied \in [SJobs -> Nat]
    BY <1>1 DEF StreamInv, StreamTypeOK, Streams
  <1>3. work[j] = "none" /\ applied[j] = 0 /\ \A t \in Streams : j \notin down[t]
    BY <1>1, <1>2 DEF StreamInv, SentInv, CommandInv
  <1>4. StreamTypeOK'
    <2>1. TypeMain'
      BY <1>1, MainMoves, TypeGroups DEF StreamInv, TypeMain
    <2>2. down' \in [Streams -> SUBSET SJobs]
      BY <1>1, <1>2
    <2>3. TypeWires'
      BY <1>1, <2>2, TypeGroups DEF TypeWires, StreamInv
    <2>4. TypeRest'
      <3>1. idle' \in BOOLEAN
        BY <1>1, Zenon, TypeGroups DEF TypeRest, StreamInv, jobsHere
      <3>2. sent' \subseteq SJobs
        BY <1>1, <1>2
      <3> QED
        BY <3>1, <3>2 DEF TypeRest
    <2> QED
      BY <1>1, <2>1, <2>3, <2>4, SessionStays, JobsStay, ServerStays, TypeGroups, TypeGroupsNext
         DEF StreamInv
  <1>5. applied' = applied /\ UNCHANGED << work, results, pending, idle, up >>
    BY <1>1 DEF jobsHere, serverSide
  <1>6. SentInv'
    BY <1>1, <1>5 DEF StreamInv, SentInv
  <1>7. CommandInv'
    <2>1. \A t \in Streams : down'[t] = down[t] \/ (t = chan /\ down'[t] = down[t] \cup {j})
      BY <1>1, <1>2
    <2> QED
      BY <1>1, <1>3, <1>5, <2>1 DEF StreamInv, CommandInv
  <1>8. \A k \in SJobs : (Kept(k)' <=> Kept(k)) /\ (Busy(k)' <=> Busy(k))
    BY <1>5 DEF Kept, Busy
  <1>9. HandInv' /\ ShareInv' /\ HandleInv'
    <2>1. HandInv'
      BY <1>1, <1>5, <1>8 DEF StreamInv, HandInv
    <2>2. ShareInv'
      <3>1. \A k \in SJobs : Has(k)' <=> Has(k)
        BY <1>8 DEF Has
      <3> QED
        BY <1>1, <1>5, <3>1 DEF StreamInv, ShareInv, jobsHere
    <2>3. HandleInv'
      BY <1>1, HandleStays DEF StreamInv, jobsHere
    <2> QED
      BY <2>1, <2>2, <2>3
  <1>10. WireInv'
    <2>1. \A k \in SJobs, s \in Streams, i \in Nat : OnWire(k, s, i)' <=> OnWire(k, s, i)
      BY <1>5 DEF OnWire
    <2> QED
      BY <1>1, <1>5, <1>8, <2>1 DEF StreamInv, WireInv, OnWire
  <1>11. ChannelIsRead'
    BY <1>1 DEF StreamInv, ChannelIsRead, serverSide
  <1> QED
    BY <1>4, <1>6, <1>7, <1>9, <1>10, <1>11 DEF StreamInv

LEMMA OpenStep == ASSUME StreamInv, OpenStream PROVE StreamInv'
  <1> DEFINE n == cur + 1
             drained == [i \in DOMAIN pending |-> ResultOf(pending[i])]
  <1>1. /\ UNCHANGED << session, work, starting, handles, results, idle, shared, down, holder, chan, sent,
                        applied >>
        /\ agent = "open"
        /\ n \in Streams /\ cur' = n
        /\ up' = [up EXCEPT ![n] = drained]
        /\ pending' = << >> /\ agent' = "live" /\ Working
        /\ link' = [link EXCEPT ![n] = TRUE]
        /\ server' = [server EXCEPT ![n] = "reading"]
    BY DEF OpenStream
  <1>2. /\ up \in [Streams -> Seq(Up)] /\ pending \in Seq(SJobs) /\ results \in Seq(SJobs)
        /\ server \in [Streams -> {"none", "reading", "ended"}]
    BY DEF StreamInv, StreamTypeOK
  <1>3. DOMAIN pending = 1 .. Len(pending) /\ \A i \in 1 .. Len(pending) : pending[i] \in SJobs
    BY <1>2
  <1>4. drained \in Seq(Up) /\ Len(drained) = Len(pending)
        /\ \A i \in 1 .. Len(pending) : drained[i] = ResultOf(pending[i])
    <2>1. \A i \in 1 .. Len(pending) : ResultOf(pending[i]) \in Up
      BY <1>3 DEF Up
    <2>2. Len(pending) \in Nat
      BY <1>2
    <2> QED
      BY <1>3, <2>1, <2>2
  <1> HIDE DEF drained
  <1>5. StreamTypeOK'
    <2>1. TypeMain'
      <3>1. sFaults' \in 0 .. StreamMaxFaults
        BY <1>1, Faults, TypeGroups DEF StreamInv
      <3> QED
        BY <1>1, <3>1 DEF TypeMain, Agent, Streams
    <2>2. up' \in [Streams -> Seq(Up)]
      BY <1>1, <1>2, <1>4
    <2>3. TypeWires'
      BY <1>1, <2>2, TypeGroups DEF TypeWires, StreamInv
    <2>4. TypeServer'
      BY <1>1, TypeGroups DEF TypeServer, StreamInv
    <2>5. TypeJobs'
      BY <1>1, TypeGroups DEF TypeJobs, StreamInv
    <2> QED
      BY <1>1, <2>1, <2>3, <2>4, <2>5, SessionStays, RestStays, TypeGroups, TypeGroupsNext
         DEF StreamInv
  <1>6. SentInv' /\ CommandInv'
    BY <1>1, SentCore, CommandCore DEF StreamInv
  <1>7. \A k \in SJobs : (Kept(k)' => Kept(k)) /\ (Busy(k)' <=> Busy(k))
    BY <1>1 DEF Kept, Busy
  <1>8. HandInv' /\ ShareInv' /\ HandleInv'
    <2>1. HandInv'
      BY <1>1, <1>7 DEF StreamInv, HandInv
    <2>2. ShareInv'
      <3>1. \A k \in SJobs : Has(k)' => Has(k)
        BY <1>7 DEF Has
      <3> QED
        BY <1>1, <3>1 DEF StreamInv, ShareInv
    <2>3. HandleInv'
      BY <1>1, HandleStays DEF StreamInv
    <2> QED
      BY <2>1, <2>2, <2>3
  <1>9. WireInv'
    <2>1. ASSUME NEW k \in SJobs, NEW t \in Streams, NEW i \in 1 .. Len(up'[t]), OnWire(k, t, i)'
          PROVE  \/ t # n /\ i \in 1 .. Len(up[t]) /\ OnWire(k, t, i)
                 \/ t = n /\ i \in 1 .. Len(pending) /\ pending[i] = k
      <3>1. CASE t # n
        BY <1>1, <1>2, <2>1, <3>1 DEF OnWire
      <3>2. CASE t = n
        <4>1. up'[n] = drained
          BY <1>1, <1>2
        <4>2. i \in 1 .. Len(pending) /\ ResultOf(pending[i]) = ResultOf(k)
          BY <1>4, <2>1, <3>2, <4>1 DEF OnWire
        <4>3. pending[i] = k
          BY <1>3, <4>2, Injective
        <4> QED
          BY <3>2, <4>2, <4>3
      <3> QED
        BY <3>1, <3>2
    <2>2. ASSUME NEW k \in SJobs, NEW m \in 1 .. Len(pending), pending[m] = k
          PROVE  /\ work[k] = "done" /\ k \in sent /\ applied[k] = 0 /\ ~Kept(k)'
                 /\ \A t \in Streams : \A i \in 1 .. Len(up[t]) : ~OnWire(k, t, i)
      <3>1. Kept(k)
        BY <2>2 DEF Kept
      <3>2. \A i \in 1 .. Len(results) : results[i] # k
        BY <2>2 DEF StreamInv, HandInv
      <3>3. ~Kept(k)'
        BY <1>1, <3>2 DEF Kept
      <3> QED
        BY <3>1, <3>3 DEF StreamInv, HandInv, WireInv
    <2>3. ASSUME NEW k \in SJobs, NEW t \in Streams, NEW i \in 1 .. Len(up'[t]), OnWire(k, t, i)'
          PROVE  work'[k] = "done" /\ k \in sent' /\ applied'[k] = 0 /\ ~Kept(k)'
      BY <1>1, <1>7, <2>1, <2>2, <2>3 DEF StreamInv, WireInv
    <2>4. ASSUME NEW k \in SJobs, NEW t \in Streams, NEW u \in Streams,
                 NEW i \in 1 .. Len(up'[t]), NEW m \in 1 .. Len(up'[u]),
                 OnWire(k, t, i)', OnWire(k, u, m)'
          PROVE  t = u /\ i = m
      <3>1. CASE t # n /\ u # n
        BY <2>1, <2>4, <3>1 DEF StreamInv, WireInv
      <3>2. CASE t = n /\ u = n
        BY <2>1, <2>4, <3>2 DEF StreamInv, HandInv
      <3>3. CASE (t = n /\ u # n) \/ (t # n /\ u = n)
        BY <2>1, <2>2, <2>4, <3>3
      <3> QED
        BY <3>1, <3>2, <3>3
    <2> QED
      BY <2>3, <2>4 DEF WireInv
  <1>10. ChannelIsRead'
    <2>1. chan # 0 => server'[chan] = "reading"
      BY <1>1, <1>2 DEF StreamInv, StreamTypeOK, ChannelIsRead, Streams
    <2> QED
      BY <1>1, <2>1 DEF StreamInv, ChannelIsRead
  <1> QED
    BY <1>5, <1>6, <1>8, <1>9, <1>10 DEF StreamInv

LEMMA SendResultStep == ASSUME StreamInv, SendResult PROVE StreamInv'
  <1> DEFINE h == Head(results)
  <1>1. /\ UNCHANGED << cur, session, work, starting, handles, shared, down, link, serverSide, sent >>
        /\ results # << >> /\ results' = Tail(results) /\ Working /\ agent = "live"
        /\ \/ Push(ResultOf(h)) /\ idle' = TRUE /\ UNCHANGED << agent, pending >>
           \/ /\ pending' = Append(pending, h) /\ agent' = "register"
              /\ UNCHANGED << up, idle >>
    BY DEF SendResult
  <1>2. up \in [Streams -> Seq(Up)] /\ pending \in Seq(SJobs) /\ results \in Seq(SJobs)
    BY DEF StreamInv, StreamTypeOK
  <1>3. /\ h = results[1] /\ h \in SJobs /\ results' \in Seq(SJobs) /\ 1 \in 1 .. Len(results)
        /\ \A i \in 1 .. Len(results') : i + 1 \in 1 .. Len(results) /\ results'[i] = results[i + 1]
    BY <1>1, <1>2
  <1>4. \A i \in 1 .. Len(results) : i = 1 \/ (i - 1 \in 1 .. Len(results') /\ results'[i - 1] = results[i])
    BY <1>1, <1>2
  <1> HIDE DEF h
  <1>5. Kept(h) /\ work[h] = "done" /\ h \in sent /\ applied[h] = 0
    BY <1>3 DEF Kept, StreamInv, HandInv
  <1>6. /\ \A i \in 1 .. Len(results') : results'[i] # h
        /\ \A i, k \in 1 .. Len(results') : results'[i] = results'[k] => i = k
        /\ \A k \in 1 .. Len(pending) : pending[k] # h
        /\ \A i \in 1 .. Len(results'), k \in 1 .. Len(pending) : results'[i] # pending[k]
    <2>1. \A i \in 1 .. Len(results') : i + 1 # 1
      OBVIOUS
    <2>2. \A i, k \in 1 .. Len(results') : i + 1 = k + 1 => i = k
      OBVIOUS
    <2> QED
      BY <1>3, <2>1, <2>2 DEF StreamInv, HandInv
  <1>7. \A k \in SJobs : (\E i \in 1 .. Len(results') : results'[i] = k)
                            <=> (\E i \in 1 .. Len(results) : results[i] = k) /\ k # h
    <2>1. ASSUME NEW k \in SJobs, NEW i \in 1 .. Len(results'), results'[i] = k
          PROVE  (\E m \in 1 .. Len(results) : results[m] = k) /\ k # h
      BY <1>3, <1>6, <2>1
    <2>2. ASSUME NEW k \in SJobs, NEW i \in 1 .. Len(results), results[i] = k, k # h
          PROVE  \E m \in 1 .. Len(results') : results'[m] = k
      <3>1. i - 1 \in 1 .. Len(results') /\ results'[i - 1] = k
        BY <1>3, <1>4, <2>2
      <3> QED
        BY <3>1
    <2> QED
      BY <2>1, <2>2
  <1>8. \A t \in Streams : \A i \in 1 .. Len(up[t]) : ~OnWire(h, t, i)
    BY <1>3, <1>5 DEF StreamInv, WireInv
  <1>9. ResultOf(h) \in Up
    BY <1>3 DEF Up
  <1>10. StreamTypeOK'
    <2>1. TypeMain'
      BY <1>1, MainMoves, TypeGroups DEF StreamInv, Agent
    <2>2. up' \in [Streams -> Seq(Up)]
      BY <1>1, <1>2, <1>9, PushKeepsType
    <2>3. TypeWires'
      BY <1>1, <2>2, TypeGroups DEF TypeWires, StreamInv
    <2>4. pending' \in Seq(SJobs)
      <3>1. Append(pending, h) \in Seq(SJobs)
        BY <1>2, <1>3
      <3>2. pending' = pending \/ pending' = Append(pending, h)
        BY <1>1
      <3> QED
        BY <1>2, <3>1, <3>2
    <2>5. TypeJobs'
      BY <1>1, <1>3, <2>4, TypeGroups DEF TypeJobs, StreamInv
    <2>6. idle' \in BOOLEAN
      BY <1>1, Zenon, TypeGroups DEF TypeRest, StreamInv
    <2>7. TypeRest'
      BY <1>1, <2>6, TypeGroups DEF TypeRest, StreamInv
    <2> QED
      BY <1>1, <2>1, <2>3, <2>5, <2>7, SessionStays, ServerStays, TypeGroups, TypeGroupsNext
         DEF StreamInv
  <1>11. applied' = applied
    BY <1>1 DEF serverSide
  <1>12. SentInv' /\ CommandInv'
    BY <1>1, <1>11, SentCore, CommandCore DEF StreamInv
  <1>13. \A k \in SJobs : Busy(k)' <=> Busy(k)
    BY <1>1 DEF Busy
  <1>18. HandleInv'
    BY <1>1, HandleStays DEF StreamInv
  <1>14. ASSUME Push(ResultOf(h)), idle' = TRUE, UNCHANGED << agent, pending >>
         PROVE  HandInv' /\ ShareInv' /\ WireInv'
    <2>1. \A k \in SJobs : Kept(k)' <=> Kept(k) /\ k # h
      BY <1>6, <1>7, <1>14 DEF Kept
    <2>2. HandInv' /\ ShareInv'
      <3>1. HandInv'
        BY <1>1, <1>6, <1>11, <1>13, <1>14, <2>1 DEF StreamInv, HandInv
      <3>2. \A k \in SJobs : Has(k)' => Has(k) /\ k # h
        BY <1>5, <1>13, <2>1 DEF Has, Busy
      <3>3. Has(h)
        BY <1>5 DEF Has
      <3>4. \A k \in SJobs : Has(k)' => k \in shared
        BY <1>3, <3>2, <3>3 DEF StreamInv, ShareInv
      <3> QED
        BY <1>1, <3>1, <3>4 DEF ShareInv
    <2>3. ASSUME NEW k \in SJobs, NEW t \in Streams, NEW i \in 1 .. Len(up'[t]), OnWire(k, t, i)'
          PROVE  \/ i \in 1 .. Len(up[t]) /\ OnWire(k, t, i)
                 \/ k = h /\ t = cur /\ i = Len(up[cur]) + 1
      <3>1. CASE up' = up
        BY <2>3, <3>1 DEF OnWire
      <3>2. CASE cur \in Streams /\ up' = [up EXCEPT ![cur] = Append(@, ResultOf(h))]
        <4>1. up'[cur] = Append(up[cur], ResultOf(h)) /\ (t # cur => up'[t] = up[t]) /\ up[cur] \in Seq(Up)
          BY <1>2, <3>2
        <4>2. CASE t # cur
          BY <2>3, <4>1, <4>2 DEF OnWire
        <4>3. CASE t = cur /\ i \in 1 .. Len(up[cur])
          <5>1. up'[t][i] = up[t][i]
            BY <4>1, <4>3
          <5> QED
            BY <2>3, <4>3, <5>1 DEF OnWire
        <4>4. CASE t = cur /\ i = Len(up[cur]) + 1
          <5>1. up'[t][i] = ResultOf(h)
            BY <4>1, <4>4
          <5> QED
            BY <1>3, <2>3, <4>4, <5>1, Injective DEF OnWire
        <4>5. t = cur => i \in 1 .. Len(up[cur]) \/ i = Len(up[cur]) + 1
          BY <4>1
        <4> QED
          BY <4>2, <4>3, <4>4, <4>5
      <3> QED
        <4>1. cur \in Streams
          BY <1>1 DEF StreamInv, StreamTypeOK, Streams
        <4> QED
          BY <1>14, <3>1, <3>2, <4>1 DEF Push
    <2>4. ASSUME NEW k \in SJobs, NEW t \in Streams, NEW i \in 1 .. Len(up'[t]), OnWire(k, t, i)'
          PROVE  work'[k] = "done" /\ k \in sent' /\ applied'[k] = 0 /\ ~Kept(k)'
      BY <1>1, <1>5, <1>11, <2>1, <2>3, <2>4 DEF StreamInv, WireInv
    <2>5. ASSUME NEW k \in SJobs, NEW t \in Streams, NEW u \in Streams,
                 NEW i \in 1 .. Len(up'[t]), NEW m \in 1 .. Len(up'[u]),
                 OnWire(k, t, i)', OnWire(k, u, m)'
          PROVE  t = u /\ i = m
      BY <1>8, <2>3, <2>5 DEF StreamInv, WireInv
    <2> QED
      BY <2>2, <2>4, <2>5 DEF WireInv
  <1>15. ASSUME pending' = Append(pending, h), agent' = "register", UNCHANGED << up, idle >>
         PROVE  HandInv' /\ ShareInv' /\ WireInv'
    <2>1. /\ Len(pending') = Len(pending) + 1 /\ pending'[Len(pending) + 1] = h
          /\ \A i \in 1 .. Len(pending) : pending'[i] = pending[i]
          /\ Len(pending) \in Nat
      BY <1>2, <1>15
    <2>2. /\ \A i \in 1 .. Len(pending') : i \in 1 .. Len(pending) \/ i = Len(pending) + 1
          /\ \A i \in 1 .. Len(pending) : i \in 1 .. Len(pending')
          /\ Len(pending) + 1 \in 1 .. Len(pending')
      BY <2>1
    <2>3. \A k \in SJobs : (\E i \in 1 .. Len(pending') : pending'[i] = k)
                              <=> (\E i \in 1 .. Len(pending) : pending[i] = k) \/ k = h
      BY <2>1, <2>2
    <2>4. \A k \in SJobs : Kept(k)' <=> Kept(k)
      BY <1>5, <1>7, <2>3 DEF Kept
    <2>5. \A i, k \in 1 .. Len(pending') : pending'[i] = pending'[k] => i = k
      BY <1>6, <2>1, <2>2 DEF StreamInv, HandInv
    <2>6. \A i \in 1 .. Len(results'), k \in 1 .. Len(pending') : results'[i] # pending'[k]
      BY <1>6, <2>1, <2>2
    <2>7. HandInv'
      BY <1>1, <1>6, <1>11, <1>13, <2>4, <2>5, <2>6 DEF StreamInv, HandInv
    <2>8. ShareInv'
      <3>1. \A k \in SJobs : Has(k)' <=> Has(k)
        BY <1>13, <2>4 DEF Has
      <3> QED
        BY <1>1, <1>15, <3>1 DEF StreamInv, ShareInv
    <2>9. \A k \in SJobs, t \in Streams : \A i \in 1 .. Len(up[t]) : OnWire(k, t, i)' <=> OnWire(k, t, i)
      BY <1>15 DEF OnWire
    <2>10. WireInv'
      BY <1>1, <1>11, <1>15, <2>4, <2>9 DEF StreamInv, WireInv
    <2> QED
      BY <2>7, <2>8, <2>10
  <1>16. HandInv' /\ ShareInv' /\ WireInv'
    BY <1>1, <1>14, <1>15
  <1>17. ChannelIsRead'
    BY <1>1 DEF StreamInv, ChannelIsRead, serverSide
  <1> QED
    BY <1>10, <1>12, <1>16, <1>17, <1>18 DEF StreamInv

LEMMA ReadsStep == ASSUME StreamInv, NEW s \in Streams, ServerReads(s) PROVE StreamInv'
  <1>1. /\ UNCHANGED << agent, cur, session, jobsHere, down, link, server, sent >>
        /\ server[s] = "reading" /\ up[s] # << >> /\ Working
        /\ up' = [up EXCEPT ![s] = Tail(@)]
    BY DEF ServerReads
  <1>2. /\ up \in [Streams -> Seq(Up)] /\ holder \in [Streams -> BOOLEAN]
        /\ applied \in [SJobs -> Nat] /\ chan \in 0 .. StreamMaxFaults + 1
        /\ up[s] \in Seq(Up) /\ sent \subseteq SJobs
    BY DEF StreamInv, StreamTypeOK
  <1>3. /\ up'[s] = Tail(up[s]) /\ \A t \in Streams \ {s} : up'[t] = up[t]
        /\ Head(up[s]) = up[s][1] /\ 1 \in 1 .. Len(up[s])
        /\ \A i \in 1 .. Len(Tail(up[s])) : i + 1 \in 1 .. Len(up[s]) /\ Tail(up[s])[i] = up[s][i + 1]
    BY <1>1, <1>2
  <1>4. UNCHANGED << work, results, pending, idle >>
    BY <1>1 DEF jobsHere
  <1>5. up' \in [Streams -> Seq(Up)]
    <2>1. Tail(up[s]) \in Seq(Up)
      BY <1>1, <1>2
    <2> QED
      BY <1>1, <1>2, <2>1
  <1>6. \/ OnHeartbeat(s)
        \/ OnSelfTerminate(s)
        \/ OnResult(s)
    BY DEF ServerReads
  \* The channel and the holder.
  <1>7. /\ holder' \in [Streams -> BOOLEAN] /\ chan' \in 0 .. StreamMaxFaults + 1
        /\ ChannelIsRead'
    <2>1. CASE OnHeartbeat(s)
      <3>1. holder' = [holder EXCEPT ![s] = TRUE] /\ (chan' = chan \/ chan' = s)
        BY <2>1 DEF OnHeartbeat
      <3>2. holder' \in [Streams -> BOOLEAN] /\ holder'[s] /\ \A t \in Streams : holder[t] => holder'[t]
        BY <1>2, <3>1
      <3>3. chan' \in 0 .. StreamMaxFaults + 1
        BY <1>2, <3>1 DEF Streams
      <3>4. ChannelIsRead'
        BY <1>1, <1>2, <3>1, <3>2 DEF StreamInv, ChannelIsRead, Streams
      <3> QED
        BY <3>2, <3>3, <3>4
    <2>2. CASE OnSelfTerminate(s)
      BY <1>2, <2>2, StreamAssumption DEF OnSelfTerminate, ChannelIsRead
    <2>3. CASE OnResult(s)
      BY <1>1, <1>2, <2>3 DEF OnResult, StreamInv, ChannelIsRead
    <2> QED
      BY <1>6, <2>1, <2>2, <2>3
  \* The result that was read.
  <1>8. \/ applied' = applied
        \/ \E j \in SJobs : /\ up[s][1] = ResultOf(j)
                            /\ applied' = [applied EXCEPT ![j] = @ + 1]
    <2>1. CASE OnResult(s)
      <3>1. up[s][1] \in Up /\ up[s][1].type = "result"
        BY <1>2, <1>3, <2>1 DEF OnResult
      <3>2. PICK j \in SJobs : up[s][1] = ResultOf(j)
        BY <3>1 DEF Up, Beat, SelfTerminate
      <3>3. up[s][1].job = j
        BY <3>2 DEF ResultOf
      <3> QED
        BY <1>3, <2>1, <3>2, <3>3 DEF OnResult
    <2> QED
      BY <1>6, <2>1 DEF OnHeartbeat, OnSelfTerminate
  <1>9. StreamTypeOK'
    <2>1. TypeMain'
      BY <1>1, MainMoves, TypeGroups DEF StreamInv, TypeMain
    <2>2. TypeWires'
      BY <1>1, <1>5, TypeGroups DEF TypeWires, StreamInv
    <2>3. applied' \in [SJobs -> Nat]
      BY <1>2, <1>8
    <2>4. TypeServer'
      BY <1>1, <1>7, <2>3, TypeGroups DEF TypeServer, StreamInv
    <2> QED
      BY <1>1, <2>1, <2>2, <2>4, SessionStays, JobsStay, RestStays, TypeGroups, TypeGroupsNext
         DEF StreamInv, jobsHere
  \* Where a result is after the step.
  <1>10. ASSUME NEW k \in SJobs, NEW t \in Streams, NEW i \in 1 .. Len(up'[t]), OnWire(k, t, i)'
         PROVE  \/ t # s /\ i \in 1 .. Len(up[t]) /\ OnWire(k, t, i)
                \/ t = s /\ i + 1 \in 1 .. Len(up[s]) /\ OnWire(k, s, i + 1)
    <2>1. CASE t # s
      BY <1>3, <1>10, <2>1 DEF OnWire
    <2>2. CASE t = s
      BY <1>3, <1>10, <2>2 DEF OnWire
    <2> QED
      BY <2>1, <2>2
  <1>11. \A k \in SJobs : (Kept(k)' <=> Kept(k)) /\ (Busy(k)' <=> Busy(k))
    BY <1>4 DEF Kept, Busy
  <1>12. ShareInv' /\ HandleInv'
    <2>1. \A k \in SJobs : Has(k)' <=> Has(k)
      BY <1>11 DEF Has
    <2>2. ShareInv'
      BY <1>1, <1>4, <2>1 DEF StreamInv, ShareInv, jobsHere
    <2>3. HandleInv'
      BY <1>1, HandleStays DEF StreamInv, jobsHere
    <2> QED
      BY <2>2, <2>3
  <1>13. ASSUME NEW k \in SJobs, NEW t \in Streams, NEW u \in Streams,
                NEW i \in 1 .. Len(up'[t]), NEW m \in 1 .. Len(up'[u]),
                OnWire(k, t, i)', OnWire(k, u, m)'
         PROVE  t = u /\ i = m
    BY <1>10, <1>13 DEF StreamInv, WireInv
  <1>14. CASE applied' = applied
    <2>1. SentInv' /\ CommandInv'
      BY <1>1, <1>4, <1>14, SentCore, CommandCore DEF StreamInv
    <2>2. HandInv'
      BY <1>1, <1>4, <1>11, <1>14 DEF StreamInv, HandInv
    <2>3. ASSUME NEW k \in SJobs, NEW t \in Streams, NEW i \in 1 .. Len(up'[t]), OnWire(k, t, i)'
          PROVE  work'[k] = "done" /\ k \in sent' /\ applied'[k] = 0 /\ ~Kept(k)'
      BY <1>1, <1>4, <1>10, <1>11, <1>14, <2>3 DEF StreamInv, WireInv
    <2> QED
      BY <1>7, <1>9, <1>12, <1>13, <2>1, <2>2, <2>3 DEF StreamInv, WireInv
  <1>15. ASSUME NEW j \in SJobs, up[s][1] = ResultOf(j), applied' = [applied EXCEPT ![j] = @ + 1]
         PROVE  StreamInv'
    <2>1. OnWire(j, s, 1)
      BY <1>3, <1>15 DEF OnWire
    <2>2. work[j] = "done" /\ j \in sent /\ applied[j] = 0 /\ ~Kept(j)
      BY <1>3, <2>1 DEF StreamInv, WireInv
    <2>3. applied'[j] = 1 /\ \A k \in SJobs \ {j} : applied'[k] = applied[k]
      BY <1>2, <1>15, <2>2
    <2>4. SentInv'
      <3>1. \A k \in SJobs \ sent' : work'[k] = "none" /\ applied'[k] = 0
        BY <1>1, <1>4, <2>2, <2>3 DEF StreamInv, SentInv
      <3>3. \A k \in SJobs : applied'[k] <= 1
        BY <1>2, <2>3 DEF StreamInv, SentInv
      <3> QED
        BY <3>1, <3>3 DEF SentInv
    <2>5. CommandInv'
      <3>1. \A t \in Streams : j \notin down[t] /\ down[t] \subseteq SJobs
        BY <2>2 DEF StreamInv, StreamTypeOK, CommandInv
      <3> QED
        BY <1>1, <1>4, <2>3, <3>1 DEF StreamInv, CommandInv
    <2>6. HandInv'
      <3>1. ~Busy(j)
        BY <2>2 DEF Busy
      <3> QED
        BY <1>1, <1>4, <1>11, <2>2, <2>3, <3>1 DEF StreamInv, HandInv
    <2>7. ASSUME NEW k \in SJobs, NEW t \in Streams, NEW i \in 1 .. Len(up'[t]), OnWire(k, t, i)'
          PROVE  k # j
      <3>1. i + 1 # 1
        OBVIOUS
      <3> QED
        BY <1>3, <1>10, <2>1, <2>7, <3>1 DEF StreamInv, WireInv
    <2>8. ASSUME NEW k \in SJobs, NEW t \in Streams, NEW i \in 1 .. Len(up'[t]), OnWire(k, t, i)'
          PROVE  work'[k] = "done" /\ k \in sent' /\ applied'[k] = 0 /\ ~Kept(k)'
      BY <1>1, <1>4, <1>10, <1>11, <2>3, <2>7, <2>8 DEF StreamInv, WireInv
    <2> QED
      BY <1>7, <1>9, <1>12, <1>13, <2>4, <2>5, <2>6, <2>8 DEF StreamInv, WireInv
  <1> QED
    BY <1>8, <1>14, <1>15

-----------------------------------------------------------------------------
(* The theorems.                                                           *)

LEMMA StreamInvariant == StreamSpec => []StreamInv
  <1>1. StreamInit => StreamInv
    BY InitKeeps
  <1>2. StreamInv /\ [StreamNext]_streamVars => StreamInv'
    <2> SUFFICES ASSUME StreamInv, [StreamNext]_streamVars PROVE StreamInv'
      OBVIOUS
    <2>1. CASE StreamNext
      BY <2>1, RegisterStep, MainStep, InsertStep, SendStep, EndsStep, BreakStep, RestartStep,
         ExitStep, ReceiveStep, JobEndsStep, JobReportsStep, SendToWorkerStep, OpenStep,
         SendResultStep, ReadsStep DEF StreamNext
    <2>2. CASE UNCHANGED streamVars
      <3>1. UNCHANGED << agent, cur, session, jobsHere, wires, serverSide, sent, sFaults >>
        BY <2>2 DEF streamVars
      <3>2. TypeMain'
        BY <3>1, MainMoves, TypeGroups DEF StreamInv, TypeMain, Working
      <3>3. StreamTypeOK'
        BY <3>1, <3>2, SessionStays, JobsStay, WiresStay, ServerStays, RestStays, TypeGroups,
           TypeGroupsNext DEF StreamInv, jobsHere
      <3>4. SentInv' /\ CommandInv' /\ HandInv' /\ ShareInv' /\ HandleInv' /\ WireInv'
        BY <3>1, QuietStep, SameIsNoNew DEF StreamInv, data, jobsHere, wires, serverSide
      <3>5. ChannelIsRead'
        BY <3>1 DEF StreamInv, ChannelIsRead, serverSide
      <3> QED
        BY <3>3, <3>4, <3>5 DEF StreamInv
    <2> QED
      BY <2>1, <2>2
  <1> QED
    BY <1>1, <1>2, PTL DEF StreamSpec

\* Type correctness of the worker, its streams and the server's end of them, under
\* any number of broken connections, failing calls and restarts.
THEOREM StreamTypeCorrect == StreamSpec => []StreamTypeOK
  <1>1. StreamInv => StreamTypeOK
    BY DEF StreamInv
  <1> QED
    BY <1>1, StreamInvariant, PTL

\* on_job_result is called at most once for a job, whatever connections break while
\* its result goes through the channel, the pending list and the streams.
THEOREM ResultStaysOnce == StreamSpec => []ResultOnce
  <1>1. StreamInv => ResultOnce
    BY DEF StreamInv, SentInv, ResultOnce
  <1> QED
    BY <1>1, StreamInvariant, PTL

\* Self-termination kills no running job, and loses no result but of a job that was on
\* the worker together with another: idle_since is cleared by every job and set when a
\* result was handed to the stream, be it another job's.
THEOREM LeavesNothing == StreamSpec => []LeavesEmptyHanded
  <1>1. StreamInv => LeavesEmptyHanded
    BY DEF StreamInv, ShareInv, HandleInv, LeavesEmptyHanded
  <1> QED
    BY <1>1, StreamInvariant, PTL

\* The entry in worker_channels leads to a stream whose task still reads, also when
\* the tasks of older streams end late.
THEOREM ChannelStaysRead == StreamSpec => []ChannelIsRead
  <1>1. StreamInv => ChannelIsRead
    BY DEF StreamInv
  <1> QED
    BY <1>1, StreamInvariant, PTL
=============================================================================
