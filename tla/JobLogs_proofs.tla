--------------------------- MODULE JobLogs_proofs ---------------------------
(* Proofs about JobLogs, for any followers, any lengths of batches, channels   *)
(* and buffer, and any number of lines.                                        *)
EXTENDS JobLogs, TLAPS

-----------------------------------------------------------------------------
(* Types, by groups of variables.                                          *)

Msg == {Result} \cup [type : {"lines"}, lines : Seq(Nat)]

TypeWorker ==
    /\ written \in 0 .. MaxLines
    /\ batch \in Seq(Nat) /\ taken \in Seq(Nat)
    /\ Len(batch) < BatchLines
    /\ lost \subseteq Nat
TypeFlags ==
    /\ output \in Output /\ flushing \in Flusher /\ closing \in Closing /\ step \in Step
    /\ ticking \in BOOLEAN /\ timedOut \in BOOLEAN /\ broken \in BOOLEAN /\ late \in BOOLEAN
TypeWire == wire \in Seq(Msg) /\ Len(wire) <= WireCap
TypeIngest ==
    /\ todo \in Seq(Nat) /\ serving \in Seq(Followers)
    /\ buffer \in Seq(Nat) /\ Len(buffer) <= LogBufferSize
    /\ subs \in Seq(Followers) /\ appended \in Seq(Nat)
TypeFollowers ==
    /\ phase \in [Followers -> Phase]
    /\ rest \in [Followers -> Seq(Nat)]
    /\ chan \in [Followers -> Seq(Nat)] /\ out \in [Followers -> Seq(Nat)]
    /\ \A c \in Followers : Len(chan[c]) <= FollowerCap /\ Len(out[c]) <= FollowerCap
    /\ got \in [Followers -> Seq(Nat)]
    /\ live \in [Followers -> Nat]

LEMMA TypeGroups ==
    LogTypeOK <=> TypeWorker /\ TypeFlags /\ TypeWire /\ TypeIngest /\ TypeFollowers
  BY Zenon DEF LogTypeOK, TypeWorker, TypeFlags, TypeWire, TypeIngest, TypeFollowers, Msg

LEMMA TypeGroupsNext ==
    LogTypeOK' <=> TypeWorker' /\ TypeFlags' /\ TypeWire' /\ TypeIngest' /\ TypeFollowers'
  BY Zenon DEF LogTypeOK, TypeWorker, TypeFlags, TypeWire, TypeIngest, TypeFollowers, Msg

flags == << output, flushing, closing, step, ticking, timedOut, broken, late >>

LEMMA WorkerStays == ASSUME TypeWorker, UNCHANGED << written, batch, taken, lost >> PROVE TypeWorker'
  BY Zenon DEF TypeWorker

LEMMA WireStays == ASSUME TypeWire, UNCHANGED wire PROVE TypeWire'
  BY Zenon DEF TypeWire

LEMMA IngestStays ==
    ASSUME TypeIngest, UNCHANGED << todo, serving, buffer, subs, appended >> PROVE TypeIngest'
  BY Zenon DEF TypeIngest

LEMMA FollowersStay == ASSUME TypeFollowers, UNCHANGED followers PROVE TypeFollowers'
  BY Zenon DEF TypeFollowers, followers

\* Every step leaves the flags within their sets.
LEMMA FlagsMove == ASSUME TypeFlags, LogNext PROVE TypeFlags'
  <1> USE DEF TypeFlags, Output, Flusher, Closing, Step
  <1>1. CASE WriteLine
    BY Zenon, <1>1 DEF WriteLine, Take, ingest
  <1>2. CASE FlushTick
    BY Zenon, <1>2 DEF FlushTick, Take, ingest
  <1>3. CASE FlushSends
    BY Zenon, <1>3 DEF FlushSends, FlushEnds, ingest
  <1>4. CASE FlushFails
    BY Zenon, <1>4 DEF FlushFails, FlushEnds, ingest
  <1>5. CASE OutputEnds
    BY Zenon, <1>5 DEF OutputEnds, ingest
  <1>6. CASE FinalFlush
    BY Zenon, <1>6 DEF FinalFlush, Take, ingest
  <1>7. CASE JobTimesOut
    BY Zenon, <1>7 DEF JobTimesOut, ingest
  <1>8. CASE Report
    BY Zenon, <1>8 DEF Report, ingest
  <1>9. CASE StreamBreaks
    BY Zenon, <1>9 DEF StreamBreaks, ingest, worker
  <1>10. CASE ReadBatch \/ AppendLine \/ LookUpSubscribers \/ SendLine \/ LineDone
    BY Zenon, <1>10 DEF ReadBatch, AppendLine, LookUpSubscribers, SendLine, LineDone, worker
  <1>11. CASE ReadResult \/ RemoveLogs \/ RemoveSubscribers
    BY Zenon, <1>11 DEF ReadResult, RemoveLogs, RemoveSubscribers, worker, ingest
  <1>12. ASSUME NEW c \in Followers,
                \/ Subscribe(c) \/ FollowerStep(c) \/ Forward(c) \/ ClientReads(c) \/ Leave(c)
                \/ ForwardFails(c) \/ StreamEnds(c)
         PROVE  TypeFlags'
    <2>1. UNCHANGED << worker, broken, late, ingest, closing >>
      BY <1>12 DEF Subscribe, FollowerStep, SendHistory, EnterReplay, Replay, RegisterFollower,
                   Forward, ClientReads, Leave, ForwardFails, StreamEnds
    <2> QED
      BY Zenon, <2>1 DEF worker, ingest
  <1> QED
    BY Zenon, <1>1, <1>2, <1>3, <1>4, <1>5, <1>6, <1>7, <1>8, <1>9, <1>10, <1>11, <1>12
       DEF LogNext, ServerLogStep
-----------------------------------------------------------------------------
(* The steps of subscriptions leave the places of the lines alone.         *)

\* A line more in a channel that has room.
LEMMA RoomForOne ==
    ASSUME NEW ch \in [Followers -> Seq(Nat)], NEW c \in Followers, NEW n \in Nat,
           \A d \in Followers : Len(ch[d]) <= FollowerCap, Len(ch[c]) < FollowerCap,
           NEW new, new = [ch EXCEPT ![c] = Append(@, n)]
    PROVE  new \in [Followers -> Seq(Nat)] /\ \A d \in Followers : Len(new[d]) <= FollowerCap
  <1>1. ch[c] \in Seq(Nat) /\ Len(ch[c]) \in Nat
    OBVIOUS
  <1>2. Append(ch[c], n) \in Seq(Nat) /\ Len(Append(ch[c], n)) = Len(ch[c]) + 1
    BY <1>1
  <1>3. Len(Append(ch[c], n)) <= FollowerCap
    BY <1>1, <1>2, LogAssumption
  <1> QED
    BY <1>2, <1>3

LEMMA FollowerTypes ==
    ASSUME LogTypeOK, NEW c \in Followers,
           \/ Subscribe(c) \/ FollowerStep(c) \/ Forward(c) \/ ClientReads(c) \/ Leave(c)
           \/ ForwardFails(c) \/ StreamEnds(c)
    PROVE  TypeFollowers' /\ subs' \in Seq(Followers)
  <1> USE LogAssumption, TypeGroups
  <1>0. /\ phase \in [Followers -> Phase] /\ rest \in [Followers -> Seq(Nat)]
        /\ chan \in [Followers -> Seq(Nat)] /\ out \in [Followers -> Seq(Nat)]
        /\ got \in [Followers -> Seq(Nat)] /\ live \in [Followers -> Nat]
        /\ \A d \in Followers : Len(chan[d]) <= FollowerCap /\ Len(out[d]) <= FollowerCap
        /\ buffer \in Seq(Nat) /\ subs \in Seq(Followers)
    BY DEF TypeFollowers, TypeIngest
  <1>1. ASSUME NEW p \in Phase, Move(c, p) PROVE phase' \in [Followers -> Phase]
    BY <1>0, <1>1 DEF Move
  <1> USE DEF TypeFollowers
  <1>2. CASE Subscribe(c)
    <2>1. phase' \in [Followers -> Phase]
      BY <1>1, <1>2 DEF Subscribe, Phase
    <2>2. rest' \in [Followers -> Seq(Nat)]
      BY <1>0, <1>2 DEF Subscribe
    <2> QED
      BY <1>0, <1>2, <2>1, <2>2 DEF Subscribe
  <1>3. CASE SendHistory(c)
    <2>1. phase' \in [Followers -> Phase]
      BY <1>0, <1>1, <1>3 DEF SendHistory, Phase
    <2>4. rest[c] # << >> => Head(rest[c]) \in Nat /\ Tail(rest[c]) \in Seq(Nat)
      BY <1>0
    <2>2. rest' \in [Followers -> Seq(Nat)]
      BY <1>0, <1>3, <2>4 DEF SendHistory
    <2>3. out' \in [Followers -> Seq(Nat)] /\ \A d \in Followers : Len(out'[d]) <= FollowerCap
      <3>1. CASE UNCHANGED out
        BY <1>0, <3>1
      <3>2. CASE /\ rest[c] # << >> /\ Len(out[c]) < FollowerCap
                 /\ out' = [out EXCEPT ![c] = Append(@, Head(rest[c]))]
        BY <1>0, <2>4, <3>2, RoomForOne
      <3> QED
        BY <1>3, <3>1, <3>2 DEF SendHistory
    <2> QED
      BY <1>0, <1>3, <2>1, <2>2, <2>3 DEF SendHistory
  <1>4. CASE EnterReplay(c)
    <2>1. phase' \in [Followers -> Phase]
      BY <1>1, <1>4 DEF EnterReplay, Phase
    <2>2. rest' \in [Followers -> Seq(Nat)]
      BY <1>0, <1>4 DEF EnterReplay
    <2> QED
      BY <1>0, <1>4, <2>1, <2>2 DEF EnterReplay
  <1>5. CASE Replay(c)
    <2>1. phase' \in [Followers -> Phase]
      BY <1>0, <1>1, <1>5 DEF Replay, Phase
    <2>4. rest[c] # << >> => Head(rest[c]) \in Nat /\ Tail(rest[c]) \in Seq(Nat)
      BY <1>0
    <2>2. rest' \in [Followers -> Seq(Nat)]
      BY <1>0, <1>5, <2>4 DEF Replay
    <2>3. chan' \in [Followers -> Seq(Nat)] /\ \A d \in Followers : Len(chan'[d]) <= FollowerCap
      <3>1. CASE UNCHANGED chan
        BY <1>0, <3>1
      <3>2. CASE /\ rest[c] # << >> /\ Len(chan[c]) < FollowerCap
                 /\ chan' = [chan EXCEPT ![c] = Append(@, Head(rest[c]))]
        BY <1>0, <2>4, <3>2, RoomForOne
      <3> QED
        BY <1>5, <3>1, <3>2 DEF Replay
    <2> QED
      BY <1>0, <1>5, <2>1, <2>2, <2>3 DEF Replay
  <1>6. CASE RegisterFollower(c)
    <2>1. phase' \in [Followers -> Phase]
      BY <1>1, <1>6 DEF RegisterFollower, Phase
    <2>2. Len(out[c]) + Len(chan[c]) \in Nat
      BY <1>0
    <2>3. live' \in [Followers -> Nat] /\ subs' \in Seq(Followers)
      BY <1>0, <1>6, <2>2 DEF RegisterFollower
    <2> QED
      BY <1>0, <1>6, <2>1, <2>3 DEF RegisterFollower
  <1>7. CASE Forward(c)
    <2>1. Head(chan[c]) \in Nat /\ Tail(chan[c]) \in Seq(Nat) /\ Len(Tail(chan[c])) <= FollowerCap
      BY <1>0, <1>7 DEF Forward
    <2>2. out' \in [Followers -> Seq(Nat)] /\ \A d \in Followers : Len(out'[d]) <= FollowerCap
      BY <1>0, <1>7, <2>1 DEF Forward
    <2>3. chan' \in [Followers -> Seq(Nat)] /\ \A d \in Followers : Len(chan'[d]) <= FollowerCap
      BY <1>0, <1>7, <2>1 DEF Forward
    <2> QED
      BY <1>0, <1>7, <2>2, <2>3 DEF Forward
  <1>8. CASE ClientReads(c)
    <2>1. Head(out[c]) \in Nat /\ Tail(out[c]) \in Seq(Nat) /\ Len(Tail(out[c])) <= FollowerCap
      BY <1>0, <1>8 DEF ClientReads
    <2>2. out' \in [Followers -> Seq(Nat)] /\ \A d \in Followers : Len(out'[d]) <= FollowerCap
      BY <1>0, <1>8, <2>1 DEF ClientReads
    <2>3. got' \in [Followers -> Seq(Nat)]
      BY <1>0, <1>8, <2>1 DEF ClientReads
    <2> QED
      BY <1>0, <1>8, <2>2, <2>3 DEF ClientReads
  <1>9. CASE Leave(c)
    <2>1. phase' \in [Followers -> Phase]
      BY <1>1, <1>9 DEF Leave, Phase
    <2>2. rest' \in [Followers -> Seq(Nat)]
      BY <1>0, <1>9 DEF Leave
    <2>3. out' \in [Followers -> Seq(Nat)] /\ \A d \in Followers : Len(out'[d]) <= FollowerCap
      BY <1>0, <1>9 DEF Leave
    <2>4. chan' \in [Followers -> Seq(Nat)] /\ \A d \in Followers : Len(chan'[d]) <= FollowerCap
      BY <1>0, <1>9 DEF Leave
    <2> QED
      BY <1>0, <1>9, <2>1, <2>2, <2>3, <2>4 DEF Leave
  <1>10. CASE ForwardFails(c)
    <2>1. phase' \in [Followers -> Phase]
      BY <1>1, <1>10 DEF ForwardFails, Phase
    <2>2. chan' \in [Followers -> Seq(Nat)] /\ \A d \in Followers : Len(chan'[d]) <= FollowerCap
      BY <1>0, <1>10 DEF ForwardFails
    <2> QED
      BY <1>0, <1>10, <2>1, <2>2 DEF ForwardFails
  <1>11. CASE StreamEnds(c)
    <2>1. phase' \in [Followers -> Phase]
      BY <1>1, <1>11 DEF StreamEnds, Phase
    <2> QED
      BY <1>0, <1>11, <2>1 DEF StreamEnds
  <1> QED
    BY <1>2, <1>3, <1>4, <1>5, <1>6, <1>7, <1>8, <1>9, <1>10, <1>11 DEF FollowerStep

LEMMA SendLineTypes ==
    ASSUME LogTypeOK, SendLine, todo # << >>
    PROVE  TypeFollowers' /\ serving' \in Seq(Followers)
  <1> USE LogAssumption
  <1>0. /\ chan \in [Followers -> Seq(Nat)]
        /\ \A d \in Followers : Len(chan[d]) <= FollowerCap
        /\ serving \in Seq(Followers) /\ serving # << >>
        /\ todo \in Seq(Nat)
    BY TypeGroups DEF TypeFollowers, TypeIngest, SendLine
  <1>1. Head(serving) \in Followers /\ Head(todo) \in Nat
    BY <1>0
  <1>2. chan' \in [Followers -> Seq(Nat)] /\ \A d \in Followers : Len(chan'[d]) <= FollowerCap
    <2>1. CASE UNCHANGED chan
      BY <1>0, <2>1
    <2>2. CASE /\ Len(chan[Head(serving)]) < FollowerCap
               /\ chan' = [chan EXCEPT ![Head(serving)] = Append(@, Head(todo))]
      BY <1>0, <1>1, <2>2, RoomForOne
    <2> QED
      BY <2>1, <2>2 DEF SendLine
  <1>3. serving' \in Seq(Followers)
    BY <1>0 DEF SendLine
  <1> QED
    BY <1>2, <1>3, TypeGroups DEF SendLine, TypeFollowers
-----------------------------------------------------------------------------
(* Types.  Head(todo) is a line while append_log works on one.             *)

\* The types of the worker's side.
LEMMA WorkerTypes ==
    ASSUME LogTypeOK,
           \/ WriteLine \/ FlushTick \/ FlushSends \/ FlushFails \/ OutputEnds \/ FinalFlush
           \/ JobTimesOut \/ Report \/ StreamBreaks
    PROVE  TypeWorker' /\ TypeWire'
  <1> USE LogAssumption, TypeGroups
  <1>0. /\ written \in Nat /\ written <= MaxLines /\ lost \subseteq Nat
        /\ batch \in Seq(Nat) /\ taken \in Seq(Nat) /\ Len(batch) \in Nat /\ Len(batch) < BatchLines
        /\ wire \in Seq(Msg) /\ Len(wire) \in Nat /\ Len(wire) <= WireCap
    BY DEF TypeWorker, TypeWire
  <1>1. Lines(taken) \subseteq Nat
    BY <1>0 DEF Lines
  <1>2. << >> \in Seq(Nat) /\ Len(<< >>) < BatchLines
    OBVIOUS
  <1>3. ASSUME NEW msg \in Msg, Len(wire) < WireCap, wire' = Append(wire, msg) PROVE TypeWire'
    BY <1>0, <1>3 DEF TypeWire
  <1>4. ASSUME NEW who, NEW s \in Seq(Nat), Take(who, s)
        PROVE  batch' = << >> /\ taken' \in Seq(Nat)
    BY <1>2, <1>4 DEF Take
  <1>5. CASE WriteLine
    <2> DEFINE s == Append(batch, written + 1)
    <2>1. s \in Seq(Nat) /\ Len(s) \in Nat
      BY <1>0
    <2>2. written' \in 0 .. MaxLines /\ lost' = lost /\ wire' = wire
      BY <1>0, <1>5 DEF WriteLine
    <2>3. CASE Len(s) >= BatchLines /\ Take("reader", s)
      <3>1. batch' = << >> /\ taken' \in Seq(Nat)
        BY <1>4, <2>1, <2>3
      <3> QED
        BY <1>0, <1>2, <2>2, <3>1 DEF TypeWorker, TypeWire
    <2>4. CASE ~(Len(s) >= BatchLines) /\ batch' = s /\ taken' = taken
      <3>1. batch' \in Seq(Nat) /\ Len(batch') < BatchLines /\ taken' \in Seq(Nat)
        BY <1>0, <2>1, <2>4
      <3> QED
        BY <1>0, <2>2, <3>1 DEF TypeWorker, TypeWire
    <2> QED
      BY <1>5, <2>3, <2>4 DEF WriteLine
  <1>6. CASE FlushTick \/ FinalFlush
    <2>1. batch' = << >> /\ taken' \in Seq(Nat)
      BY <1>0, <1>4, <1>6 DEF FlushTick, FinalFlush
    <2>2. UNCHANGED << written, lost, wire >>
      BY <1>6 DEF FlushTick, FinalFlush
    <2> QED
      BY <1>0, <1>2, <2>1, <2>2 DEF TypeWorker, TypeWire
  <1>7. CASE FlushSends
    <2>1. LogBatch(taken) \in Msg
      BY <1>0 DEF LogBatch, Msg
    <2>2. TypeWire'
      BY <1>3, <1>7, <2>1 DEF FlushSends
    <2>3. UNCHANGED << written, batch, lost >> /\ taken' = << >>
      BY <1>7 DEF FlushSends, FlushEnds
    <2> QED
      BY <1>0, <1>2, <2>2, <2>3 DEF TypeWorker
  <1>8. CASE FlushFails \/ OutputEnds
    <2>1. /\ UNCHANGED << written, batch, wire >> /\ taken' = << >>
          /\ lost' = lost \cup Lines(taken)
      BY <1>8 DEF FlushFails, FlushEnds, OutputEnds
    <2> QED
      BY <1>0, <1>1, <1>2, <2>1 DEF TypeWorker, TypeWire
  <1>9. CASE JobTimesOut
    <2>1. UNCHANGED << written, batch, wire >>
      BY <1>9 DEF JobTimesOut
    <2>2. taken' \in Seq(Nat) /\ lost' \subseteq Nat
      BY <1>0, <1>1, <1>2, <1>9 DEF JobTimesOut
    <2> QED
      BY <1>0, <2>1, <2>2 DEF TypeWorker, TypeWire
  <1>10. CASE Report
    <2>1. UNCHANGED << written, batch, taken, lost >>
      BY <1>10 DEF Report
    <2>2. Result \in Msg
      BY DEF Msg
    <2>3. TypeWire'
      BY <1>0, <1>3, <1>10, <2>2 DEF Report, TypeWire
    <2> QED
      BY <2>1, <2>3, WorkerStays
  <1>11. CASE StreamBreaks
    <2>1. UNCHANGED << written, batch, taken, lost >>
      BY <1>11 DEF StreamBreaks, worker
    <2>2. PICK n \in 0 .. Len(wire) : wire' = SubSeq(wire, 1, n)
      BY <1>11 DEF StreamBreaks
    <2>3. wire' \in Seq(Msg) /\ Len(wire') = n
      BY <1>0, <2>2
    <2> QED
      BY <1>0, <2>1, <2>2, <2>3, WorkerStays DEF TypeWire
  <1> QED
    BY <1>5, <1>6, <1>7, <1>8, <1>9, <1>10, <1>11

\* The types of the server's side.
LEMMA IngestTypes ==
    ASSUME LogTypeOK, InHand, ServerLogStep
    PROVE  TypeIngest' /\ TypeWire' /\ TypeFollowers' /\ InHand'
  <1> USE LogAssumption, TypeGroups
  <1>0. /\ todo \in Seq(Nat) /\ serving \in Seq(Followers)
        /\ buffer \in Seq(Nat) /\ Len(buffer) \in Nat /\ Len(buffer) <= LogBufferSize
        /\ subs \in Seq(Followers) /\ appended \in Seq(Nat)
        /\ wire \in Seq(Msg) /\ Len(wire) \in Nat /\ Len(wire) <= WireCap
    BY DEF TypeIngest, TypeWire
  <1>1. wire # << >> => Head(wire) \in Msg /\ Tail(wire) \in Seq(Msg) /\ Len(Tail(wire)) <= WireCap
    BY <1>0
  <1>2. CASE ReadBatch
    <2>1. Head(wire) \in [type : {"lines"}, lines : Seq(Nat)]
      BY <1>1, <1>2 DEF ReadBatch, Msg
    <2>2. todo' \in Seq(Nat) /\ TypeWire'
      BY <1>1, <1>2, <2>1 DEF ReadBatch, TypeWire
    <2>3. UNCHANGED << step, serving, appended, buffer, subs, followers >> /\ todo = << >>
      BY <1>2 DEF ReadBatch, StreamIdle
    <2> QED
      BY <1>0, <2>2, <2>3, FollowersStay DEF TypeIngest, InHand
  <1>3. CASE AppendLine
    <2>1. Head(todo) \in Nat
      BY <1>0, <1>3 DEF AppendLine
    <2>2. buffer # << >> => Tail(buffer) \in Seq(Nat) /\ Len(Tail(buffer)) = Len(buffer) - 1
      BY <1>0
    <2>3. buffer = << >> => Len(buffer) = 0
      BY <1>0
    <2>4. buffer' \in Seq(Nat) /\ Len(buffer') <= LogBufferSize
      <3>1. CASE Len(buffer) >= LogBufferSize
        <4>1. buffer' = Append(Tail(buffer), Head(todo)) /\ buffer # << >>
          BY <1>0, <1>3, <2>3, <3>1 DEF AppendLine
        <4> QED
          BY <1>0, <2>1, <2>2, <4>1
      <3>2. CASE ~(Len(buffer) >= LogBufferSize)
        <4>1. buffer' = Append(buffer, Head(todo))
          BY <1>3, <3>2 DEF AppendLine
        <4> QED
          BY <1>0, <2>1, <3>2, <4>1
      <3> QED
        BY <3>1, <3>2
    <2>5. appended' \in Seq(Nat)
      BY <1>0, <1>3, <2>1 DEF AppendLine
    <2>6. UNCHANGED << wire, todo, serving, subs, followers >> /\ todo # << >>
      BY <1>3 DEF AppendLine
    <2> QED
      BY <1>0, <2>4, <2>5, <2>6, FollowersStay, WireStays DEF TypeIngest, InHand
  <1>4. CASE LookUpSubscribers
    <2>1. UNCHANGED << wire, todo, appended, buffer, subs, followers >> /\ serving' = subs /\ todo # << >>
      BY <1>4 DEF LookUpSubscribers, InHand
    <2> QED
      BY <1>0, <2>1, FollowersStay, WireStays DEF TypeIngest, InHand
  <1>5. CASE SendLine
    <2>1. todo # << >>
      BY <1>5 DEF SendLine, InHand
    <2>2. TypeFollowers' /\ serving' \in Seq(Followers)
      BY <1>5, <2>1, SendLineTypes
    <2>3. UNCHANGED << wire, todo, step, appended, buffer, subs >>
      BY <1>5 DEF SendLine
    <2> QED
      BY <1>0, <2>1, <2>2, <2>3, WireStays DEF TypeIngest, InHand
  <1>6. CASE LineDone
    <2>1. UNCHANGED << wire, serving, appended, buffer, subs, followers >>
      BY <1>6 DEF LineDone
    <2>2. step' = "buffer" /\ todo' \in Seq(Nat)
      BY <1>0, <1>6 DEF LineDone, InHand
    <2> QED
      BY <1>0, <2>1, <2>2, FollowersStay, WireStays DEF TypeIngest, InHand
  <1>7. CASE ReadResult
    <2>1. UNCHANGED << ingest, buffer, subs, followers >>
      BY <1>7 DEF ReadResult
    <2>2. TypeWire'
      BY <1>0, <1>1, <1>7 DEF ReadResult, TypeWire
    <2>3. UNCHANGED << todo, step, serving, appended, buffer, subs >>
      BY Zenon, <2>1 DEF ingest
    <2> QED
      BY <1>0, <2>1, <2>2, <2>3, FollowersStay DEF TypeIngest, InHand
  <1>8. CASE RemoveLogs \/ RemoveSubscribers
    <2>1. UNCHANGED << wire, ingest, followers >>
      BY <1>8 DEF RemoveLogs, RemoveSubscribers
    <2>2. \/ UNCHANGED subs /\ buffer' = << >>
          \/ UNCHANGED buffer /\ subs' = << >>
      BY <1>8 DEF RemoveLogs, RemoveSubscribers
    <2>3. UNCHANGED << todo, step, serving, appended >>
      BY Zenon, <2>1 DEF ingest
    <2>4. /\ << >> \in Seq(Nat) /\ << >> \in Seq(Followers)
          /\ Len(<< >>) <= LogBufferSize
      OBVIOUS
    <2> QED
      BY <1>0, <2>1, <2>2, <2>3, <2>4, FollowersStay, WireStays DEF TypeIngest, InHand
  <1> QED
    BY <1>2, <1>3, <1>4, <1>5, <1>6, <1>7, <1>8 DEF ServerLogStep

\* Steps of the worker and of followers leave the line in hand alone, and each other's types.
LEMMA TypesMove == ASSUME LogTypeOK, InHand, LogNext PROVE LogTypeOK' /\ InHand'
  <1>0. TypeWorker /\ TypeFlags /\ TypeWire /\ TypeIngest /\ TypeFollowers /\ TypeFlags'
    BY TypeGroups, FlagsMove
  <1>1. CASE \/ WriteLine \/ FlushTick \/ FlushSends \/ FlushFails \/ OutputEnds \/ FinalFlush
             \/ JobTimesOut \/ Report \/ StreamBreaks
    <2>1. UNCHANGED << ingest, buffer, subs, followers >>
      BY <1>1 DEF WriteLine, FlushTick, FlushSends, FlushFails, OutputEnds, FinalFlush,
                  JobTimesOut, Report, StreamBreaks
    <2>2. UNCHANGED << todo, step, serving, appended >>
      BY Zenon, <2>1 DEF ingest
    <2> QED
      BY <1>0, <1>1, <2>1, <2>2, WorkerTypes, IngestStays, FollowersStay, TypeGroupsNext DEF InHand
  <1>2. CASE ServerLogStep
    <2>1. UNCHANGED worker
      BY <1>2 DEF ServerLogStep, ReadBatch, AppendLine, LookUpSubscribers, SendLine, LineDone,
                  ReadResult, RemoveLogs, RemoveSubscribers
    <2>2. UNCHANGED << written, batch, taken, lost >>
      BY Zenon, <2>1 DEF worker
    <2> QED
      BY <1>0, <1>2, <2>2, WorkerStays, IngestTypes, TypeGroupsNext
  <1>3. ASSUME NEW c \in Followers,
               \/ Subscribe(c) \/ FollowerStep(c) \/ Forward(c) \/ ClientReads(c) \/ Leave(c)
               \/ ForwardFails(c) \/ StreamEnds(c)
        PROVE  LogTypeOK' /\ InHand'
    <2>1. UNCHANGED << worker, wire, ingest, buffer >>
      BY <1>3 DEF Subscribe, FollowerStep, SendHistory, EnterReplay, Replay, RegisterFollower,
                  Forward, ClientReads, Leave, ForwardFails, StreamEnds
    <2>2. UNCHANGED << written, batch, taken, lost, todo, step, serving, appended >>
      BY Zenon, <2>1 DEF worker, ingest
    <2>3. TypeFollowers' /\ subs' \in Seq(Followers)
      BY <1>3, FollowerTypes
    <2>4. TypeIngest'
      BY Zenon, <1>0, <2>1, <2>2, <2>3 DEF TypeIngest
    <2> QED
      BY <1>0, <2>1, <2>2, <2>3, <2>4, WorkerStays, WireStays, TypeGroupsNext DEF InHand
  <1> QED
    BY Zenon, <1>1, <1>2, <1>3 DEF LogNext

LEMMA TypesStart == LogInit => LogTypeOK /\ InHand
  <1> SUFFICES ASSUME LogInit PROVE LogTypeOK /\ InHand
    OBVIOUS
  <1> USE LogAssumption
  <1>1. TypeWorker /\ TypeWire /\ TypeIngest
    BY DEF LogInit, TypeWorker, TypeWire, TypeIngest
  <1>2. TypeFlags /\ InHand
    BY DEF LogInit, TypeFlags, Output, Flusher, Closing, Step, InHand
  <1>3. TypeFollowers
    BY DEF LogInit, TypeFollowers, Phase
  <1> QED
    BY <1>1, <1>2, <1>3, TypeGroups

LEMMA TypesStay == ASSUME LogTypeOK, InHand, UNCHANGED logVars PROVE LogTypeOK' /\ InHand'
  <1>1. UNCHANGED << worker, wire, broken, late, ingest, buffer, subs, closing, followers >>
    BY Zenon DEF logVars
  <1>2. UNCHANGED << written, batch, taken, lost, todo, step, serving, appended, output, flushing,
                     ticking, timedOut >>
    BY Zenon, <1>1 DEF worker, ingest
  <1>3. TypeFlags'
    BY Zenon, <1>1, <1>2, TypeGroups DEF TypeFlags
  <1> QED
    BY <1>1, <1>2, <1>3, TypeGroups, TypeGroupsNext, WorkerStays, WireStays, IngestStays,
       FollowersStay DEF InHand

\* For any followers and any capacities, batches, the worker's channel, the circular buffer
\* and the channels of subscriptions stay within their bounds, and append_log always has a
\* line in hand when it serves subscribers.
THEOREM LogTypeCorrect == LogSpec => []LogTypeOK
  <1>1. LogInit => LogTypeOK /\ InHand
    BY TypesStart
  <1>2. LogTypeOK /\ InHand /\ [LogNext]_logVars => LogTypeOK' /\ InHand'
    BY TypesMove, TypesStay
  <1> QED
    BY <1>1, <1>2, PTL DEF LogSpec
-----------------------------------------------------------------------------
(* Sequences of lines.                                                     *)

LEMMA Empty ==
    ASSUME NEW s \in Seq(Nat), NEW n \in Nat
    PROVE  Before(<< >>, s) /\ Before(s, << >>) /\ Increasing(<< >>) /\ Upto(<< >>, n)
  <1>1. 1 .. Len(<< >>) = {}
    OBVIOUS
  <1> QED
    BY <1>1 DEF Before, Increasing, Upto

LEMMA UptoMore == ASSUME NEW n \in Nat, NEW s \in Seq(Nat), Upto(s, n) PROVE Upto(s, n + 1)
  BY DEF Upto

LEMMA Appending ==
    ASSUME NEW s \in Seq(Nat), NEW n \in Nat
    PROVE  /\ Append(s, n) \in Seq(Nat) /\ Len(Append(s, n)) = Len(s) + 1
           /\ \A i \in 1 .. Len(s) + 1 : Append(s, n)[i] = IF i = Len(s) + 1 THEN n ELSE s[i]
           /\ Len(s) \in Nat /\ \A i \in 1 .. Len(s) : s[i] \in Nat
  OBVIOUS

\* A line that is greater than every other may follow them.
LEMMA AppendLast ==
    ASSUME NEW s \in Seq(Nat), NEW n \in Nat, \A i \in 1 .. Len(s) : s[i] < n
    PROVE  /\ Increasing(s) => Increasing(Append(s, n))
           /\ \A t \in Seq(Nat) :
                /\ Before(t, s) /\ (\A i \in 1 .. Len(t) : t[i] < n) => Before(t, Append(s, n))
                /\ Before(s, t) /\ (\A i \in 1 .. Len(t) : n < t[i]) => Before(Append(s, n), t)
  <1> DEFINE a == Append(s, n)
  <1>1. /\ Len(a) = Len(s) + 1 /\ Len(s) \in Nat
        /\ \A i \in 1 .. Len(s) + 1 : a[i] = IF i = Len(s) + 1 THEN n ELSE s[i]
    BY Appending
  <1> HIDE DEF a
  <1>2. ASSUME NEW i \in 1 .. Len(a)
        PROVE  \/ i = Len(s) + 1 /\ a[i] = n
               \/ i # Len(s) + 1 /\ i \in 1 .. Len(s) /\ a[i] = s[i]
    <2>1. i \in 1 .. Len(s) + 1
      BY <1>1
    <2>2. i = Len(s) + 1 \/ i \in 1 .. Len(s)
      BY <1>1, <2>1
    <2>3. i \in 1 .. Len(s) => i # Len(s) + 1
      BY <1>1
    <2> QED
      BY <1>1, <2>1, <2>2, <2>3
  <1>3. ASSUME Increasing(s) PROVE Increasing(a)
    <2> SUFFICES ASSUME NEW i \in 1 .. Len(a), NEW k \in 1 .. Len(a), i < k PROVE a[i] < a[k]
      BY DEF Increasing
    <2>1. i \in 1 .. Len(s) /\ a[i] = s[i]
      BY <1>1, <1>2
    <2>2. CASE k = Len(s) + 1 /\ a[k] = n
      BY <2>1, <2>2
    <2>3. CASE k \in 1 .. Len(s) /\ a[k] = s[k]
      BY <1>3, <2>1, <2>3 DEF Increasing
    <2> QED
      BY <1>2, <2>2, <2>3
  <1>4. ASSUME NEW t \in Seq(Nat), Before(t, s), \A i \in 1 .. Len(t) : t[i] < n PROVE Before(t, a)
    BY <1>2, <1>4 DEF Before
  <1>5. ASSUME NEW t \in Seq(Nat), Before(s, t), \A i \in 1 .. Len(t) : n < t[i] PROVE Before(a, t)
    BY <1>2, <1>5 DEF Before
  <1> QED
    BY <1>3, <1>4, <1>5 DEF a

LEMMA UptoAppend ==
    ASSUME NEW s \in Seq(Nat), NEW n \in Nat, NEW top \in Nat, Upto(s, top), n \in 1 .. top
    PROVE  Upto(Append(s, n), top)
  <1>1. /\ Len(Append(s, n)) = Len(s) + 1 /\ Len(s) \in Nat
        /\ \A i \in 1 .. Len(s) + 1 : Append(s, n)[i] = IF i = Len(s) + 1 THEN n ELSE s[i]
    BY Appending
  <1> QED
    BY <1>1 DEF Upto

\* The first line and the rest.
LEMMA HeadAndTail ==
    ASSUME NEW s \in Seq(Nat), s # << >>
    PROVE  /\ Head(s) \in Nat /\ Tail(s) \in Seq(Nat)
           /\ Increasing(s) => Increasing(Tail(s)) /\ \A i \in 1 .. Len(Tail(s)) : Head(s) < Tail(s)[i]
           /\ \A n \in Nat : Upto(s, n) => Upto(Tail(s), n) /\ Head(s) \in 1 .. n
           /\ \A t \in Seq(Nat) :
                /\ Before(s, t) => Before(Tail(s), t) /\ \A i \in 1 .. Len(t) : Head(s) < t[i]
                /\ Before(t, s) => Before(t, Tail(s)) /\ \A i \in 1 .. Len(t) : t[i] < Head(s)
  <1> DEFINE r == Tail(s)
  <1>1. /\ Len(s) \in Nat \ {0} /\ Head(s) = s[1] /\ r \in Seq(Nat) /\ Len(r) = Len(s) - 1
        /\ \A i \in 1 .. Len(r) : r[i] = s[i + 1]
        /\ \A i \in 1 .. Len(s) : s[i] \in Nat
    OBVIOUS
  <1> HIDE DEF r
  <1>2. 1 \in 1 .. Len(s) /\ \A i \in 1 .. Len(r) : i + 1 \in 1 .. Len(s) /\ 1 < i + 1
    BY <1>1
  <1>3. ASSUME Increasing(s) PROVE Increasing(r) /\ \A i \in 1 .. Len(r) : Head(s) < r[i]
    <2>1. ASSUME NEW i \in 1 .. Len(r), NEW k \in 1 .. Len(r), i < k PROVE r[i] < r[k]
      <3>1. i + 1 < k + 1
        BY <2>1, <1>1
      <3> QED
        BY <1>1, <1>2, <1>3, <3>1 DEF Increasing
    <2>2. ASSUME NEW i \in 1 .. Len(r) PROVE Head(s) < r[i]
      BY <1>1, <1>2, <1>3 DEF Increasing
    <2> QED
      BY <2>1, <2>2 DEF Increasing
  <1>4. ASSUME NEW n \in Nat, Upto(s, n) PROVE Upto(r, n) /\ Head(s) \in 1 .. n
    BY <1>1, <1>2, <1>4 DEF Upto
  <1>5. ASSUME NEW t \in Seq(Nat), Before(s, t)
        PROVE  Before(r, t) /\ \A i \in 1 .. Len(t) : Head(s) < t[i]
    BY <1>1, <1>2, <1>5 DEF Before
  <1>6. ASSUME NEW t \in Seq(Nat), Before(t, s)
        PROVE  Before(t, r) /\ \A i \in 1 .. Len(t) : t[i] < Head(s)
    BY <1>1, <1>2, <1>6 DEF Before
  <1>7. Head(s) \in Nat
    BY <1>1, <1>2
  <1> QED
    BY <1>1, <1>3, <1>4, <1>5, <1>6, <1>7 DEF r
-----------------------------------------------------------------------------
(* How lines move from place to place.                                     *)

\* A new line follows all.
LEMMA OrderedWrite ==
    ASSUME NEW n, NEW A, NEW U, NEW T, NEW B, NEW L, Ordered(n, A, U, T, << >>, B, L)
    PROVE  /\ Ordered(n + 1, A, U, T, << >>, Append(B, n + 1), L)
           /\ Ordered(n + 1, A, U, T, Append(B, n + 1), << >>, L)
  <1> DEFINE b == Append(B, n + 1)
  <1>0. Places(n, A, U, T, << >>, B, L) /\ \A m \in 1 .. Len(L) : L[m] \in Seq(Nat)
    BY DEF Ordered, Places
  <1>1. b \in Seq(Nat) /\ Places(n + 1, A, U, T, << >>, b, L) /\ Places(n + 1, A, U, T, b, << >>, L)
    BY <1>0, Appending DEF Places
  <1>2. ASSUME NEW s \in Seq(Nat), Upto(s, n) PROVE Upto(s, n + 1) /\ \A i \in 1 .. Len(s) : s[i] < n + 1
    BY <1>0, <1>2 DEF Places, Upto
  <1>3. Upto(b, n + 1) /\ Upto(<< >>, n + 1)
    <2>1. n + 1 \in Nat /\ n + 1 \in 1 .. n + 1 /\ B \in Seq(Nat) /\ Upto(B, n + 1)
      BY <1>0, <1>2 DEF Ordered, Bounded, Places
    <2> QED
      BY <2>1, UptoAppend, Empty
  <1>4. Bounded(n + 1, A, T, << >>, b, L) /\ Bounded(n + 1, A, T, b, << >>, L)
    BY <1>0, <1>2, <1>3 DEF Ordered, Bounded, Places
  <1>5. Increasing(b) /\ Increasing(<< >>)
    <2>1. B \in Seq(Nat) /\ n \in Nat /\ n + 1 \in Nat /\ Increasing(B) /\ Upto(B, n)
      BY <1>0 DEF Ordered, Bounded, Sorted, Places
    <2>2. \A i \in 1 .. Len(B) : B[i] < n + 1
      BY <1>2, <2>1
    <2> QED
      BY <2>1, <2>2, AppendLast, Empty
  <1>6. Sorted(A, T, << >>, b, L) /\ Sorted(A, T, b, << >>, L)
    BY <1>5 DEF Ordered, Sorted
  <1>7. ASSUME NEW s \in Seq(Nat), Upto(s, n), Before(s, B) PROVE Before(s, b)
    <2>1. \A i \in 1 .. Len(s) : s[i] < n + 1
      BY <1>2, <1>7
    <2>2. \A i \in 1 .. Len(B) : B[i] < n + 1
      BY <1>0, <1>2 DEF Ordered, Bounded, Places
    <2>3. B \in Seq(Nat) /\ n + 1 \in Nat
      BY <1>0 DEF Places
    <2> QED
      BY <1>7, <2>1, <2>2, <2>3, AppendLast
  <1>8. Before(A, b) /\ Before(T, b) /\ \A m \in 1 .. Len(L) : Before(L[m], b)
    BY <1>0, <1>7 DEF Ordered, Bounded, Ahead, Places
  <1>9. \A s \in Seq(Nat) : Before(s, << >>) /\ Before(<< >>, s)
    BY Empty
  <1> HIDE DEF b
  <1>10. Ahead(A, U, T, << >>, b, L) /\ Ahead(A, U, T, b, << >>, L)
    BY <1>0, <1>1, <1>8, <1>9 DEF Ordered, Ahead, Places
  <1> QED
    BY <1>1, <1>4, <1>6, <1>10 DEF Ordered, b

\* A flush takes the batcher's lines.
LEMMA OrderedTake ==
    ASSUME NEW n, NEW A, NEW U, NEW T, NEW B, NEW L, Ordered(n, A, U, T, << >>, B, L)
    PROVE  Ordered(n, A, U, T, B, << >>, L)
  <1>0. Places(n, A, U, T, << >>, B, L) /\ \A m \in 1 .. Len(L) : L[m] \in Seq(Nat)
    BY DEF Ordered, Places
  <1>1. \A s \in Seq(Nat) : Before(s, << >>) /\ Before(<< >>, s)
    BY Empty
  <1>2. Ahead(A, U, T, B, << >>, L)
    BY <1>0, <1>1 DEF Ordered, Ahead, Places
  <1> QED
    BY <1>0, <1>2 DEF Ordered, Places, Bounded, Sorted

\* Lines that are being flushed are given up.
LEMMA OrderedDrop ==
    ASSUME NEW n, NEW A, NEW U, NEW T, NEW K, NEW B, NEW L, Ordered(n, A, U, T, K, B, L)
    PROVE  Ordered(n, A, U, T, << >>, B, L)
  <1>0. Places(n, A, U, T, K, B, L) /\ \A m \in 1 .. Len(L) : L[m] \in Seq(Nat)
    BY DEF Ordered, Places
  <1>1. /\ \A s \in Seq(Nat) : Before(s, << >>) /\ Before(<< >>, s)
        /\ Upto(<< >>, n) /\ Increasing(<< >>)
    BY <1>0, Empty DEF Places
  <1>2. Ahead(A, U, T, << >>, B, L)
    BY <1>0, <1>1 DEF Ordered, Ahead, Places
  <1>3. Bounded(n, A, T, << >>, B, L)
    BY <1>1 DEF Ordered, Bounded
  <1>4. Sorted(A, T, << >>, B, L)
    BY <1>1 DEF Ordered, Sorted
  <1>5. Places(n, A, U, T, << >>, B, L)
    BY <1>0 DEF Places
  <1> QED
    BY <1>2, <1>3, <1>4, <1>5 DEF Ordered

\* A batch goes onto the stream, behind the others; a result holds no line.
LEMMA OrderedSend ==
    ASSUME NEW n, NEW A, NEW U, NEW T, NEW K, NEW B, NEW L, Ordered(n, A, U, T, K, B, L)
    PROVE  Ordered(n, A, U, T, << >>, B, Append(L, K))
  <1> DEFINE M == Append(L, K)
  <1>0. /\ Places(n, A, U, T, K, B, L) /\ \A m \in 1 .. Len(L) : L[m] \in Seq(Nat)
        /\ K \in Seq(Nat) /\ Len(L) \in Nat
    BY DEF Ordered, Places
  <1>1. M \in Seq(Seq(Nat)) /\ Len(M) = Len(L) + 1 /\ Places(n, A, U, T, << >>, B, M)
    BY <1>0 DEF Places
  <1>2. ASSUME NEW m \in 1 .. Len(M)
        PROVE  \/ m = Len(L) + 1 /\ M[m] = K
               \/ m # Len(L) + 1 /\ m \in 1 .. Len(L) /\ M[m] = L[m]
    BY <1>0, <1>1 DEF Places
  <1> HIDE DEF M
  <1>3. Ordered(n, A, U, T, << >>, B, L)
    BY OrderedDrop
  <1>4. Bounded(n, A, T, << >>, B, M)
    BY <1>2, <1>3 DEF Ordered, Bounded
  <1>5. Sorted(A, T, << >>, B, M)
    BY <1>2, <1>3 DEF Ordered, Sorted
  <1>6. ASSUME NEW m \in 1 .. Len(M)
        PROVE  Before(A, M[m]) /\ Before(T, M[m]) /\ Before(M[m], << >>) /\ Before(M[m], B)
    <2>1. M[m] \in Seq(Nat)
      BY <1>0, <1>2
    <2>2. Before(M[m], << >>)
      BY <2>1, Empty
    <2> QED
      BY <1>2, <2>2 DEF Ordered, Ahead
  <1>7. ASSUME NEW m \in 1 .. Len(M), NEW k \in 1 .. Len(M), m < k PROVE Before(M[m], M[k])
    <2>1. m \in 1 .. Len(L) /\ M[m] = L[m]
      BY <1>0, <1>1, <1>2, <1>7
    <2> QED
      BY <1>2, <1>7, <2>1 DEF Ordered, Ahead
  <1>8. Ahead(A, U, T, << >>, B, M)
    BY <1>3, <1>6, <1>7 DEF Ordered, Ahead
  <1> QED
    BY <1>1, <1>4, <1>5, <1>8 DEF Ordered, M

LEMMA OrderedResult ==
    ASSUME NEW n, NEW A, NEW U, NEW T, NEW K, NEW B, NEW L, Ordered(n, A, U, T, K, B, L)
    PROVE  Ordered(n, A, U, T, K, B, Append(L, << >>))
  <1> DEFINE M == Append(L, << >>)
  <1>0. /\ Places(n, A, U, T, K, B, L) /\ \A m \in 1 .. Len(L) : L[m] \in Seq(Nat)
        /\ << >> \in Seq(Nat) /\ Len(L) \in Nat /\ n \in Nat
    BY DEF Ordered, Places
  <1>1. M \in Seq(Seq(Nat)) /\ Len(M) = Len(L) + 1 /\ Places(n, A, U, T, K, B, M)
    BY <1>0 DEF Places
  <1>2. ASSUME NEW m \in 1 .. Len(M)
        PROVE  \/ m = Len(L) + 1 /\ M[m] = << >>
               \/ m # Len(L) + 1 /\ m \in 1 .. Len(L) /\ M[m] = L[m]
    BY <1>0, <1>1 DEF Places
  <1> HIDE DEF M
  <1>3. /\ \A s \in Seq(Nat) : Before(s, << >>) /\ Before(<< >>, s)
        /\ Upto(<< >>, n) /\ Increasing(<< >>)
    BY <1>0, Empty
  <1>4. Bounded(n, A, T, K, B, M)
    BY <1>2, <1>3 DEF Ordered, Bounded
  <1>5. Sorted(A, T, K, B, M)
    BY <1>2, <1>3 DEF Ordered, Sorted
  <1>6. A \in Seq(Nat) /\ T \in Seq(Nat) /\ K \in Seq(Nat) /\ B \in Seq(Nat)
    BY <1>0 DEF Places
  <1>7. ASSUME NEW m \in 1 .. Len(M)
        PROVE  Before(A, M[m]) /\ Before(T, M[m]) /\ Before(M[m], K) /\ Before(M[m], B)
    BY <1>2, <1>3, <1>6 DEF Ordered, Ahead
  <1>8. ASSUME NEW m \in 1 .. Len(M), NEW k \in 1 .. Len(M), m < k PROVE Before(M[m], M[k])
    <2>1. m \in 1 .. Len(L) /\ M[m] = L[m]
      BY <1>0, <1>1, <1>2, <1>8
    <2> QED
      BY <1>0, <1>2, <1>3, <1>8, <2>1 DEF Ordered, Ahead
  <1>9. Ahead(A, U, T, K, B, M)
    BY <1>7, <1>8 DEF Ordered, Ahead
  <1> QED
    BY <1>1, <1>4, <1>5, <1>9 DEF Ordered, M

\* The stream loses batches at its end, or its first one.
LEMMA OrderedPart ==
    ASSUME NEW n, NEW A, NEW U, NEW T, NEW K, NEW B, NEW L, Ordered(n, A, U, T, K, B, L),
           NEW M \in Seq(Seq(Nat)), NEW d \in Nat,
           \A m \in 1 .. Len(M) : m + d \in 1 .. Len(L) /\ M[m] = L[m + d]
    PROVE  Ordered(n, A, U, T, K, B, M)
  <1>1. Places(n, A, U, T, K, B, M)
    BY DEF Ordered, Places
  <1>2. Bounded(n, A, T, K, B, M)
    BY DEF Ordered, Bounded
  <1>3. Sorted(A, T, K, B, M)
    BY DEF Ordered, Sorted
  <1>4. ASSUME NEW m \in 1 .. Len(M), NEW k \in 1 .. Len(M), m < k PROVE Before(M[m], M[k])
    <2>1. m + d < k + d
      BY <1>4
    <2> QED
      BY <2>1 DEF Ordered, Ahead
  <1>5. Ahead(A, U, T, K, B, M)
    BY <1>4 DEF Ordered, Ahead
  <1> QED
    BY <1>1, <1>2, <1>3, <1>5 DEF Ordered

\* The server reads the first batch.
LEMMA OrderedRead ==
    ASSUME NEW n, NEW A, NEW K, NEW B, NEW L, Ordered(n, A, << >>, << >>, K, B, L), L # << >>
    PROVE  Ordered(n, A, Head(L), Head(L), K, B, Tail(L))
  <1> DEFINE h == Head(L)  M == Tail(L)
  <1>0. L \in Seq(Seq(Nat)) /\ Len(L) \in Nat \ {0}
    BY DEF Ordered, Places
  <1>1. /\ h = L[1] /\ h \in Seq(Nat) /\ M \in Seq(Seq(Nat))
        /\ Len(M) = Len(L) - 1 /\ 1 \in 1 .. Len(L)
    BY <1>0
  <1>2. \A m \in 1 .. Len(M) : m + 1 \in 1 .. Len(L) /\ M[m] = L[m + 1] /\ 1 < m + 1
    BY <1>0
  <1> HIDE DEF h, M
  <1>3. Ordered(n, A, << >>, << >>, K, B, M)
    BY <1>1, <1>2, OrderedPart
  <1>4. Upto(h, n) /\ Increasing(h) /\ Before(A, h) /\ Before(h, K) /\ Before(h, B)
    BY <1>1 DEF Ordered, Bounded, Sorted, Ahead
  <1>5. \A m \in 1 .. Len(M) : Before(h, M[m])
    BY <1>1, <1>2 DEF Ordered, Ahead
  <1>6. Places(n, A, h, h, K, B, M)
    BY <1>1, <1>3 DEF Ordered, Places
  <1>7. Bounded(n, A, h, K, B, M) /\ Sorted(A, h, K, B, M)
    BY <1>3, <1>4 DEF Ordered, Bounded, Sorted
  <1>8. Ahead(A, h, h, K, B, M)
    BY <1>3, <1>4, <1>5 DEF Ordered, Ahead
  <1> QED
    BY <1>6, <1>7, <1>8 DEF Ordered, h, M

\* append_log stores the first line of the batch ...
LEMMA OrderedStore ==
    ASSUME NEW n, NEW A, NEW T, NEW K, NEW B, NEW L, Ordered(n, A, T, T, K, B, L), T # << >>
    PROVE  Ordered(n, Append(A, Head(T)), Tail(T), T, K, B, L)
  <1> DEFINE a == Append(A, Head(T))
  <1>0. /\ A \in Seq(Nat) /\ T \in Seq(Nat) /\ K \in Seq(Nat) /\ B \in Seq(Nat) /\ n \in Nat
        /\ \A m \in 1 .. Len(L) : L[m] \in Seq(Nat)
    BY DEF Ordered, Places
  <1>1. /\ Head(T) \in Nat /\ Tail(T) \in Seq(Nat) /\ Head(T) \in 1 .. n
        /\ \A i \in 1 .. Len(Tail(T)) : Head(T) < Tail(T)[i]
        /\ Before(A, Tail(T)) /\ \A i \in 1 .. Len(A) : A[i] < Head(T)
    BY <1>0, HeadAndTail DEF Ordered, Bounded, Sorted, Ahead
  <1>2. ASSUME NEW s \in Seq(Nat), Before(T, s), Before(A, s) PROVE Before(a, s)
    <2>1. \A i \in 1 .. Len(s) : Head(T) < s[i]
      BY <1>0, <1>2, HeadAndTail
    <2> QED
      BY <1>0, <1>1, <1>2, <2>1, AppendLast
  <1>3. Increasing(a) /\ Upto(a, n) /\ a \in Seq(Nat)
    <2>1. Increasing(A) /\ Upto(A, n)
      BY DEF Ordered, Bounded, Sorted
    <2> QED
      BY <1>0, <1>1, <2>1, AppendLast, UptoAppend, Appending
  <1>4. Before(a, Tail(T))
    BY <1>0, <1>1, AppendLast
  <1> HIDE DEF a
  <1>5. Places(n, a, Tail(T), T, K, B, L)
    BY <1>1, <1>3 DEF Ordered, Places
  <1>6. Bounded(n, a, T, K, B, L)
    BY <1>3 DEF Ordered, Bounded
  <1>7. Sorted(a, T, K, B, L)
    BY <1>3 DEF Ordered, Sorted
  <1>8. Ahead(a, Tail(T), T, K, B, L)
    BY <1>0, <1>2, <1>4 DEF Ordered, Ahead
  <1> QED
    BY <1>5, <1>6, <1>7, <1>8 DEF Ordered, a

\* ... and is done with it.
LEMMA OrderedDone ==
    ASSUME NEW n, NEW A, NEW T, NEW K, NEW B, NEW L, Ordered(n, A, Tail(T), T, K, B, L), T # << >>
    PROVE  Ordered(n, A, Tail(T), Tail(T), K, B, L)
  <1> DEFINE r == Tail(T)
  <1>0. /\ T \in Seq(Nat) /\ K \in Seq(Nat) /\ B \in Seq(Nat) /\ n \in Nat
        /\ \A m \in 1 .. Len(L) : L[m] \in Seq(Nat)
    BY DEF Ordered, Places
  <1>1. r \in Seq(Nat) /\ Upto(r, n) /\ Increasing(r)
    BY <1>0, HeadAndTail DEF Ordered, Bounded, Sorted
  <1>2. \A s \in Seq(Nat) : Before(T, s) => Before(r, s)
    BY <1>0, HeadAndTail
  <1> HIDE DEF r
  <1>3. Ordered(n, A, r, T, K, B, L)
    BY DEF r
  <1>4. Places(n, A, r, r, K, B, L)
    BY <1>1, <1>3 DEF Ordered, Places
  <1>5. Bounded(n, A, r, K, B, L) /\ Sorted(A, r, K, B, L)
    BY <1>1, <1>3 DEF Ordered, Bounded, Sorted
  <1>6. Ahead(A, r, r, K, B, L)
    BY <1>0, <1>2, <1>3 DEF Ordered, Ahead
  <1> QED
    BY <1>4, <1>5, <1>6 DEF Ordered, r
-----------------------------------------------------------------------------
(* The stream as the lines of its messages.                                *)

LEMMA SameSequence ==
    ASSUME NEW S, NEW s \in Seq(S), NEW t \in Seq(S), Len(s) = Len(t),
           \A i \in 1 .. Len(s) : s[i] = t[i]
    PROVE  s = t
  OBVIOUS

LEMMA LinesAreLines == ASSUME NEW msg \in Msg PROVE LinesOf(msg) \in Seq(Nat)
  BY DEF Msg, LinesOf, Result

LEMMA WireFacts ==
    ASSUME TypeWire
    PROVE  /\ wire \in Seq(Msg) /\ Len(wire) \in Nat
           /\ WireLines \in Seq(Seq(Nat)) /\ Len(WireLines) = Len(wire)
           /\ \A m \in 1 .. Len(wire) : WireLines[m] = LinesOf(wire[m])
  <1>1. wire \in Seq(Msg) /\ Len(wire) \in Nat
    BY DEF TypeWire
  <1>2. \A m \in 1 .. Len(wire) : LinesOf(wire[m]) \in Seq(Nat)
    BY <1>1, LinesAreLines
  <1> QED
    BY <1>1, <1>2 DEF WireLines

LEMMA WireFactsNext ==
    ASSUME TypeWire'
    PROVE  /\ wire' \in Seq(Msg) /\ Len(wire') \in Nat
           /\ WireLines' \in Seq(Seq(Nat)) /\ Len(WireLines') = Len(wire')
           /\ \A m \in 1 .. Len(wire') : WireLines'[m] = LinesOf(wire'[m])
  <1>1. wire' \in Seq(Msg) /\ Len(wire') \in Nat
    BY DEF TypeWire
  <1>2. \A m \in 1 .. Len(wire') : LinesOf(wire'[m]) \in Seq(Nat)
    BY <1>1, LinesAreLines
  <1>3. WireLines' = [m \in 1 .. Len(wire') |-> LinesOf(wire'[m])]
    BY DEF WireLines, LinesOf
  <1> QED
    BY <1>1, <1>2, <1>3

LEMMA WireSame == ASSUME UNCHANGED wire PROVE WireLines' = WireLines
  BY DEF WireLines, LinesOf

LEMMA WireAppend ==
    ASSUME TypeWire, TypeWire', NEW msg \in Msg, wire' = Append(wire, msg)
    PROVE  WireLines' = Append(WireLines, LinesOf(msg))
  <1> DEFINE M == Append(WireLines, LinesOf(msg))  W == WireLines'
  <1>1. /\ wire \in Seq(Msg) /\ Len(wire) \in Nat /\ LinesOf(msg) \in Seq(Nat)
        /\ WireLines \in Seq(Seq(Nat)) /\ Len(WireLines) = Len(wire)
        /\ \A m \in 1 .. Len(wire) : WireLines[m] = LinesOf(wire[m])
    BY WireFacts, LinesAreLines
  <1>2. /\ W \in Seq(Seq(Nat)) /\ Len(W) = Len(wire')
        /\ \A m \in 1 .. Len(wire') : W[m] = LinesOf(wire'[m])
    BY WireFactsNext
  <1>3. /\ Len(wire') = Len(wire) + 1
        /\ \A m \in 1 .. Len(wire) + 1 : wire'[m] = IF m = Len(wire) + 1 THEN msg ELSE wire[m]
    BY <1>1
  <1>4. /\ M \in Seq(Seq(Nat)) /\ Len(M) = Len(wire) + 1
        /\ \A m \in 1 .. Len(wire) + 1 : M[m] = IF m = Len(wire) + 1 THEN LinesOf(msg) ELSE WireLines[m]
    BY <1>1
  <1> HIDE DEF M, W
  <1>5. ASSUME NEW m \in 1 .. Len(wire) + 1 PROVE W[m] = M[m]
    <2>1. m = Len(wire) + 1 \/ (m # Len(wire) + 1 /\ m \in 1 .. Len(wire))
      BY <1>1
    <2> QED
      BY <1>1, <1>2, <1>3, <1>4, <2>1
  <1>6. W = M
    BY <1>2, <1>3, <1>4, <1>5, SameSequence
  <1> QED
    BY <1>6 DEF W, M

LEMMA WireTail ==
    ASSUME TypeWire, TypeWire', wire # << >>, wire' = Tail(wire)
    PROVE  /\ WireLines # << >> /\ WireLines' = Tail(WireLines)
           /\ Head(WireLines) = LinesOf(Head(wire)) /\ WireLines' \in Seq(Seq(Nat))
           /\ \A m \in 1 .. Len(WireLines') : m + 1 \in 1 .. Len(WireLines) /\ WireLines'[m] = WireLines[m + 1]
  <1> DEFINE L == WireLines  W == WireLines'
  <1>1. /\ wire \in Seq(Msg) /\ Len(wire) \in Nat \ {0}
        /\ L \in Seq(Seq(Nat)) /\ Len(L) = Len(wire)
        /\ \A m \in 1 .. Len(wire) : L[m] = LinesOf(wire[m])
    BY WireFacts
  <1>2. /\ W \in Seq(Seq(Nat)) /\ Len(W) = Len(wire')
        /\ \A m \in 1 .. Len(wire') : W[m] = LinesOf(wire'[m])
    BY WireFactsNext
  <1>3. /\ Len(wire') = Len(wire) - 1 /\ \A m \in 1 .. Len(wire) - 1 : wire'[m] = wire[m + 1]
        /\ Head(wire) = wire[1] /\ 1 \in 1 .. Len(wire)
    BY <1>1
  <1> HIDE DEF L, W
  <1>4. L # << >>
    BY <1>1
  <1>5. /\ Tail(L) \in Seq(Seq(Nat)) /\ Len(Tail(L)) = Len(L) - 1 /\ Head(L) = L[1]
        /\ \A m \in 1 .. Len(L) - 1 : Tail(L)[m] = L[m + 1]
    BY <1>1, <1>4
  <1>6. ASSUME NEW m \in 1 .. Len(wire) - 1 PROVE m + 1 \in 1 .. Len(wire) /\ W[m] = L[m + 1]
    BY <1>1, <1>2, <1>3
  <1>7. W = Tail(L)
    <2> DEFINE X == Tail(L)
    <2>1. X \in Seq(Seq(Nat)) /\ W \in Seq(Seq(Nat)) /\ Len(W) = Len(X) /\ Len(W) = Len(wire) - 1
      BY <1>1, <1>2, <1>3, <1>5
    <2>2. \A m \in 1 .. Len(wire) - 1 : X[m] = L[m + 1]
      BY <1>1, <1>5
    <2> HIDE DEF X
    <2>3. \A m \in 1 .. Len(W) : W[m] = X[m]
      BY <1>6, <2>1, <2>2
    <2>4. W = X
      BY <2>1, <2>3, SameSequence
    <2> QED
      BY <2>4 DEF X
  <1> QED
    <2>1. /\ L # << >> /\ W = Tail(L) /\ Head(L) = LinesOf(Head(wire)) /\ W \in Seq(Seq(Nat))
      BY <1>1, <1>2, <1>3, <1>4, <1>5, <1>7
    <2>2. \A m \in 1 .. Len(W) : m + 1 \in 1 .. Len(L) /\ W[m] = L[m + 1]
      BY <1>1, <1>2, <1>3, <1>6
    <2> QED
      BY Zenon, <2>1, <2>2 DEF L, W

LEMMA WireCut ==
    ASSUME TypeWire, TypeWire', NEW n \in 0 .. Len(wire), wire' = SubSeq(wire, 1, n)
    PROVE  /\ WireLines' \in Seq(Seq(Nat))
           /\ \A m \in 1 .. Len(WireLines') : m + 0 \in 1 .. Len(WireLines) /\ WireLines'[m] = WireLines[m + 0]
  <1> DEFINE L == WireLines  W == WireLines'
  <1>1. /\ wire \in Seq(Msg) /\ Len(wire) \in Nat
        /\ L \in Seq(Seq(Nat)) /\ Len(L) = Len(wire)
        /\ \A m \in 1 .. Len(wire) : L[m] = LinesOf(wire[m])
    BY WireFacts
  <1>2. /\ W \in Seq(Seq(Nat)) /\ Len(W) = Len(wire')
        /\ \A m \in 1 .. Len(wire') : W[m] = LinesOf(wire'[m])
    BY WireFactsNext
  <1>3. Len(wire') = n /\ \A m \in 1 .. n : wire'[m] = wire[m] /\ m \in 1 .. Len(wire) /\ m + 0 = m
    BY <1>1
  <1> HIDE DEF L, W
  <1>4. W \in Seq(Seq(Nat)) /\ \A m \in 1 .. Len(W) : m + 0 \in 1 .. Len(L) /\ W[m] = L[m + 0]
    BY <1>1, <1>2, <1>3
  <1> QED
    BY <1>4 DEF L, W
-----------------------------------------------------------------------------
(* The steps, in terms of places.                                          *)

places == << written, appended, todo, taken, batch, wire >>

LEMMA OrderSame == ASSUME OrderInv, UNCHANGED << places, step >> PROVE OrderInv'
  <1>1. WireLines' = WireLines /\ Unstored' = Unstored
    BY WireSame DEF places, Unstored
  <1> QED
    BY <1>1 DEF OrderInv, places

\* What a flush takes.
LEMMA TakeMoves ==
    ASSUME taken = << >>, NEW who, Take(who, batch) PROVE taken' = batch /\ batch' = << >>
  BY DEF Take

LEMMA WorkerOrder ==
    ASSUME LogTypeOK, TypeWire', OrderInv, MutexInv,
           \/ WriteLine \/ FlushTick \/ FlushSends \/ FlushFails \/ OutputEnds \/ FinalFlush
           \/ JobTimesOut \/ Report \/ StreamBreaks
    PROVE  OrderInv'
  <1> DEFINE Ord(n, K, B, L) == Ordered(n, appended, Unstored, todo, K, B, L)
  <1>0. UNCHANGED << todo, step, appended >>
    BY DEF WriteLine, FlushTick, FlushSends, FlushFails, OutputEnds, FinalFlush, JobTimesOut,
           Report, StreamBreaks, ingest
  <1>1. Unstored' = Unstored
    BY <1>0 DEF Unstored
  <1>2. TypeWire /\ Ord(written, taken, batch, WireLines)
    BY TypeGroups DEF OrderInv
  <1>3. SUFFICES Ord(written', taken', batch', WireLines')
    BY <1>0, <1>1 DEF OrderInv
  <1>4. taken \in Seq(Nat) /\ LogBatch(taken) \in Msg /\ LinesOf(LogBatch(taken)) = taken
    BY TypeGroups DEF TypeWorker, Msg, LogBatch, LinesOf, Result
  <1>5. Result \in Msg /\ LinesOf(Result) = << >>
    BY DEF Msg, LinesOf
  <1> HIDE DEF Ord
  <1>6. CASE WriteLine
    <2>1. taken = << >> /\ WireLines' = WireLines /\ written' = written + 1
      BY <1>6, WireSame DEF WriteLine, MutexInv
    <2>2. \/ batch' = Append(batch, written + 1) /\ taken' = << >>
          \/ batch' = << >> /\ taken' = Append(batch, written + 1)
      <3>1. batch \in Seq(Nat) /\ written \in Nat /\ Append(batch, written + 1) # << >>
        BY TypeGroups, LogAssumption DEF TypeWorker
      <3> QED
        BY <1>6, <2>1, <3>1 DEF WriteLine, Take
    <2>3. /\ Ord(written + 1, << >>, Append(batch, written + 1), WireLines)
          /\ Ord(written + 1, Append(batch, written + 1), << >>, WireLines)
      BY <1>2, <2>1, OrderedWrite DEF Ord
    <2> QED
      BY <2>1, <2>2, <2>3
  <1>7. CASE FlushTick \/ FinalFlush
    <2>1. taken = << >> /\ WireLines' = WireLines /\ written' = written
      BY <1>7, WireSame DEF FlushTick, FinalFlush, MutexInv
    <2>2. taken' = batch /\ batch' = << >>
      BY <1>7, <2>1, TakeMoves DEF FlushTick, FinalFlush
    <2> QED
      BY <1>2, <2>1, <2>2, OrderedTake DEF Ord
  <1>8. CASE FlushSends
    <2>1. wire' = Append(wire, LogBatch(taken)) /\ taken' = << >> /\ UNCHANGED << written, batch >>
      BY <1>8 DEF FlushSends, FlushEnds
    <2>2. WireLines' = Append(WireLines, taken)
      BY <1>2, <1>4, <2>1, WireAppend
    <2> QED
      BY <1>2, <2>1, <2>2, OrderedSend DEF Ord
  <1>9. CASE FlushFails \/ OutputEnds \/ JobTimesOut
    <2>1. UNCHANGED << written, batch, wire >> /\ (taken' = << >> \/ taken' = taken)
      BY <1>9 DEF FlushFails, FlushEnds, OutputEnds, JobTimesOut
    <2>2. WireLines' = WireLines
      BY <2>1, WireSame
    <2> QED
      BY <1>2, <2>1, <2>2, OrderedDrop DEF Ord
  <1>10. CASE Report
    <2>1. UNCHANGED << written, batch, taken >> /\ (UNCHANGED wire \/ wire' = Append(wire, Result))
      BY <1>10 DEF Report
    <2>2. WireLines' = WireLines \/ WireLines' = Append(WireLines, << >>)
      BY <1>2, <1>5, <2>1, WireAppend, WireSame
    <2> QED
      BY <1>2, <2>1, <2>2, OrderedResult DEF Ord
  <1>11. CASE StreamBreaks
    <2>1. UNCHANGED << written, batch, taken >>
      BY <1>11 DEF StreamBreaks, worker
    <2>2. PICK n \in 0 .. Len(wire) : wire' = SubSeq(wire, 1, n)
      BY <1>11 DEF StreamBreaks
    <2>3. /\ WireLines' \in Seq(Seq(Nat))
          /\ \A m \in 1 .. Len(WireLines') : m + 0 \in 1 .. Len(WireLines) /\ WireLines'[m] = WireLines[m + 0]
      BY <1>2, <2>2, WireCut
    <2> QED
      BY <1>2, <2>1, <2>3, OrderedPart DEF Ord
  <1> QED
    BY <1>6, <1>7, <1>8, <1>9, <1>10, <1>11

LEMMA ServerOrder ==
    ASSUME LogTypeOK, TypeWire', InHand, OrderInv, ServerLogStep
    PROVE  OrderInv'
  <1>0. /\ TypeWire /\ Ordered(written, appended, Unstored, todo, taken, batch, WireLines)
        /\ UNCHANGED << written, taken, batch >>
    BY TypeGroups DEF OrderInv, ServerLogStep, ReadBatch, AppendLine, LookUpSubscribers, SendLine,
                      LineDone, ReadResult, RemoveLogs, RemoveSubscribers, worker
  <1>1. CASE ReadBatch
    <2>1. /\ todo = << >> /\ step = "buffer" /\ UNCHANGED << step, appended >> /\ Head(wire) # Result
          /\ todo' = Head(wire).lines /\ wire # << >> /\ wire' = Tail(wire)
      BY <1>1 DEF ReadBatch, StreamIdle, InHand
    <2>2. Unstored = << >> /\ Unstored' = todo' /\ todo' = LinesOf(Head(wire))
      BY <2>1 DEF Unstored, LinesOf
    <2>3. WireLines # << >> /\ WireLines' = Tail(WireLines) /\ Head(WireLines) = LinesOf(Head(wire))
      BY <1>0, <2>1, WireTail
    <2> QED
      BY <1>0, <2>1, <2>2, <2>3, OrderedRead DEF OrderInv
  <1>2. CASE AppendLine
    <2>1. /\ todo # << >> /\ step = "buffer" /\ step' = "look" /\ UNCHANGED << todo, wire >>
          /\ appended' = Append(appended, Head(todo))
      BY <1>2 DEF AppendLine
    <2>2. Unstored = todo /\ Unstored' = Tail(todo) /\ WireLines' = WireLines
      BY <2>1, WireSame DEF Unstored
    <2> QED
      BY <1>0, <2>1, <2>2, OrderedStore DEF OrderInv
  <1>3. CASE LookUpSubscribers
    <2>1. UNCHANGED << todo, wire, appended >> /\ step = "look" /\ step' = "send"
      BY <1>3 DEF LookUpSubscribers
    <2>2. Unstored' = Unstored /\ WireLines' = WireLines
      BY <2>1, WireSame DEF Unstored
    <2> QED
      BY <1>0, <2>1, <2>2 DEF OrderInv
  <1>4. CASE SendLine \/ RemoveLogs \/ RemoveSubscribers
    <2>1. UNCHANGED << todo, step, appended, wire >>
      BY <1>4 DEF SendLine, RemoveLogs, RemoveSubscribers, ingest
    <2> QED
      BY <1>0, <2>1, OrderSame DEF places
  <1>5. CASE LineDone
    <2>1. /\ UNCHANGED << wire, appended >> /\ step = "send" /\ step' = "buffer" /\ todo' = Tail(todo)
          /\ todo # << >>
      BY <1>5 DEF LineDone, InHand
    <2>2. Unstored = Tail(todo) /\ Unstored' = Tail(todo) /\ WireLines' = WireLines
      BY <2>1, WireSame DEF Unstored
    <2> QED
      BY <1>0, <2>1, <2>2, OrderedDone DEF OrderInv
  <1>6. CASE ReadResult
    <2>0. UNCHANGED ingest
      BY <1>6 DEF ReadResult
    <2>1. UNCHANGED << todo, step, appended >>
      BY Zenon, <2>0 DEF ingest
    <2>5. UNCHANGED wire \/ (wire # << >> /\ wire' = Tail(wire))
      BY <1>6 DEF ReadResult
    <2>2. Unstored' = Unstored
      BY <2>1 DEF Unstored
    <2>3. CASE UNCHANGED wire
      BY <1>0, <2>1, <2>3, OrderSame DEF places
    <2>4. CASE wire # << >> /\ wire' = Tail(wire)
      <3>1. /\ WireLines' \in Seq(Seq(Nat))
            /\ \A m \in 1 .. Len(WireLines') : m + 1 \in 1 .. Len(WireLines) /\ WireLines'[m] = WireLines[m + 1]
        BY <1>0, <2>4, WireTail
      <3> QED
        BY <1>0, <2>1, <2>2, <3>1, OrderedPart DEF OrderInv
    <2> QED
      BY <2>3, <2>4, <2>5
  <1> QED
    BY <1>1, <1>2, <1>3, <1>4, <1>5, <1>6 DEF ServerLogStep

\* The steps of followers.
LEMMA FollowersElsewhere ==
    ASSUME NEW c \in Followers,
           \/ Subscribe(c) \/ FollowerStep(c) \/ Forward(c) \/ ClientReads(c) \/ Leave(c)
           \/ ForwardFails(c) \/ StreamEnds(c)
    PROVE  UNCHANGED << places, flags, lost >>
  <1>1. UNCHANGED << worker, wire, broken, late, ingest, closing >>
    BY DEF Subscribe, FollowerStep, SendHistory, EnterReplay, Replay, RegisterFollower,
           Forward, ClientReads, Leave, ForwardFails, StreamEnds
  <1> QED
    BY Zenon, <1>1 DEF worker, ingest, places, flags

LEMMA MutexMoves == ASSUME MutexInv, TypeFlags, LogNext PROVE MutexInv'
  <1>1. CASE WriteLine \/ FlushTick \/ FinalFlush
    BY <1>1 DEF WriteLine, FlushTick, FinalFlush, Take, MutexInv
  <1>2. CASE FlushSends \/ FlushFails \/ OutputEnds
    BY <1>2 DEF FlushSends, FlushFails, FlushEnds, OutputEnds, MutexInv
  <1>3. CASE JobTimesOut
    BY <1>3 DEF JobTimesOut, MutexInv, TypeFlags, Flusher
  <1>4. CASE Report
    BY <1>4 DEF Report, MutexInv
  <1>5. CASE StreamBreaks \/ ServerLogStep
    <2>1. UNCHANGED worker
      BY <1>5 DEF StreamBreaks, ServerLogStep, ReadBatch, AppendLine, LookUpSubscribers, SendLine,
                  LineDone, ReadResult, RemoveLogs, RemoveSubscribers
    <2> QED
      BY Zenon, <2>1 DEF worker, MutexInv
  <1>6. CASE UNCHANGED << places, flags, lost >>
    BY Zenon, <1>6 DEF places, flags, MutexInv
  <1> QED
    BY <1>1, <1>2, <1>3, <1>4, <1>5, <1>6, FollowersElsewhere DEF LogNext
-----------------------------------------------------------------------------
(* No line is lost but those given up.                                     *)

LEMMA NotInEmpty == \A x : ~In(x, << >>)
  BY DEF In

LEMMA InAppend ==
    ASSUME NEW S, NEW s \in Seq(S), NEW y \in S
    PROVE  \A x : In(x, Append(s, y)) <=> In(x, s) \/ x = y
  <1> DEFINE a == Append(s, y)
  <1>1. /\ Len(a) = Len(s) + 1 /\ Len(s) \in Nat /\ a[Len(s) + 1] = y
        /\ \A i \in 1 .. Len(s) : a[i] = s[i]
    OBVIOUS
  <1>2. /\ \A i \in 1 .. Len(a) : i = Len(s) + 1 \/ i \in 1 .. Len(s)
        /\ Len(s) + 1 \in 1 .. Len(a) /\ \A i \in 1 .. Len(s) : i \in 1 .. Len(a)
    BY <1>1
  <1> HIDE DEF a
  <1>3. \A x : In(x, a) <=> In(x, s) \/ x = y
    BY <1>1, <1>2 DEF In
  <1> QED
    BY <1>3 DEF a

LEMMA InHeadOrTail ==
    ASSUME NEW S, NEW s \in Seq(S), s # << >>
    PROVE  \A x : In(x, s) <=> x = Head(s) \/ In(x, Tail(s))
  <1> DEFINE r == Tail(s)
  <1>1. /\ Len(s) \in Nat \ {0} /\ Head(s) = s[1] /\ Len(r) = Len(s) - 1
        /\ \A i \in 1 .. Len(r) : r[i] = s[i + 1]
    OBVIOUS
  <1>2. /\ 1 \in 1 .. Len(s) /\ \A i \in 1 .. Len(r) : i + 1 \in 1 .. Len(s)
        /\ \A i \in 1 .. Len(s) : i = 1 \/ (i - 1 \in 1 .. Len(r) /\ (i - 1) + 1 = i)
    BY <1>1
  <1> HIDE DEF r
  <1>3. ASSUME NEW x, In(x, s) PROVE x = Head(s) \/ In(x, r)
    <2>1. PICK i \in 1 .. Len(s) : s[i] = x
      BY <1>3 DEF In
    <2>2. i = 1 \/ (i - 1 \in 1 .. Len(r) /\ r[i - 1] = x)
      BY <1>1, <1>2, <2>1
    <2> QED
      BY <1>1, <2>1, <2>2 DEF In
  <1>4. ASSUME NEW x, x = Head(s) \/ In(x, r) PROVE In(x, s)
    BY <1>1, <1>2, <1>4 DEF In
  <1> QED
    BY <1>3, <1>4 DEF r

\* The last disjunct of Covered is membership in one of the sequences of L.
LEMMA InSome == \A L, x : (\E m \in 1 .. Len(L) : In(x, L[m])) <=> \E s : In(s, L) /\ In(x, s)
  BY DEF In

LEMMA CoveredWrite ==
    ASSUME NEW n \in Nat, NEW X, NEW A, NEW U, NEW B \in Seq(Nat), NEW L,
           Covered(n, X, A, U, << >>, B, L)
    PROVE  /\ Covered(n + 1, X, A, U, << >>, Append(B, n + 1), L)
           /\ Covered(n + 1, X, A, U, Append(B, n + 1), << >>, L)
  <1>1. \A x : In(x, Append(B, n + 1)) <=> In(x, B) \/ x = n + 1
    BY InAppend
  <1>2. X \subseteq 1 .. n + 1 /\ \A x \in 1 .. n + 1 : x \in 1 .. n \/ x = n + 1
    BY DEF Covered
  <1> QED
    BY <1>1, <1>2, NotInEmpty DEF Covered

LEMMA CoveredTake ==
    ASSUME NEW n, NEW X, NEW A, NEW U, NEW B, NEW L, Covered(n, X, A, U, << >>, B, L)
    PROVE  Covered(n, X, A, U, B, << >>, L)
  BY NotInEmpty DEF Covered

LEMMA CoveredDrop ==
    ASSUME NEW n, NEW X, NEW A, NEW U, NEW K, NEW B, NEW L, Covered(n, X, A, U, K, B, L), Upto(K, n)
    PROVE  Covered(n, X \cup Lines(K), A, U, << >>, B, L)
  <1>1. \A x : x \in Lines(K) <=> In(x, K)
    BY DEF Lines, In
  <1>2. Lines(K) \subseteq 1 .. n
    BY DEF Lines, Upto
  <1> QED
    BY <1>1, <1>2 DEF Covered

LEMMA CoveredSend ==
    ASSUME NEW n, NEW X, NEW A, NEW U, NEW K \in Seq(Nat), NEW B, NEW L \in Seq(Seq(Nat)),
           Covered(n, X, A, U, K, B, L)
    PROVE  /\ Covered(n, X, A, U, << >>, B, Append(L, K))
           /\ Covered(n, X, A, U, K, B, Append(L, << >>))
  <1> DEFINE M == Append(L, K)  N == Append(L, << >>)
             Some(x, S) == \E m \in 1 .. Len(S) : In(x, S[m])
  <1>1. /\ \A s : In(s, M) <=> In(s, L) \/ s = K
        /\ \A s : In(s, N) <=> In(s, L) \/ s = << >>
    <2>1. K \in Seq(Nat) /\ << >> \in Seq(Nat)
      OBVIOUS
    <2> QED
      BY Zenon, <2>1, InAppend
  <1> HIDE DEF M, N
  <1>2. \A x : Some(x, L) => Some(x, M) /\ Some(x, N)
    <2> SUFFICES ASSUME NEW x, Some(x, L) PROVE Some(x, M) /\ Some(x, N)
      OBVIOUS
    <2>1. PICK s : In(s, L) /\ In(x, s)
      BY Zenon, InSome
    <2>2. In(s, M) /\ In(s, N)
      BY <1>1, <2>1
    <2> QED
      BY Zenon, <2>1, <2>2, InSome
  <1>3. \A x : In(x, K) => Some(x, M)
    BY Zenon, <1>1, InSome
  <1>4. Covered(n, X, A, U, << >>, B, M)
    BY <1>2, <1>3 DEF Covered
  <1>5. Covered(n, X, A, U, K, B, N)
    BY <1>2 DEF Covered
  <1> QED
    BY <1>4, <1>5 DEF M, N

LEMMA CoveredRead ==
    ASSUME NEW n, NEW X, NEW A, NEW U, NEW K, NEW B, NEW L \in Seq(Seq(Nat)), L # << >>,
           Covered(n, X, A, U, K, B, L)
    PROVE  /\ U = << >> => Covered(n, X, A, Head(L), K, B, Tail(L))
           /\ Head(L) = << >> => Covered(n, X, A, U, K, B, Tail(L))
  <1> DEFINE h == Head(L)  M == Tail(L)
             Some(x, S) == \E m \in 1 .. Len(S) : In(x, S[m])
  <1>1. \A s : In(s, L) <=> s = h \/ In(s, M)
    BY InHeadOrTail
  <1> HIDE DEF h, M
  <1>2. \A x : Some(x, L) => In(x, h) \/ Some(x, M)
    <2> SUFFICES ASSUME NEW x, Some(x, L) PROVE In(x, h) \/ Some(x, M)
      OBVIOUS
    <2>1. PICK s : In(s, L) /\ In(x, s)
      BY Zenon, InSome
    <2>2. s = h \/ In(s, M)
      BY <1>1, <2>1
    <2> QED
      BY Zenon, <2>1, <2>2, InSome
  <1>3. ASSUME U = << >> PROVE Covered(n, X, A, h, K, B, M)
    BY <1>2, <1>3, NotInEmpty DEF Covered
  <1>4. ASSUME h = << >> PROVE Covered(n, X, A, U, K, B, M)
    BY <1>2, <1>4, NotInEmpty DEF Covered
  <1> QED
    BY <1>3, <1>4 DEF h, M

LEMMA CoveredStore ==
    ASSUME NEW n, NEW X, NEW A \in Seq(Nat), NEW T \in Seq(Nat), NEW K, NEW B, NEW L, T # << >>,
           Covered(n, X, A, T, K, B, L)
    PROVE  Covered(n, X, Append(A, Head(T)), Tail(T), K, B, L)
  <1>1. \A x : In(x, T) <=> x = Head(T) \/ In(x, Tail(T))
    BY InHeadOrTail
  <1>2. \A x : In(x, Append(A, Head(T))) <=> In(x, A) \/ x = Head(T)
    BY InAppend
  <1> QED
    BY <1>1, <1>2 DEF Covered

LEMMA CoverSame ==
    ASSUME CoverInv, UNCHANGED << places, step, lost, broken >> PROVE CoverInv'
  <1>1. WireLines' = WireLines /\ Unstored' = Unstored
    BY WireSame DEF places, Unstored
  <1> QED
    BY <1>1 DEF CoverInv, places

LEMMA WorkerCover ==
    ASSUME LogTypeOK, TypeWire', OrderInv, MutexInv, CoverInv,
           \/ WriteLine \/ FlushTick \/ FlushSends \/ FlushFails \/ OutputEnds \/ FinalFlush
           \/ JobTimesOut \/ Report \/ StreamBreaks
    PROVE  CoverInv'
  <1> DEFINE Cov(n, X, K, B, L) == Covered(n, X, appended, Unstored, K, B, L)
  <1>1. CASE StreamBreaks
    BY <1>1 DEF StreamBreaks, CoverInv
  <1> SUFFICES ASSUME ~StreamBreaks, ~broken' PROVE Cov(written, lost, taken, batch, WireLines)'
    BY <1>1 DEF CoverInv
  <1>2. UNCHANGED << todo, step, appended, broken >>
    BY DEF WriteLine, FlushTick, FlushSends, FlushFails, OutputEnds, FinalFlush, JobTimesOut,
           Report, ingest
  <1>3. Unstored' = Unstored
    BY <1>2 DEF Unstored
  <1>4. TypeWire /\ TypeWorker /\ Cov(written, lost, taken, batch, WireLines) /\ Upto(taken, written)
    BY <1>2, TypeGroups DEF CoverInv, OrderInv, Ordered, Bounded
  <1>5. SUFFICES Cov(written', lost', taken', batch', WireLines')
    BY <1>2, <1>3
  <1>6. taken \in Seq(Nat) /\ LogBatch(taken) \in Msg /\ LinesOf(LogBatch(taken)) = taken
    BY TypeGroups DEF TypeWorker, Msg, LogBatch, LinesOf, Result
  <1>7. Result \in Msg /\ LinesOf(Result) = << >>
    BY DEF Msg, LinesOf
  <1>8. written \in Nat /\ batch \in Seq(Nat) /\ WireLines \in Seq(Seq(Nat))
    BY <1>4, LogAssumption, WireFacts DEF TypeWorker
  <1> HIDE DEF Cov
  <1>9. CASE WriteLine
    <2>1. taken = << >> /\ WireLines' = WireLines /\ written' = written + 1 /\ lost' = lost
      BY <1>9, WireSame DEF WriteLine, MutexInv
    <2>2. \/ batch' = Append(batch, written + 1) /\ taken' = << >>
          \/ batch' = << >> /\ taken' = Append(batch, written + 1)
      <3>1. Len(Append(batch, written + 1)) = Len(batch) + 1 /\ Len(batch) \in Nat
        BY <1>8, Appending
      <3>2. Append(batch, written + 1) # << >>
        BY <3>1
      <3> QED
        BY <1>9, <2>1, <3>2 DEF WriteLine, Take
    <2>3. /\ Cov(written + 1, lost, << >>, Append(batch, written + 1), WireLines)
          /\ Cov(written + 1, lost, Append(batch, written + 1), << >>, WireLines)
      BY <1>4, <1>8, <2>1, CoveredWrite DEF Cov
    <2> QED
      BY <2>1, <2>2, <2>3
  <1>10. CASE FlushTick \/ FinalFlush
    <2>1. taken = << >> /\ WireLines' = WireLines /\ written' = written /\ lost' = lost
      BY <1>10, WireSame DEF FlushTick, FinalFlush, MutexInv
    <2>2. taken' = batch /\ batch' = << >>
      BY <1>10, <2>1, TakeMoves DEF FlushTick, FinalFlush
    <2> QED
      BY <1>4, <2>1, <2>2, CoveredTake DEF Cov
  <1>11. CASE FlushSends
    <2>1. /\ wire' = Append(wire, LogBatch(taken)) /\ taken' = << >>
          /\ UNCHANGED << written, batch, lost >>
      BY <1>11 DEF FlushSends, FlushEnds
    <2>2. WireLines' = Append(WireLines, taken)
      BY <1>4, <1>6, <2>1, WireAppend
    <2> QED
      BY <1>4, <1>6, <1>8, <2>1, <2>2, CoveredSend DEF Cov
  <1>12. CASE FlushFails \/ OutputEnds \/ JobTimesOut
    <2>1. /\ UNCHANGED << written, batch, wire >>
          /\ \/ taken' = << >> /\ lost' = lost \cup Lines(taken)
             \/ taken' = taken /\ lost' = lost
      BY <1>12 DEF FlushFails, FlushEnds, OutputEnds, JobTimesOut
    <2>2. WireLines' = WireLines
      BY <2>1, WireSame
    <2>3. Cov(written, lost \cup Lines(taken), << >>, batch, WireLines)
      BY <1>4, CoveredDrop DEF Cov
    <2> QED
      BY <1>4, <2>1, <2>2, <2>3
  <1>13. CASE Report
    <2>1. /\ UNCHANGED << written, batch, taken, lost >>
          /\ UNCHANGED wire \/ wire' = Append(wire, Result)
      BY <1>13 DEF Report
    <2>2. WireLines' = WireLines \/ WireLines' = Append(WireLines, << >>)
      BY <1>4, <1>7, <2>1, WireAppend, WireSame
    <2>3. Cov(written, lost, taken, batch, Append(WireLines, << >>))
      BY <1>4, <1>6, <1>8, CoveredSend DEF Cov
    <2> QED
      BY <1>4, <2>1, <2>2, <2>3
  <1> QED
    BY <1>9, <1>10, <1>11, <1>12, <1>13

LEMMA ServerCover ==
    ASSUME LogTypeOK, TypeWire', InHand, CoverInv, ServerLogStep
    PROVE  CoverInv'
  <1>0. UNCHANGED << worker, broken >>
    BY DEF ServerLogStep, ReadBatch, AppendLine, LookUpSubscribers, SendLine, LineDone,
           ReadResult, RemoveLogs, RemoveSubscribers
  <1> SUFFICES ASSUME ~broken
               PROVE  Covered(written, lost, appended, Unstored, taken, batch, WireLines)'
    BY <1>0 DEF CoverInv
  <1>1. /\ UNCHANGED << written, lost, taken, batch, broken >>
        /\ Covered(written, lost, appended, Unstored, taken, batch, WireLines)
    BY <1>0 DEF worker, CoverInv
  <1>2. /\ TypeWire /\ WireLines \in Seq(Seq(Nat)) /\ appended \in Seq(Nat) /\ todo \in Seq(Nat)
    BY TypeGroups, WireFacts DEF TypeIngest
  <1>3. CASE ReadBatch
    <2>1. /\ todo = << >> /\ step = "buffer" /\ UNCHANGED << step, appended >> /\ Head(wire) # Result
          /\ todo' = Head(wire).lines /\ wire # << >> /\ wire' = Tail(wire)
      BY <1>3 DEF ReadBatch, StreamIdle, InHand
    <2>2. Unstored = << >> /\ Unstored' = LinesOf(Head(wire))
      BY <2>1 DEF Unstored, LinesOf
    <2>3. WireLines # << >> /\ WireLines' = Tail(WireLines) /\ Head(WireLines) = LinesOf(Head(wire))
      BY <1>2, <2>1, WireTail
    <2> QED
      BY <1>1, <1>2, <2>1, <2>2, <2>3, CoveredRead
  <1>4. CASE AppendLine
    <2>1. /\ todo # << >> /\ step = "buffer" /\ step' = "look" /\ UNCHANGED << todo, wire >>
          /\ appended' = Append(appended, Head(todo))
      BY <1>4 DEF AppendLine
    <2>2. Unstored = todo /\ Unstored' = Tail(todo) /\ WireLines' = WireLines
      BY <2>1, WireSame DEF Unstored
    <2> QED
      BY <1>1, <1>2, <2>1, <2>2, CoveredStore
  <1>5. CASE LookUpSubscribers \/ LineDone
    <2>1. /\ UNCHANGED << wire, appended >>
          /\ \/ step = "look" /\ step' = "send" /\ UNCHANGED todo
             \/ step = "send" /\ step' = "buffer" /\ todo' = Tail(todo)
      BY <1>5 DEF LookUpSubscribers, LineDone
    <2>2. Unstored' = Unstored /\ WireLines' = WireLines
      BY <2>1, WireSame DEF Unstored
    <2> QED
      BY <1>1, <2>1, <2>2
  <1>6. CASE SendLine \/ RemoveLogs \/ RemoveSubscribers
    <2>1. UNCHANGED << todo, step, appended, wire >>
      BY <1>6 DEF SendLine, RemoveLogs, RemoveSubscribers, ingest
    <2>2. Unstored' = Unstored /\ WireLines' = WireLines
      BY <2>1, WireSame DEF Unstored
    <2> QED
      BY <1>1, <2>1, <2>2
  <1>7. CASE ReadResult
    <2>0. UNCHANGED ingest
      BY <1>7 DEF ReadResult
    <2>1. UNCHANGED << todo, step, appended >>
      BY Zenon, <2>0 DEF ingest
    <2>2. UNCHANGED wire \/ (wire # << >> /\ wire' = Tail(wire) /\ Head(wire) = Result)
      BY <1>7 DEF ReadResult
    <2>3. Unstored' = Unstored
      BY <2>1 DEF Unstored
    <2>4. CASE UNCHANGED wire
      BY <1>1, <2>1, <2>3, <2>4, WireSame
    <2>5. CASE wire # << >> /\ wire' = Tail(wire) /\ Head(wire) = Result
      <3>1. WireLines # << >> /\ WireLines' = Tail(WireLines) /\ Head(WireLines) = << >>
        BY <1>2, <2>5, WireTail DEF LinesOf
      <3> QED
        BY <1>1, <1>2, <2>1, <2>3, <3>1, CoveredRead
    <2> QED
      BY <2>2, <2>4, <2>5
  <1> QED
    BY <1>3, <1>4, <1>5, <1>6, <1>7 DEF ServerLogStep
-----------------------------------------------------------------------------
(* The result comes last.                                                  *)

\* LastInv on a connection that holds and without a timeout.
LEMMA LastMoves ==
    ASSUME LogTypeOK, InHand, MutexInv, LastInv, LogNext PROVE LastInv'
  <1>0. TypeWire /\ TypeFlags /\ wire \in Seq(Msg) /\ Len(wire) \in Nat
    BY TypeGroups, WireFacts
  <1>1. (timedOut => timedOut') /\ (broken => broken')
    <2>1. CASE \/ WriteLine \/ FlushTick \/ FlushSends \/ FlushFails \/ OutputEnds \/ FinalFlush
               \/ JobTimesOut \/ Report
      <3>1. UNCHANGED << timedOut, broken >> \/ (timedOut' = TRUE /\ UNCHANGED broken)
        BY <2>1 DEF WriteLine, FlushTick, FlushSends, FlushFails, OutputEnds, FinalFlush,
                    JobTimesOut, Report
      <3> QED
        BY <1>0, <3>1 DEF TypeFlags
    <2>2. CASE StreamBreaks \/ ServerLogStep
      <3>1. UNCHANGED worker /\ (UNCHANGED broken \/ broken' = TRUE)
        BY <2>2 DEF StreamBreaks, ServerLogStep, ReadBatch, AppendLine, LookUpSubscribers,
                           SendLine, LineDone, ReadResult, RemoveLogs, RemoveSubscribers
      <3> QED
        BY <1>0, <3>1 DEF worker, TypeFlags
    <2>3. CASE UNCHANGED flags
      BY <1>0, <2>3 DEF flags, TypeFlags
    <2> QED
      BY <2>1, <2>2, <2>3, FollowersElsewhere DEF LogNext
  <1> SUFFICES ASSUME ~timedOut', ~broken' PROVE LastInv'
    BY DEF LastInv
  <1>2. ~timedOut /\ ~broken
    BY <1>1
  <1>3. /\ output # "run" => ~ticking
        /\ output \in {"end", "reported"} => batch = << >> /\ flushing = "none"
        /\ \A m \in 1 .. Len(wire) : wire[m] = Result => m = Len(wire) /\ output = "reported"
        /\ ~late
        /\ closing # "no" => wire = << >> /\ todo = << >> /\ output = "reported"
    BY <1>2 DEF LastInv
  <1>4. CASE WriteLine \/ FlushTick
    <2>1. output = "run" /\ UNCHANGED << output, wire, late, closing, todo, ticking >>
      BY <1>3, <1>4 DEF WriteLine, FlushTick, ingest
    <2> QED
      BY <1>3, <2>1 DEF LastInv
  <1>5. CASE FlushSends \/ FlushFails
    <2>1. /\ flushing \in {"reader", "task", "final"} /\ output \in {"run", "drain"} /\ closing = "no"
          /\ UNCHANGED << late, closing, todo, ticking, batch >> /\ flushing' = "none"
      BY <1>0, <1>3, <1>5 DEF FlushSends, FlushFails, FlushEnds, TypeFlags, Flusher, Output, ingest
    <2>2. output' = output \/ (output' = "end" /\ output = "drain" /\ batch' = << >>)
      BY <1>5, <2>1 DEF FlushSends, FlushFails, FlushEnds, MutexInv
    <2>3. \A m \in 1 .. Len(wire') : wire'[m] # Result
      <3>1. \A m \in 1 .. Len(wire) : wire[m] # Result
        BY <1>3, <2>1
      <3>2. LogBatch(taken) \in Msg /\ LogBatch(taken) # Result
        BY TypeGroups DEF TypeWorker, Msg, LogBatch, Result
      <3>3. UNCHANGED wire \/ wire' = Append(wire, LogBatch(taken))
        BY <1>5 DEF FlushSends, FlushFails
      <3>4. ASSUME wire' = Append(wire, LogBatch(taken)), NEW m \in 1 .. Len(wire')
            PROVE  wire'[m] # Result
        <4>1. m = Len(wire) + 1 \/ (m # Len(wire) + 1 /\ m \in 1 .. Len(wire))
          BY <1>0, <3>2, <3>4
        <4>2. wire'[m] = IF m = Len(wire) + 1 THEN LogBatch(taken) ELSE wire[m]
          BY <1>0, <3>2, <3>4, <4>1
        <4> QED
          BY <3>1, <3>2, <4>1, <4>2
      <3> QED
        BY <3>1, <3>3, <3>4
    <2> QED
      BY <1>3, <2>1, <2>2, <2>3 DEF LastInv
  <1>6. CASE OutputEnds
    <2>1. /\ output = "run" /\ output' = "drain" /\ ticking' = FALSE
          /\ UNCHANGED << wire, late, closing, todo >>
      BY <1>6 DEF OutputEnds, ingest
    <2> QED
      BY <1>3, <2>1 DEF LastInv
  <1>7. CASE FinalFlush
    <2>1. /\ output = "drain" /\ UNCHANGED << wire, late, closing, todo, ticking >>
          /\ \/ output' = "drain"
             \/ output' = "end" /\ batch' = << >> /\ flushing' = "none"
      BY <1>7 DEF FinalFlush, Take, ingest
    <2> QED
      BY <1>3, <2>1 DEF LastInv
  <1>8. CASE JobTimesOut
    BY <1>8 DEF JobTimesOut
  <1>9. CASE Report
    <2>1. /\ output = "end" /\ output' = "reported" /\ wire' = Append(wire, Result)
          /\ UNCHANGED << late, closing, todo, ticking, batch, flushing >> /\ closing = "no"
      BY <1>2, <1>3, <1>9 DEF Report, ingest
    <2>2. \A m \in 1 .. Len(wire) : wire[m] # Result
      BY <1>3, <2>1
    <2>3. ASSUME NEW m \in 1 .. Len(wire'), wire'[m] = Result PROVE m = Len(wire')
      <3>1. Result \in Msg
        BY DEF Msg
      <3>2. /\ Len(wire') = Len(wire) + 1
            /\ \A k \in 1 .. Len(wire) : wire'[k] = wire[k]
        BY <1>0, <2>1, <3>1
      <3>3. m = Len(wire) + 1 \/ m \in 1 .. Len(wire)
        BY <1>0, <3>2
      <3> QED
        BY <2>2, <2>3, <3>2, <3>3
    <2> QED
      BY <1>3, <2>1, <2>3 DEF LastInv
  <1>10. CASE StreamBreaks
    BY <1>10 DEF StreamBreaks
  <1>11. CASE ReadBatch
    <2>1. /\ UNCHANGED << worker, late, closing >> /\ wire # << >> /\ wire' = Tail(wire) /\ closing = "no"
      BY <1>3, <1>11 DEF ReadBatch
    <2>2. UNCHANGED << output, ticking, batch, flushing >>
      BY Zenon, <2>1 DEF worker
    <2>3. ASSUME NEW m \in 1 .. Len(wire'), wire'[m] = Result PROVE m = Len(wire') /\ output = "reported"
      <3>1. Len(wire') = Len(wire) - 1 /\ wire'[m] = wire[m + 1] /\ m + 1 \in 1 .. Len(wire)
        BY <1>0, <2>1
      <3>2. m + 1 = Len(wire) /\ output = "reported"
        BY <1>3, <2>3, <3>1
      <3> QED
        BY <1>0, <3>1, <3>2
    <2> QED
      BY <1>3, <2>1, <2>2, <2>3 DEF LastInv
  <1>12. CASE AppendLine \/ LookUpSubscribers \/ SendLine \/ LineDone
    <2>1. /\ UNCHANGED << worker, wire, late, closing >>
          /\ todo' = todo \/ closing = "no"
      BY <1>3, <1>12 DEF AppendLine, LookUpSubscribers, SendLine, LineDone, InHand
    <2>2. UNCHANGED << output, ticking, batch, flushing >>
      BY Zenon, <2>1 DEF worker
    <2> QED
      BY <1>3, <2>1, <2>2 DEF LastInv
  <1>13. CASE ReadResult
    <2>1. UNCHANGED << worker, ingest >> /\ wire # << >> /\ Head(wire) = Result /\ wire' = Tail(wire)
      BY <1>3, <1>13 DEF ReadResult
    <2>2. UNCHANGED << output, ticking, batch, flushing, todo >>
      BY Zenon, <2>1 DEF worker, ingest
    <2>3. todo = << >> /\ late' = late
      BY <1>3, <1>13 DEF ReadResult, StreamIdle
    <2>4. Len(wire) = 1 /\ output = "reported"
      <3>1. 1 \in 1 .. Len(wire) /\ wire[1] = Result
        BY <1>0, <2>1
      <3> QED
        BY <1>3, <3>1
    <2>5. wire' = << >>
      BY <1>0, <2>1, <2>4
    <2>6. Len(wire') = 0
      BY <2>5
    <2> QED
      BY <1>3, <2>2, <2>3, <2>4, <2>5, <2>6 DEF LastInv
  <1>14. CASE RemoveLogs \/ RemoveSubscribers
    <2>1. UNCHANGED << worker, wire, late, ingest >> /\ closing # "no"
      BY <1>14 DEF RemoveLogs, RemoveSubscribers
    <2>2. UNCHANGED << output, ticking, batch, flushing, todo >>
      BY Zenon, <2>1 DEF worker, ingest
    <2> QED
      BY <1>3, <2>1, <2>2 DEF LastInv
  <1>15. CASE UNCHANGED << places, flags, lost >>
    BY Zenon, <1>15 DEF places, flags, LastInv
  <1> QED
    BY <1>4, <1>5, <1>6, <1>7, <1>8, <1>9, <1>10, <1>11, <1>12, <1>13, <1>14, <1>15,
       FollowersElsewhere DEF LogNext, ServerLogStep

-----------------------------------------------------------------------------
(* The theorems.                                                           *)

LEMMA InvStarts == LogInit => LogInv
  <1> SUFFICES ASSUME LogInit PROVE LogInv
    OBVIOUS
  <1>1. LogTypeOK /\ InHand
    BY TypesStart
  <1>2. MutexInv /\ LastInv
    BY DEF LogInit, MutexInv, LastInv
  <1>3. /\ written = 0 /\ appended = << >> /\ todo = << >> /\ taken = << >> /\ batch = << >>
        /\ lost = {} /\ Unstored = << >> /\ WireLines \in Seq(Seq(Nat)) /\ Len(WireLines) = 0
    BY <1>1, TypeGroups, WireFacts DEF LogInit, Unstored
  <1> DEFINE L == WireLines
  <1>4. /\ Before(<< >>, << >>) /\ Increasing(<< >>) /\ Upto(<< >>, 0) /\ << >> \in Seq(Nat)
        /\ 1 .. Len(L) = {} /\ L \in Seq(Seq(Nat))
    <2>1. << >> \in Seq(Nat) /\ 0 \in Nat
      OBVIOUS
    <2>2. 1 .. Len(L) = {} /\ L \in Seq(Seq(Nat))
      BY <1>3
    <2> QED
      BY Zenon, <2>1, <2>2, Empty
  <1> HIDE DEF L
  <1>5. Ordered(0, << >>, << >>, << >>, << >>, << >>, L)
    BY <1>4 DEF Ordered, Places, Bounded, Sorted, Ahead
  <1>6. Covered(0, {}, << >>, << >>, << >>, << >>, L)
    BY DEF Covered
  <1>7. OrderInv /\ CoverInv
    BY <1>3, <1>5, <1>6 DEF OrderInv, CoverInv, L
  <1> QED
    BY <1>1, <1>2, <1>7 DEF LogInv

LEMMA InvMoves == ASSUME LogInv, LogNext PROVE LogInv'
  <1>0. LogTypeOK /\ InHand /\ OrderInv /\ MutexInv /\ LastInv /\ CoverInv /\ TypeFlags
    BY TypeGroups DEF LogInv
  <1>1. LogTypeOK' /\ InHand' /\ TypeWire' /\ MutexInv' /\ LastInv'
    BY <1>0, TypesMove, TypeGroupsNext, MutexMoves, LastMoves
  <1>2. CASE \/ WriteLine \/ FlushTick \/ FlushSends \/ FlushFails \/ OutputEnds \/ FinalFlush
             \/ JobTimesOut \/ Report \/ StreamBreaks
    BY <1>0, <1>1, <1>2, WorkerOrder, WorkerCover DEF LogInv
  <1>3. CASE ServerLogStep
    BY <1>0, <1>1, <1>3, ServerOrder, ServerCover DEF LogInv
  <1>4. CASE UNCHANGED << places, flags, lost >>
    <2>1. UNCHANGED << places, step, lost, broken >>
      BY Zenon, <1>4 DEF flags
    <2> QED
      BY <1>0, <1>1, <2>1, OrderSame, CoverSame DEF LogInv
  <1> QED
    BY Zenon, <1>2, <1>3, <1>4, FollowersElsewhere DEF LogNext

LEMMA InvStays == ASSUME LogInv, UNCHANGED logVars PROVE LogInv'
  <1>1. UNCHANGED << worker, wire, broken, late, ingest, closing >>
    BY Zenon DEF logVars
  <1>2. UNCHANGED << places, flags, lost >>
    BY Zenon, <1>1 DEF worker, ingest, places, flags
  <1>3. UNCHANGED << places, step, lost, broken >>
    BY Zenon, <1>2 DEF flags
  <1>4. MutexInv' /\ LastInv'
    BY Zenon, <1>2 DEF LogInv, places, flags, MutexInv, LastInv
  <1> QED
    BY <1>3, <1>4, TypesStay, OrderSame, CoverSame DEF LogInv

LEMMA LogInvHolds == LogSpec => []LogInv
  <1>1. LogInv /\ [LogNext]_logVars => LogInv'
    BY InvMoves, InvStays
  <1> QED
    BY <1>1, InvStarts, PTL DEF LogSpec

\* For any number of lines and any capacities: append_log sees the lines in the order
\* they were written and none twice, whoever flushes and whatever is dropped.
THEOREM LinesStayInOrder == LogSpec => []LinesInOrder
  <1>1. LogInv => LinesInOrder
    BY DEF LogInv, OrderInv, Ordered, Sorted, Increasing, LinesInOrder
  <1> QED
    BY <1>1, LogInvHolds, PTL

\* For any number of lines and any capacities: on one connection and without a timeout,
\* when the server clears a job's logs every line was stored or given up.
THEOREM ResultIsLast == LogSpec => []ResultComesLast
  <1>1. LogInv => ResultComesLast
    <2> SUFFICES ASSUME LogInv, closing # "no", ~timedOut, ~broken
                 PROVE  /\ batch = << >> /\ taken = << >> /\ wire = << >> /\ todo = << >>
                        /\ Lines(appended) \cup lost = 1 .. written
      BY DEF ResultComesLast
    <2>1. wire = << >> /\ todo = << >> /\ batch = << >> /\ taken = << >>
      BY DEF LogInv, LastInv, MutexInv
    <2>2. Unstored = << >> /\ Len(WireLines) = 0
      BY <2>1, TypeGroups, WireFacts DEF LogInv, InHand, Unstored
    <2>3. /\ Covered(written, lost, appended, << >>, << >>, << >>, WireLines)
          /\ Upto(appended, written) /\ 1 .. Len(WireLines) = {}
      BY <2>1, <2>2 DEF LogInv, CoverInv, OrderInv, Ordered, Bounded
    <2>4. \A x : x \in Lines(appended) <=> In(x, appended)
      BY DEF Lines, In
    <2>5. 1 .. written \subseteq Lines(appended) \cup lost
      BY <2>3, <2>4, NotInEmpty DEF Covered
    <2>6. Lines(appended) \subseteq 1 .. written /\ lost \subseteq 1 .. written
      BY <2>3 DEF Covered, Lines, Upto
    <2> QED
      BY <2>1, <2>5, <2>6
  <1> QED
    BY <1>1, LogInvHolds, PTL

-----------------------------------------------------------------------------
(* Followers.  The lines of a follower as one sequence: a line that goes   *)
(* from channel to channel leaves it as it is, a line that is sent to the  *)
(* follower extends it.                                                    *)

LEMMA Appended ==
    ASSUME NEW s \in Seq(Nat), NEW x \in Nat
    PROVE  /\ Append(s, x) \in Seq(Nat) /\ Len(Append(s, x)) = Len(s) + 1
           /\ Append(s, x)[Len(s) + 1] = x
           /\ \A i \in 1 .. Len(s) : Append(s, x)[i] = s[i]
  OBVIOUS

LEMMA PartOf ==
    ASSUME NEW s \in Seq(Nat), NEW k \in Nat, NEW n \in Nat, k + n <= Len(s)
    PROVE  /\ SubSeq(s, k + 1, k + n) \in Seq(Nat) /\ Len(SubSeq(s, k + 1, k + n)) = n
           /\ \A i \in 1 .. n : SubSeq(s, k + 1, k + n)[i] = s[k + i]
  <1>1. \A i \in 1 .. n : k + i \in 1 .. Len(s) /\ (k + 1) + i - 1 = k + i
    OBVIOUS
  <1>2. SubSeq(s, k + 1, k + n) = [i \in 1 .. n |-> s[k + i]]
    <2>1. (k + n) - (k + 1) + 1 = n
      OBVIOUS
    <2> QED
      BY <1>1, <2>1
  <1> QED
    BY <1>1, <1>2

LEMMA Joined ==
    ASSUME NEW s \in Seq(Nat), NEW t \in Seq(Nat)
    PROVE  /\ s \o t \in Seq(Nat) /\ Len(s \o t) = Len(s) + Len(t)
           /\ \A i \in 1 .. Len(s) : (s \o t)[i] = s[i]
           /\ \A i \in 1 .. Len(t) : (s \o t)[Len(s) + i] = t[i]
  <1>1. /\ s \o t \in Seq(Nat) /\ Len(s \o t) = Len(s) + Len(t)
        /\ \A i \in 1 .. Len(s) + Len(t) : (s \o t)[i] = IF i <= Len(s) THEN s[i] ELSE t[i - Len(s)]
    OBVIOUS
  <1>2. Len(s) \in Nat /\ Len(t) \in Nat
    OBVIOUS
  <1>3. ASSUME NEW i \in 1 .. Len(s) PROVE (s \o t)[i] = s[i]
    <2>1. i \in 1 .. Len(s) + Len(t) /\ i <= Len(s)
      BY <1>2
    <2> QED
      BY <1>1, <2>1
  <1>4. ASSUME NEW i \in 1 .. Len(t) PROVE (s \o t)[Len(s) + i] = t[i]
    <2>1. /\ Len(s) + i \in 1 .. Len(s) + Len(t) /\ ~(Len(s) + i <= Len(s))
          /\ (Len(s) + i) - Len(s) = i
      BY <1>2
    <2> QED
      BY <1>1, <2>1
  <1> QED
    BY <1>1, <1>3, <1>4

\* An index of a joined sequence is one of the first or of the second.
LEMMA Index ==
    ASSUME NEW m \in Nat, NEW n \in Nat, NEW i \in 1 .. m + n
    PROVE  i \in 1 .. m \/ \E k \in 1 .. n : i = m + k
  <1>1. CASE i > m
    <2>1. i - m \in 1 .. n /\ i = m + (i - m)
      BY <1>1
    <2> QED
      BY <2>1
  <1> QED
    BY <1>1

LEMMA JoinedAppend ==
    ASSUME NEW s \in Seq(Nat), NEW t \in Seq(Nat), NEW x \in Nat
    PROVE  s \o Append(t, x) = Append(s \o t, x)
  <1> DEFINE u == Append(t, x)
             st == s \o t
             l == s \o u
             r == Append(st, x)
             m == Len(s)
             n == Len(t)
  <1>0. m \in Nat /\ n \in Nat
    OBVIOUS
  <1>1. u \in Seq(Nat) /\ Len(u) = n + 1 /\ u[n + 1] = x /\ \A i \in 1 .. n : u[i] = t[i]
    OBVIOUS
  <1>2. /\ st \in Seq(Nat) /\ Len(st) = m + n
        /\ \A i \in 1 .. m : st[i] = s[i]
        /\ \A i \in 1 .. n : st[m + i] = t[i]
    BY Joined
  <1> HIDE DEF u, st
  <1>l. /\ l \in Seq(Nat) /\ Len(l) = m + Len(u)
        /\ \A i \in 1 .. m : l[i] = s[i]
        /\ \A i \in 1 .. Len(u) : l[m + i] = u[i]
    BY Zenon, <1>1, Joined
  <1>r. /\ r \in Seq(Nat) /\ Len(r) = Len(st) + 1 /\ r[Len(st) + 1] = x
        /\ \A i \in 1 .. Len(st) : r[i] = st[i]
    BY Zenon, <1>2, Appended
  <1> HIDE DEF l, r, m, n
  <1>3. /\ l \in Seq(Nat) /\ Len(l) = m + (n + 1)
        /\ \A i \in 1 .. m : l[i] = s[i]
        /\ \A i \in 1 .. n + 1 : l[m + i] = u[i]
    BY Zenon, <1>1, <1>l
  <1>4. /\ r \in Seq(Nat) /\ Len(r) = (m + n) + 1 /\ r[(m + n) + 1] = x
        /\ \A i \in 1 .. m + n : r[i] = st[i]
    BY Zenon, <1>2, <1>r
  <1>5. ASSUME NEW i \in 1 .. m + (n + 1) PROVE l[i] = r[i]
    <2>1. CASE i \in 1 .. m
      <3>1. i \in 1 .. m + n
        BY <1>0, <2>1
      <3> QED
        BY <1>2, <1>3, <1>4, <2>1, <3>1
    <2>2. ASSUME NEW k \in 1 .. n + 1, i = m + k PROVE l[i] = r[i]
      <3>1. l[i] = u[k]
        BY <1>3, <2>2
      <3>2. CASE k = n + 1
        <4>1. i = (m + n) + 1
          BY <1>0, <2>2, <3>2
        <4> QED
          BY <1>1, <1>4, <3>1, <3>2, <4>1
      <3>3. CASE k # n + 1
        <4>1. k \in 1 .. n /\ m + k \in 1 .. m + n
          BY <1>0, <3>3
        <4> QED
          BY <1>1, <1>2, <1>4, <2>2, <3>1, <4>1
      <3> QED
        BY <3>2, <3>3
    <2>3. n + 1 \in Nat
      BY <1>0
    <2> QED
      BY <1>0, <2>1, <2>2, <2>3, Index
  <1>6. Len(l) = Len(r)
    BY <1>0, <1>3, <1>4
  <1>7. l = r
    BY <1>3, <1>4, <1>5, <1>6, SameSequence
  <1> QED
    BY <1>7 DEF l, r, u, st

LEMMA HeadMoves ==
    ASSUME NEW s \in Seq(Nat), NEW t \in Seq(Nat), t # << >>
    PROVE  Append(s, Head(t)) \o Tail(t) = s \o t
  <1> DEFINE a == Append(s, Head(t))
             b == Tail(t)
             l == a \o b
             r == s \o t
             m == Len(s)
             n == Len(b)
  <1>0. m \in Nat /\ n \in Nat
    OBVIOUS
  <1>1. /\ Head(t) = t[1] /\ Head(t) \in Nat /\ b \in Seq(Nat) /\ Len(t) = 1 + n
        /\ \A i \in 1 .. n : b[i] = t[1 + i]
    OBVIOUS
  <1>2. a \in Seq(Nat) /\ Len(a) = m + 1 /\ a[m + 1] = t[1] /\ \A i \in 1 .. m : a[i] = s[i]
    BY <1>1
  <1> HIDE DEF a, b
  <1>l. /\ l \in Seq(Nat) /\ Len(l) = Len(a) + n
        /\ \A i \in 1 .. Len(a) : l[i] = a[i]
        /\ \A i \in 1 .. n : l[Len(a) + i] = b[i]
    BY Zenon, <1>1, <1>2, Joined
  <1>r. /\ r \in Seq(Nat) /\ Len(r) = m + Len(t)
        /\ \A i \in 1 .. m : r[i] = s[i]
        /\ \A i \in 1 .. Len(t) : r[m + i] = t[i]
    BY Zenon, Joined
  <1> HIDE DEF l, r, m, n
  <1>3. /\ l \in Seq(Nat) /\ Len(l) = (m + 1) + n
        /\ \A i \in 1 .. m + 1 : l[i] = a[i]
        /\ \A i \in 1 .. n : l[(m + 1) + i] = b[i]
    BY Zenon, <1>2, <1>l
  <1>4. /\ r \in Seq(Nat) /\ Len(r) = m + (1 + n)
        /\ \A i \in 1 .. m : r[i] = s[i]
        /\ \A i \in 1 .. 1 + n : r[m + i] = t[i]
    BY Zenon, <1>1, <1>r
  <1>5. ASSUME NEW i \in 1 .. (m + 1) + n PROVE l[i] = r[i]
    <2>1. CASE i \in 1 .. m
      <3>1. i \in 1 .. m + 1
        BY <1>0, <2>1
      <3> QED
        BY <1>2, <1>3, <1>4, <2>1, <3>1
    <2>2. CASE i = m + 1
      <3>1. 1 \in 1 .. 1 + n /\ i \in 1 .. m + 1
        BY <1>0, <2>2
      <3> QED
        BY <1>2, <1>3, <1>4, <2>2, <3>1
    <2>3. ASSUME NEW k \in 1 .. n, i = (m + 1) + k PROVE l[i] = r[i]
      <3>1. i = m + (1 + k) /\ 1 + k \in 1 .. 1 + n
        BY <1>0, <2>3
      <3> QED
        BY <1>1, <1>3, <1>4, <2>3, <3>1
    <2>4. i \in 1 .. m + 1 \/ \E k \in 1 .. n : i = (m + 1) + k
      <3>1. m + 1 \in Nat
        BY <1>0
      <3> QED
        BY <1>0, <3>1, Index
    <2>5. i \in 1 .. m + 1 => i \in 1 .. m \/ i = m + 1
      BY <1>0
    <2> QED
      BY <2>1, <2>2, <2>3, <2>4, <2>5
  <1>6. Len(l) = Len(r)
    BY <1>0, <1>3, <1>4
  <1>7. l = r
    BY <1>3, <1>4, <1>5, <1>6, SameSequence
  <1> QED
    BY <1>7 DEF l, r, a, b

\* A list without duplicates, extended and shortened.
LEMMA LinesAppend ==
    ASSUME NEW s \in Seq(Followers), NEW c \in Followers
    PROVE  /\ Lines(Append(s, c)) = Lines(s) \cup {c}
           /\ Distinct(s) /\ c \notin Lines(s) => Distinct(Append(s, c))
  <1> DEFINE r == Append(s, c)
  <1>1. /\ Len(r) = Len(s) + 1 /\ Len(s) \in Nat /\ r[Len(s) + 1] = c
        /\ \A i \in 1 .. Len(s) : r[i] = s[i]
        /\ \A i \in 1 .. Len(r) : i \in 1 .. Len(s) \/ i = Len(s) + 1
        /\ Len(s) + 1 \in 1 .. Len(r) /\ \A i \in 1 .. Len(s) : i \in 1 .. Len(r)
    OBVIOUS
  <1> HIDE DEF r
  <1>2. Lines(r) = Lines(s) \cup {c}
    BY <1>1 DEF Lines
  <1>3. Distinct(s) /\ c \notin Lines(s) => Distinct(r)
    BY <1>1 DEF Distinct, Lines
  <1> QED
    BY <1>2, <1>3 DEF r

LEMMA LinesTail ==
    ASSUME NEW s \in Seq(Followers), s # << >>, Distinct(s)
    PROVE  /\ Distinct(Tail(s))
           /\ Lines(Tail(s)) = Lines(s) \ {Head(s)}
           /\ Head(s) \in Lines(s)
  <1> DEFINE r == Tail(s)
  <1>1. /\ Len(s) \in Nat \ {0} /\ Head(s) = s[1] /\ Len(r) = Len(s) - 1
        /\ \A i \in 1 .. Len(r) : r[i] = s[i + 1]
    OBVIOUS
  <1> HIDE DEF r
  <1>2. /\ 1 \in 1 .. Len(s) /\ \A i \in 1 .. Len(r) : i + 1 \in 1 .. Len(s) /\ i + 1 # 1
        /\ \A i \in 1 .. Len(s) : i # 1 => i - 1 \in 1 .. Len(r) /\ i - 1 + 1 = i
        /\ \A i, k \in 1 .. Len(r) : i + 1 = k + 1 => i = k
    BY <1>1
  <1>3. Distinct(r)
    BY <1>1, <1>2 DEF Distinct
  <1>4. ASSUME NEW x \in Lines(r) PROVE x \in Lines(s) /\ x # Head(s)
    <2>1. PICK i \in 1 .. Len(r) : x = r[i]
      BY DEF Lines
    <2>2. x = s[i + 1]
      BY <1>1, <2>1
    <2> QED
      BY <1>1, <1>2, <2>2 DEF Lines, Distinct
  <1>5. ASSUME NEW x \in Lines(s), x # Head(s) PROVE x \in Lines(r)
    <2>1. PICK i \in 1 .. Len(s) : x = s[i]
      BY DEF Lines
    <2>2. i # 1
      BY <1>1, <1>5, <2>1
    <2>3. r[i - 1] = s[i]
      BY <1>1, <1>2, <2>2
    <2> QED
      BY <1>2, <2>1, <2>2, <2>3 DEF Lines
  <1>6. Head(s) \in Lines(s)
    BY <1>1, <1>2 DEF Lines
  <1> QED
    BY <1>3, <1>4, <1>5, <1>6 DEF r

\* The types that the proofs about followers use.
LEMMA FollowFacts ==
    ASSUME LogTypeOK
    PROVE  /\ phase \in [Followers -> Phase] /\ live \in [Followers -> Nat]
           /\ chan \in [Followers -> Seq(Nat)] /\ out \in [Followers -> Seq(Nat)]
           /\ got \in [Followers -> Seq(Nat)]
           /\ todo \in Seq(Nat) /\ appended \in Seq(Nat)
           /\ subs \in Seq(Followers) /\ serving \in Seq(Followers) /\ step \in Step
  BY TypeGroups DEF TypeFollowers, TypeIngest, TypeFlags

LEMMA NoLines == Lines(<< >>) = {} /\ Distinct(<< >>)
  BY DEF Lines, Distinct

LEMMA AllLinesTyped ==
    ASSUME LogTypeOK, NEW c \in Followers
    PROVE  AllLines(c) \in Seq(Nat) /\ Len(AllLines(c)) = Len(got[c]) + Len(out[c]) + Len(chan[c])
  <1> DEFINE go == got[c] \o out[c]
  <1>1. got[c] \in Seq(Nat) /\ out[c] \in Seq(Nat) /\ chan[c] \in Seq(Nat)
    BY FollowFacts
  <1>2. go \in Seq(Nat) /\ Len(go) = Len(got[c]) + Len(out[c])
    BY Zenon, <1>1, Joined
  <1> HIDE DEF go
  <1>3. go \o chan[c] \in Seq(Nat) /\ Len(go \o chan[c]) = Len(go) + Len(chan[c])
    BY Zenon, <1>1, <1>2, Joined
  <1> QED
    BY <1>2, <1>3, Zenon DEF AllLines, go

\* A follower whose lines stay, and the log too, and who is owed as much as before.
LEMMA HasStays ==
    ASSUME NEW c \in Followers, NEW a \in Nat, NEW n \in Nat, Has(c, a, n),
           AllLines(c)' = AllLines(c), live'[c] = live[c], appended' = appended,
           c \in Lines(subs') => c \in Lines(subs) /\ Owed(c)' = Owed(c)
    PROVE  Has(c, a, n)'
  BY DEF Has

\* Steps of other followers and of the worker.
LEMMA AllLinesStay ==
    ASSUME NEW c \in Followers, got'[c] = got[c], out'[c] = out[c], chan'[c] = chan[c]
    PROVE  AllLines(c)' = AllLines(c)
  BY Zenon DEF AllLines

LEMMA FollowSame ==
    ASSUME FollowInv, UNCHANGED << todo, step, serving, appended, subs, phase, got, out, chan, live >>
    PROVE  FollowInv'
  <1>1. ServingInv' /\ HandInv'
    BY Zenon DEF FollowInv, ServingInv, HandInv
  <1>2. ASSUME NEW c \in Followers, phase'[c] = "open" PROVE \E a, n \in Nat : Has(c, a, n)'
    <2>1. PICK a, n \in Nat : Has(c, a, n)
      BY <1>2 DEF FollowInv
    <2>2. AllLines(c)' = AllLines(c) /\ Owed(c)' = Owed(c)
      BY Zenon DEF AllLines, Owed
    <2>3. Has(c, a, n)'
      BY <2>1, <2>2, HasStays
    <2> QED
      BY <2>3
  <1> QED
    BY <1>1, <1>2 DEF FollowInv

Early == {"none", "history", "enter", "replay", "register"}

\* One follower moves: it is sound if that one is, and no other is registered.
LEMMA OneFollower ==
    ASSUME LogTypeOK, FollowInv, NEW c \in Followers, UNCHANGED ingest,
           \A d \in Followers \ {c} : /\ phase'[d] = phase[d] /\ live'[d] = live[d]
                                       /\ got'[d] = got[d] /\ out'[d] = out[d] /\ chan'[d] = chan[d],
           \/ subs' = subs
           \/ subs' = Append(subs, c) /\ phase[c] \in Early /\ phase'[c] \notin Early,
           phase'[c] \in Early => phase[c] \in Early /\ got'[c] = got[c],
           phase'[c] = "open" => \E a, n \in Nat : Has(c, a, n)'
    PROVE  FollowInv'
  <1>0. subs \in Seq(Followers) /\ UNCHANGED << todo, step, serving, appended >>
    BY FollowFacts DEF ingest
  <1>1. c \notin Lines(subs) \/ phase[c] \notin Early
    BY DEF FollowInv, ServingInv, Early
  <1>2. /\ Distinct(subs') /\ Lines(subs) \subseteq Lines(subs')
        /\ \A d \in Followers : d # c => (d \in Lines(subs') <=> d \in Lines(subs))
        /\ phase'[c] \in Early => c \notin Lines(subs')
    <2>1. CASE subs' = subs
      BY <1>1, <2>1 DEF FollowInv, ServingInv
    <2>2. CASE subs' = Append(subs, c) /\ phase[c] \in Early /\ phase'[c] \notin Early
      BY <1>0, <1>1, <2>2, LinesAppend DEF FollowInv, ServingInv
    <2> QED
      BY <2>1, <2>2
  <1>3. ServingInv'
    <2>1. ASSUME NEW d \in Followers, phase'[d] \in Early PROVE d \notin Lines(subs') /\ got'[d] = << >>
      <3>1. CASE d = c
        BY <1>2, <2>1, <3>1 DEF FollowInv, ServingInv, Early
      <3>2. CASE d # c
        BY <1>2, <2>1, <3>2 DEF FollowInv, ServingInv, Early
      <3> QED
        BY <3>1, <3>2
    <2>2. Distinct(serving) /\ Lines(serving) \subseteq Lines(subs') /\ (step # "send" => serving = << >>)
      BY <1>2 DEF FollowInv, ServingInv
    <2> QED
      BY <1>0, <1>2, <2>1, <2>2 DEF ServingInv, Early
  <1>4. HandInv'
    BY Zenon, <1>0 DEF FollowInv, HandInv
  <1>5. ASSUME NEW d \in Followers, phase'[d] = "open" PROVE \E a, n \in Nat : Has(d, a, n)'
    <2>1. CASE d = c
      BY <1>5, <2>1
    <2>2. CASE d # c
      <3>1. PICK a, n \in Nat : Has(d, a, n)
        BY <1>5, <2>2 DEF FollowInv
      <3>2. AllLines(d)' = AllLines(d) /\ Owed(d)' = Owed(d)
        BY Zenon, <1>0, <2>2, AllLinesStay DEF Owed
      <3>3. Has(d, a, n)'
        BY <1>0, <1>2, <2>2, <3>1, <3>2, HasStays
      <3> QED
        BY <3>3
    <2> QED
      BY <2>1, <2>2
  <1> QED
    BY <1>3, <1>4, <1>5 DEF FollowInv

\* The steps of subscriptions.
LEMMA SubscriptionFollows ==
    ASSUME LogTypeOK, FollowInv, NEW c \in Followers,
           \/ Subscribe(c) \/ FollowerStep(c) \/ Forward(c) \/ ClientReads(c) \/ Leave(c)
           \/ ForwardFails(c) \/ StreamEnds(c)
    PROVE  FollowInv'
  <1>0. /\ phase \in [Followers -> Phase] /\ live \in [Followers -> Nat]
        /\ chan \in [Followers -> Seq(Nat)] /\ out \in [Followers -> Seq(Nat)]
        /\ got \in [Followers -> Seq(Nat)] /\ appended \in Seq(Nat)
    BY FollowFacts
  <1>1. CASE Subscribe(c) \/ SendHistory(c) \/ EnterReplay(c) \/ Replay(c)
    <2>1. UNCHANGED << ingest, subs, got, live >>
      BY <1>1 DEF Subscribe, SendHistory, EnterReplay, Replay
    <2>2. phase[c] \in Early /\ phase'[c] \in Early
      BY <1>0, <1>1 DEF Subscribe, SendHistory, EnterReplay, Replay, Move, Early
    <2>3. \A d \in Followers \ {c} : phase'[d] = phase[d] /\ out'[d] = out[d] /\ chan'[d] = chan[d]
      BY <1>0, <1>1 DEF Subscribe, SendHistory, EnterReplay, Replay, Move
    <2>4. phase'[c] # "open"
      BY <2>2 DEF Early
    <2> QED
      BY <2>1, <2>2, <2>3, <2>4, OneFollower
  <1>2. CASE RegisterFollower(c)
    <2>1. /\ UNCHANGED << ingest, got, out, chan >> /\ phase[c] = "register" /\ subs' = Append(subs, c)
          /\ phase' = [phase EXCEPT ![c] = "open"]
          /\ live' = [live EXCEPT ![c] = Len(out[c]) + Len(chan[c])]
      BY <1>2 DEF RegisterFollower, Move
    <2>2. phase'[c] = "open" /\ live'[c] = Len(out[c]) + Len(chan[c])
      BY <1>0, <2>1
    <2>3. got[c] = << >>
      BY <2>1 DEF FollowInv, ServingInv
    <2>4. AllLines(c)' = AllLines(c) /\ Len(AllLines(c)) = live'[c]
      <3>1. AllLines(c)' = AllLines(c)
        BY Zenon, <2>1, AllLinesStay
      <3> DEFINE n == Len(out[c])
                 m == Len(chan[c])
      <3>2. n \in Nat /\ m \in Nat
        BY <1>0
      <3>3. Len(<< >>) = 0
        OBVIOUS
      <3>4. Len(AllLines(c)) = Len(got[c]) + n + m
        BY AllLinesTyped
      <3> HIDE DEF n, m
      <3>5. Len(AllLines(c)) = 0 + n + m
        BY Zenon, <2>3, <3>3, <3>4
      <3>6. Len(AllLines(c)) = n + m
        BY <3>2, <3>5
      <3> QED
        BY Zenon, <2>2, <3>1, <3>6 DEF n, m
    <2>5. Has(c, 0, 0)'
      <3> DEFINE n == Len(AllLines(c))
                 m == Len(appended)
      <3>1. m \in Nat /\ n \in Nat
        BY <1>0, AllLinesTyped
      <3>2. Len(AllLines(c)') = n /\ Len(appended') = m /\ live'[c] = n
        BY Zenon, <2>1, <2>4 DEF ingest
      <3> HIDE DEF n, m
      <3>3. n = n + 0 /\ 0 + 0 <= m /\ 1 .. 0 = {} /\ ~(0 > 0)
        BY <3>1
      <3> QED
        BY Zenon, <3>2, <3>3 DEF Has
    <2>6. \A d \in Followers \ {c} : phase'[d] = phase[d] /\ live'[d] = live[d]
      BY <1>0, <2>1
    <2>7. phase[c] \in Early /\ phase'[c] \notin Early
      BY <2>1, <2>2 DEF Early
    <2>8. 0 \in Nat
      OBVIOUS
    <2>9. \E a, n \in Nat : Has(c, a, n)'
      BY <2>5, <2>8
    <2> QED
      BY <2>1, <2>6, <2>7, <2>9, OneFollower
  <1>3. CASE Forward(c) \/ ClientReads(c)
    <2>1. UNCHANGED << ingest, subs, phase, live >> /\ phase[c] = "open"
      BY <1>3 DEF Forward, ClientReads
    <2>2. \A d \in Followers \ {c} : got'[d] = got[d] /\ out'[d] = out[d] /\ chan'[d] = chan[d]
      BY <1>0, <1>3 DEF Forward, ClientReads
    <2>t. got[c] \in Seq(Nat) /\ out[c] \in Seq(Nat) /\ chan[c] \in Seq(Nat)
      BY <1>0
    <2>3. AllLines(c)' = AllLines(c)
      <3>1. CASE Forward(c)
        <4>1. /\ got'[c] = got[c] /\ out'[c] = Append(out[c], Head(chan[c])) /\ chan'[c] = Tail(chan[c])
              /\ chan[c] # << >>
          BY <1>0, <3>1 DEF Forward
        <4>2. Head(chan[c]) \in Nat
          BY <2>t, <4>1, HeadAndTail
        <4>3. got[c] \o Append(out[c], Head(chan[c])) = Append(got[c] \o out[c], Head(chan[c]))
          BY Zenon, <2>t, <4>2, JoinedAppend
        <4>4. got[c] \o out[c] \in Seq(Nat)
          BY Zenon, <2>t, Joined
        <4>5. Append(got[c] \o out[c], Head(chan[c])) \o Tail(chan[c]) = (got[c] \o out[c]) \o chan[c]
          BY Zenon, <2>t, <4>1, <4>4, HeadMoves
        <4> QED
          BY Zenon, <4>1, <4>3, <4>5 DEF AllLines
      <3>2. CASE ClientReads(c)
        <4>1. /\ got'[c] = Append(got[c], Head(out[c])) /\ out'[c] = Tail(out[c]) /\ chan'[c] = chan[c]
              /\ out[c] # << >>
          BY <1>0, <3>2 DEF ClientReads
        <4>2. Append(got[c], Head(out[c])) \o Tail(out[c]) = got[c] \o out[c]
          BY Zenon, <2>t, <4>1, HeadMoves
        <4> QED
          BY Zenon, <4>1, <4>2 DEF AllLines
      <3> QED
        BY <1>3, <3>1, <3>2
    <2>4. \E a, n \in Nat : Has(c, a, n)'
      <3>1. PICK a, n \in Nat : Has(c, a, n)
        BY <2>1 DEF FollowInv
      <3>2. Owed(c)' = Owed(c) /\ appended' = appended
        BY Zenon, <2>1 DEF Owed, ingest
      <3>3. Has(c, a, n)'
        BY <2>1, <2>3, <3>1, <3>2, HasStays
      <3> QED
        BY <3>3
    <2>5. phase'[c] \notin Early
      BY <2>1 DEF Early
    <2> QED
      BY <2>1, <2>2, <2>4, <2>5, OneFollower
  <1>4. CASE Leave(c) \/ ForwardFails(c) \/ StreamEnds(c)
    <2>1. UNCHANGED << ingest, subs, got, live >>
      BY <1>4 DEF Leave, ForwardFails, StreamEnds
    <2>2. phase'[c] \notin Early /\ phase'[c] # "open"
      BY <1>0, <1>4 DEF Leave, ForwardFails, StreamEnds, Move, Early
    <2>3. \A d \in Followers \ {c} : phase'[d] = phase[d] /\ out'[d] = out[d] /\ chan'[d] = chan[d]
      BY <1>0, <1>4 DEF Leave, ForwardFails, StreamEnds, Move
    <2> QED
      BY <2>1, <2>2, <2>3, OneFollower
  <1> QED
    BY <1>1, <1>2, <1>3, <1>4 DEF FollowerStep

\* The log grows: every subscriber is owed the new line.
LEMMA AppendFollows ==
    ASSUME LogTypeOK, FollowInv, AppendLine
    PROVE  FollowInv'
  <1>1. /\ step = "buffer" /\ step' = "look" /\ todo # << >>
        /\ appended' = Append(appended, Head(todo))
        /\ UNCHANGED << todo, serving, subs, phase, got, out, chan, live >>
    BY DEF AppendLine, followers
  <1>2. appended \in Seq(Nat) /\ Head(todo) \in Nat
    BY <1>1, FollowFacts, HeadAndTail
  <1> DEFINE m == Len(appended)
  <1>3. /\ m \in Nat /\ Len(appended') = m + 1 /\ appended'[m + 1] = Head(todo)
        /\ \A i \in 1 .. m : appended'[i] = appended[i]
    BY <1>1, <1>2
  <1>4. serving = << >> /\ ServingInv' /\ Lines(serving) = {}
    BY <1>1, NoLines DEF FollowInv, ServingInv
  <1>5. HandInv'
    <2>1. appended' # << >>
      BY <1>3
    <2> QED
      BY <1>1, <1>3, <2>1 DEF HandInv
  <1>6. ASSUME NEW c \in Followers, phase'[c] = "open" PROVE \E a, n \in Nat : Has(c, a, n)'
    <2>1. PICK a, n \in Nat : Has(c, a, n)
      BY <1>1, <1>6 DEF FollowInv
    <2>2. AllLines(c)' = AllLines(c)
      BY Zenon, <1>1, AllLinesStay
    <2>3. Owed(c) = 0 /\ Owed(c)' = 1
      BY <1>1, <1>4 DEF Owed
    <2>4. /\ Len(AllLines(c)) = live[c] + n
          /\ a + n <= m
          /\ \A i \in 1 .. n : AllLines(c)[live[c] + i] = appended[a + i]
          /\ c \in Lines(subs) /\ n > 0 => a + n + 0 = m
      BY <2>1, <2>3 DEF Has
    <2> HIDE DEF m
    <2>5. a + n <= m + 1 /\ (c \in Lines(subs) /\ n > 0 => a + n + 1 = m + 1)
      BY <1>3, <2>4
    <2>6. ASSUME NEW i \in 1 .. n PROVE AllLines(c)[live[c] + i] = appended'[a + i]
      <3>1. a + i \in 1 .. m
        BY <1>3, <2>4
      <3> QED
        BY <1>3, <2>4, <3>1
    <2>7. Has(c, a, n)'
      BY Zenon, <1>1, <1>3, <2>2, <2>3, <2>4, <2>5, <2>6 DEF Has
    <2> QED
      BY <2>7
  <1> QED
    BY <1>4, <1>5, <1>6 DEF FollowInv

\* The line in hand reaches the next subscriber.
LEMMA SendFollows ==
    ASSUME LogTypeOK, InHand, FollowInv, SendLine
    PROVE  FollowInv'
  <1> DEFINE d == Head(serving)
             x == Head(todo)
             m == Len(appended)
  <1>0. /\ step = "send" /\ serving # << >> /\ serving' = Tail(serving)
        /\ UNCHANGED << todo, step, appended, subs, phase, got, out, live >>
        /\ \/ phase[d] = "dead" /\ UNCHANGED chan
           \/ phase[d] # "dead" /\ chan' = [chan EXCEPT ![d] = Append(@, x)]
    BY DEF SendLine
  <1>1. /\ chan \in [Followers -> Seq(Nat)] /\ out \in [Followers -> Seq(Nat)]
        /\ got \in [Followers -> Seq(Nat)] /\ live \in [Followers -> Nat]
        /\ appended \in Seq(Nat) /\ serving \in Seq(Followers)
    BY FollowFacts
  <1>2. todo # << >> /\ todo \in Seq(Nat)
    BY <1>0, FollowFacts DEF InHand
  <1>3. x \in Nat /\ m \in Nat /\ m > 0 /\ x = appended[m]
    <2>1. appended # << >> /\ x = appended[m]
      BY <1>0 DEF FollowInv, HandInv
    <2>2. m \in Nat /\ m > 0
      BY <1>1, <2>1
    <2>3. x \in Nat
      BY <1>2, HeadAndTail
    <2> QED
      BY <2>1, <2>2, <2>3
  <1>4. /\ Distinct(serving') /\ Lines(serving') = Lines(serving) \ {d}
        /\ d \in Lines(serving) /\ d \in Followers
    <2>1. Distinct(serving)
      BY DEF FollowInv, ServingInv
    <2>2. d \in Followers
      BY <1>0, <1>1
    <2> QED
      BY <1>0, <1>1, <2>1, <2>2, LinesTail
  <1> HIDE DEF d, x, m
  <1>5. ServingInv'
    BY <1>0, <1>4 DEF FollowInv, ServingInv
  <1>6. HandInv'
    BY Zenon, <1>0 DEF FollowInv, HandInv
  <1>7. ASSUME NEW c \in Followers, phase'[c] = "open" PROVE \E a, n \in Nat : Has(c, a, n)'
    <2>1. PICK a, n \in Nat : Has(c, a, n)
      BY <1>0, <1>7 DEF FollowInv
    <2>2. CASE c # d
      <3>1. chan'[c] = chan[c]
        BY <1>0, <1>1, <1>4, <2>2
      <3>2. AllLines(c)' = AllLines(c)
        BY Zenon, <1>0, <3>1, AllLinesStay
      <3>3. Owed(c)' = Owed(c)
        BY <1>0, <1>4, <2>2 DEF Owed
      <3>4. Has(c, a, n)'
        BY <1>0, <2>1, <3>2, <3>3, HasStays
      <3> QED
        BY <3>4
    <2>3. CASE c = d
      <3> DEFINE all == AllLines(c)
                 l == live[c]
      <3>1. chan'[c] = Append(chan[c], x)
        BY <1>0, <1>1, <1>4, <1>7, <2>3
      <3>2. all' = Append(all, x)
        <4>1. got[c] \o out[c] \in Seq(Nat) /\ chan[c] \in Seq(Nat)
          BY Zenon, <1>1, Joined
        <4>2. (got[c] \o out[c]) \o Append(chan[c], x) = Append((got[c] \o out[c]) \o chan[c], x)
          BY Zenon, <1>3, <4>1, JoinedAppend
        <4> QED
          BY Zenon, <1>0, <3>1, <4>2 DEF AllLines
      <3>3. Owed(c) = 1 /\ Owed(c)' = 0 /\ c \in Lines(subs)
        BY <1>0, <1>4, <2>3 DEF Owed, FollowInv, ServingInv
      <3>4. /\ Len(all) = l + n
            /\ a + n <= m
            /\ \A i \in 1 .. n : all[l + i] = appended[a + i]
            /\ n > 0 => a + n + 1 = m
        BY Zenon, <2>1, <3>3 DEF Has, m
      <3>5. l \in Nat /\ all \in Seq(Nat)
        BY <1>1, AllLinesTyped
      <3> HIDE DEF all, l
      <3>6. /\ Len(all') = (l + n) + 1 /\ all'[(l + n) + 1] = x
            /\ \A i \in 1 .. l + n : all'[i] = all[i]
        <4>1. /\ Len(Append(all, x)) = Len(all) + 1 /\ Append(all, x)[Len(all) + 1] = x
              /\ \A i \in 1 .. Len(all) : Append(all, x)[i] = all[i]
          BY Zenon, <1>3, <3>5, Appended
        <4>2. Len(all) = l + n
          BY Zenon, <3>4
        <4> QED
          BY Zenon, <3>2, <4>1, <4>2
      <3>7. \E b \in Nat :
              /\ b + (n + 1) = m
              /\ \A i \in 1 .. n : all[l + i] = appended[b + i]
        <4>1. CASE n > 0
          <5>1. a + (n + 1) = m
            BY <3>4, <4>1
          <5> QED
            BY <3>4, <5>1
        <4>2. CASE n = 0
          <5>1. m - 1 \in Nat /\ (m - 1) + (n + 1) = m /\ 1 .. n = {}
            BY <1>3, <4>2
          <5> QED
            BY <5>1
        <4>3. n > 0 \/ n = 0
          OBVIOUS
        <4> QED
          BY Zenon, <4>1, <4>2, <4>3
      <3>8. PICK b \in Nat :
              /\ b + (n + 1) = m
              /\ \A i \in 1 .. n : all[l + i] = appended[b + i]
        BY <3>7
      <3>9. ASSUME NEW i \in 1 .. n + 1 PROVE all'[l + i] = appended[b + i]
        <4>1. CASE i = n + 1
          <5>1. l + i = (l + n) + 1 /\ b + i = m
            BY <3>5, <3>8, <4>1
          <5> QED
            BY <1>3, <3>6, <5>1
        <4>2. CASE i # n + 1
          <5>1. i \in 1 .. n /\ l + i \in 1 .. l + n
            BY <3>5, <4>2
          <5> QED
            BY <3>6, <3>8, <5>1
        <4> QED
          BY <4>1, <4>2
      <3>10. n + 1 \in Nat /\ (l + n) + 1 = l + (n + 1) /\ b + (n + 1) <= m /\ b + (n + 1) + 0 = m
        BY <1>3, <3>5, <3>8
      <3>11. live'[c] = l /\ appended' = appended /\ m = Len(appended)
        BY Zenon, <1>0 DEF l, m
      <3>12. Has(c, b, n + 1)'
        BY Zenon, <3>3, <3>6, <3>9, <3>10, <3>11 DEF Has, all
      <3> QED
        BY <3>10, <3>12
    <2> QED
      BY <2>2, <2>3
  <1> QED
    BY <1>5, <1>6, <1>7 DEF FollowInv

\* The other steps of the server.
LEMMA ServerFollows ==
    ASSUME LogTypeOK, InHand, FollowInv, ServerLogStep
    PROVE  FollowInv'
  <1>1. CASE ReadBatch
    <2>1. step = "buffer" /\ UNCHANGED << step, serving, appended, subs, phase, got, out, chan, live >>
      BY <1>1 DEF ReadBatch, StreamIdle, InHand, followers
    <2>2. ServingInv' /\ HandInv'
      BY Zenon, <2>1 DEF FollowInv, ServingInv, HandInv
    <2>3. ASSUME NEW c \in Followers, phase'[c] = "open" PROVE \E a, n \in Nat : Has(c, a, n)'
      <3>1. PICK a, n \in Nat : Has(c, a, n)
        BY <2>1, <2>3 DEF FollowInv
      <3>2. AllLines(c)' = AllLines(c) /\ Owed(c)' = Owed(c)
        BY Zenon, <2>1 DEF AllLines, Owed
      <3>3. Has(c, a, n)'
        BY <2>1, <3>1, <3>2, HasStays
      <3> QED
        BY <3>3
    <2> QED
      BY <2>2, <2>3 DEF FollowInv
  <1>2. CASE LookUpSubscribers
    <2>1. /\ step = "look" /\ step' = "send" /\ serving' = subs
          /\ UNCHANGED << todo, appended, subs, phase, got, out, chan, live >>
      BY <1>2 DEF LookUpSubscribers, followers
    <2>2. ServingInv' /\ HandInv'
      BY <2>1 DEF FollowInv, ServingInv, HandInv
    <2>3. ASSUME NEW c \in Followers, phase'[c] = "open" PROVE \E a, n \in Nat : Has(c, a, n)'
      <3>1. PICK a, n \in Nat : Has(c, a, n)
        BY <2>1, <2>3 DEF FollowInv
      <3>2. AllLines(c)' = AllLines(c)
        BY Zenon, <2>1 DEF AllLines
      <3>3. c \in Lines(subs) => Owed(c)' = Owed(c)
        BY <2>1 DEF Owed
      <3>4. Has(c, a, n)'
        BY <2>1, <3>1, <3>2, <3>3, HasStays
      <3> QED
        BY <3>4
    <2> QED
      BY <2>2, <2>3 DEF FollowInv
  <1>3. CASE LineDone
    <2>1. /\ step = "send" /\ step' = "buffer" /\ serving = << >>
          /\ UNCHANGED << serving, appended, subs, phase, got, out, chan, live >>
      BY <1>3 DEF LineDone, followers
    <2>2. ServingInv' /\ HandInv'
      BY <2>1 DEF FollowInv, ServingInv, HandInv
    <2>3. ASSUME NEW c \in Followers, phase'[c] = "open" PROVE \E a, n \in Nat : Has(c, a, n)'
      <3>1. PICK a, n \in Nat : Has(c, a, n)
        BY <2>1, <2>3 DEF FollowInv
      <3>2. AllLines(c)' = AllLines(c)
        BY Zenon, <2>1 DEF AllLines
      <3>3. Owed(c)' = Owed(c)
        BY <2>1 DEF Owed
      <3>4. Has(c, a, n)'
        BY <2>1, <3>1, <3>2, <3>3, HasStays
      <3> QED
        BY <3>4
    <2> QED
      BY <2>2, <2>3 DEF FollowInv
  <1>4. CASE ReadResult \/ RemoveLogs
    <2>1. UNCHANGED << ingest, subs, followers >>
      BY <1>4 DEF ReadResult, RemoveLogs
    <2>2. UNCHANGED << todo, step, serving, appended, subs, phase, got, out, chan, live >>
      BY Zenon, <2>1 DEF ingest, followers
    <2> QED
      BY <2>2, FollowSame
  <1>5. CASE RemoveSubscribers
    <2>1. /\ step # "send" /\ subs' = << >>
          /\ UNCHANGED << todo, step, serving, appended, phase, got, out, chan, live >>
      BY <1>5 DEF RemoveSubscribers, SubscribersFree, ingest, followers
    <2>2. Lines(subs') = {} /\ Distinct(subs')
      BY <2>1, NoLines
    <2>3. ServingInv' /\ HandInv'
      BY <2>1, <2>2, NoLines DEF FollowInv, ServingInv, HandInv
    <2>4. ASSUME NEW c \in Followers, phase'[c] = "open" PROVE \E a, n \in Nat : Has(c, a, n)'
      <3>1. PICK a, n \in Nat : Has(c, a, n)
        BY <2>1, <2>4 DEF FollowInv
      <3>2. AllLines(c)' = AllLines(c)
        BY Zenon, <2>1 DEF AllLines
      <3>3. Has(c, a, n)'
        BY <2>1, <2>2, <3>1, <3>2, HasStays
      <3> QED
        BY <3>3
    <2> QED
      BY <2>3, <2>4 DEF FollowInv
  <1> QED
    BY <1>1, <1>2, <1>3, <1>4, <1>5, AppendFollows, SendFollows DEF ServerLogStep

\* Every step keeps the followers' lines together.
LEMMA FollowMoves == ASSUME LogTypeOK, InHand, FollowInv, [LogNext]_logVars PROVE FollowInv'
  <1>1. ASSUME UNCHANGED << ingest, subs, followers >> PROVE FollowInv'
    <2>1. UNCHANGED << todo, step, serving, appended, subs, phase, got, out, chan, live >>
      BY Zenon, <1>1 DEF ingest, followers
    <2> QED
      BY <2>1, FollowSame
  <1>2. CASE \/ WriteLine \/ FlushTick \/ FlushSends \/ FlushFails \/ OutputEnds \/ FinalFlush
             \/ JobTimesOut \/ Report \/ StreamBreaks
    <2>1. UNCHANGED << ingest, subs, followers >>
      BY <1>2 DEF WriteLine, FlushTick, FlushSends, FlushFails, OutputEnds, FinalFlush, JobTimesOut,
                  Report, StreamBreaks
    <2> QED
      BY <1>1, <2>1
  <1>3. CASE UNCHANGED logVars
    BY <1>1, <1>3 DEF logVars
  <1> QED
    BY Zenon, <1>2, <1>3, ServerFollows, SubscriptionFollows DEF LogNext

LEMMA FollowStarts == LogInit => FollowInv
  <1> SUFFICES ASSUME LogInit PROVE FollowInv
    OBVIOUS
  <1>1. \A c \in Followers : phase[c] = "none" /\ got[c] = << >>
    BY DEF LogInit
  <1>2. ServingInv
    BY <1>1, NoLines DEF LogInit, ServingInv
  <1>3. HandInv
    BY DEF LogInit, HandInv
  <1> QED
    BY <1>1, <1>2, <1>3 DEF FollowInv

\* For any followers, however slow, and any capacities: from the moment it is registered
\* a follower that stays is sent consecutive lines of the log, each once, up to the line
\* that is in hand, whoever else is registered, leaves or dies meanwhile.
THEOREM NoFollowerMisses == LogSpec => []FollowersMissNothing
  <1>1. LogTypeOK /\ InHand /\ FollowInv => FollowersMissNothing
    <2> SUFFICES ASSUME LogTypeOK, FollowInv, NEW c \in Followers, phase[c] = "open"
                 PROVE  LET all == got[c] \o out[c] \o chan[c]
                            since == SubSeq(all, live[c] + 1, Len(all))
                            n == Len(since)
                            behind == c \in Lines(serving) \/ step = "look"
                        IN  \E k \in 0 .. Len(appended) :
                              /\ k + n <= Len(appended)
                              /\ since = SubSeq(appended, k + 1, k + n)
                              /\ c \in Lines(subs) /\ n > 0 =>
                                    k + n >= Len(appended) - (IF behind THEN 1 ELSE 0)
      BY DEF FollowersMissNothing
    <2> DEFINE all == AllLines(c)
               l == live[c]
               m == Len(appended)
    <2>1. PICK a, n \in Nat : Has(c, a, n)
      BY DEF FollowInv
    <2>2. l \in Nat /\ all \in Seq(Nat) /\ m \in Nat /\ appended \in Seq(Nat)
      BY FollowFacts, AllLinesTyped
    <2>3. /\ Len(all) = l + n /\ a + n <= m
          /\ \A i \in 1 .. n : all[l + i] = appended[a + i]
          /\ c \in Lines(subs) /\ n > 0 => a + n + Owed(c) = m
      BY Zenon, <2>1 DEF Has
    <2> HIDE DEF all, l
    <2> DEFINE since == SubSeq(all, l + 1, Len(all))
               part == SubSeq(appended, a + 1, a + n)
    <2>4. since \in Seq(Nat) /\ Len(since) = n /\ \A i \in 1 .. n : since[i] = all[l + i]
      <3>1. l + n <= Len(all)
        BY <2>2, <2>3
      <3>2. since = SubSeq(all, l + 1, l + n)
        BY <2>3
      <3> HIDE DEF since
      <3> QED
        BY Zenon, <2>2, <3>1, <3>2, PartOf
    <2>5. part \in Seq(Nat) /\ Len(part) = n /\ \A i \in 1 .. n : part[i] = appended[a + i]
      BY Zenon, <2>2, <2>3, PartOf
    <2> HIDE DEF since, part
    <2>6. since = part
      BY <2>3, <2>4, <2>5, SameSequence
    <2>7. /\ a \in 0 .. m /\ a + n <= m
          /\ c \in Lines(subs) /\ n > 0 =>
                a + n >= m - (IF c \in Lines(serving) \/ step = "look" THEN 1 ELSE 0)
      BY <2>2, <2>3 DEF Owed
    <2>8. /\ a + Len(since) <= m /\ since = SubSeq(appended, a + 1, a + Len(since))
          /\ c \in Lines(subs) /\ Len(since) > 0 =>
                a + Len(since) >= m - (IF c \in Lines(serving) \/ step = "look" THEN 1 ELSE 0)
      BY Zenon, <2>4, <2>6, <2>7 DEF part
    <2> QED
      BY Zenon, <2>7, <2>8 DEF since, all, l, AllLines
  <1>2. LogTypeOK /\ InHand /\ FollowInv /\ [LogNext]_logVars => LogTypeOK' /\ InHand' /\ FollowInv'
    BY FollowMoves, TypesMove, TypesStay
  <1> QED
    BY <1>1, <1>2, TypesStart, FollowStarts, PTL DEF LogSpec
=============================================================================
