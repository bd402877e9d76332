-------------------------- MODULE TalkProtocol_proof --------------------------
(***************************************************************************)
(* Proofs about TalkProtocol for any devices, queue and times: its types,  *)
(* that something always ends a call that is up, and that a call keeps its *)
(* peer.                                                                   *)
(***************************************************************************)
EXTENDS TalkProtocol, TLAPS

USE TalkAssumption DEF TalkAssumption

-----------------------------------------------------------------------------
(* The table                                                               *)

\* What the rows set, by the state they lead to.
LEMMA TableTypes ==
  ASSUME NEW row \in stm_video_state_bz
  PROVE  row.next \in States /\ row.run \in Runs /\ row.cur \in States
BY DEF stm_video_state_bz, Row, Stay, Ends, States, Runs, Fails

\* The handlers of the rows that lead to a state.
RunsTo ==
  [s \in States |->
     CASE s = "ST_IDLE" -> Runs
       [] s = "ST_SHAKEHANDS" -> {"DO_SHAKEHANDS"}
       [] s = "ST_SHAKEHANDS_ASW" -> {"DO_SHAKEHANDS_ASW", "DO_JUDGE_TYPE"}
       [] s = "ST_JUDGE_TYPE" -> {"DO_JUDGE_TYPE", "DO_SHAKEHANDS_ASW"}
       [] s = "ST_RING" -> {"DO_RING", "DO_SHAKEHANDS_ASW", "DO_RET_FAIL"}
       [] s = "ST_DIAL" -> {"DO_DIAL", "DO_SHAKEHANDS_ASW", "DO_RET_FAIL"}
       [] s = "ST_CALL" -> {"DO_CALL", "DO_SHAKEHANDS_ASW", "DO_RET_FAIL"}
       [] s = "ST_TALK" -> {"DO_TALK", "DO_TALK_EX", "DO_SHAKEHANDS_ASW", "DO_RET_FAIL"}]

LEMMA TableRuns ==
  ASSUME NEW row \in stm_video_state_bz
  PROVE  row.run \in RunsTo[row.next]
BY DEF stm_video_state_bz, Row, Stay, Ends, States, Runs, Fails, RunsTo

\* A row that does not end a call starts a count or posts the caller's type,
\* but for the rows that refuse a caller or do nothing: those stay, or come
\* from a state where time_call runs.
LEMMA TableCounts ==
  ASSUME NEW row \in stm_video_state_bz, row.next # "ST_IDLE"
  PROVE  \/ row.run = "DO_SHAKEHANDS" /\ row.next = "ST_SHAKEHANDS"
         \/ row.run = "DO_SHAKEHANDS_ASW" /\ row.next = "ST_SHAKEHANDS_ASW"
         \/ row.run = "DO_SHAKEHANDS_ASW" /\ row.next = row.cur
              /\ row.ev = "EVENT_SHAKEHANDS_ASW"
         \/ row.run = "DO_JUDGE_TYPE" /\ row.next \in {"ST_SHAKEHANDS_ASW", "ST_JUDGE_TYPE"}
         \/ row.run = "DO_DIAL" /\ row.next = "ST_DIAL"
         \/ row.run \in {"DO_CALL", "DO_RING", "DO_TALK"}
         \/ row.run = "DO_RET_FAIL" /\ row.next = row.cur /\ row.ev = "EVENT_RING"
         \/ row.run = "DO_TALK_EX" /\ row.next = "ST_TALK" /\ row.cur = "ST_RING"
              /\ row.ev = "EVENT_TALK_EX"
BY DEF stm_video_state_bz, Row, Stay, Ends, States

\* The rows that go on with a call that is up.
LEMMA TablePeer ==
  ASSUME NEW row \in stm_video_state_bz, row.cur \in {"ST_CALL", "ST_TALK"},
         row.next # "ST_IDLE"
  PROVE  row.run \in {"DO_TALK", "DO_SHAKEHANDS_ASW", "DO_RET_FAIL"}
BY DEF stm_video_state_bz, Row, Stay, Ends, States

\* An event that ends a call finds its row, but for one.
LEMMA TableEnds ==
  ASSUME NEW s \in States, s # "ST_IDLE", NEW ev \in EndEvents[s],
         ~(s = "ST_SHAKEHANDS_ASW" /\ ev = "EVENT_FAIL_COMM")
  PROVE  \E row \in stm_video_state_bz : row.ev = ev /\ row.cur = s
<1>1. CASE ev = "EVENT_HANGUP"
  <2>1. Row("EVENT_HANGUP", s, "ST_IDLE", "DO_HANGUP") \in stm_video_state_bz
    BY DEF stm_video_state_bz, Ends
  <2> QED BY <1>1, <2>1 DEF Row
<1>2. CASE ev = "EVENT_FAIL_COMM"
  <2>1. s \in {"ST_DIAL", "ST_SHAKEHANDS"}
    BY <1>2 DEF EndEvents, States
  <2>2. Row("EVENT_FAIL_COMM", s, "ST_IDLE", "DO_FAIL_COMM") \in stm_video_state_bz
    BY <2>1 DEF stm_video_state_bz, Ends
  <2> QED BY <1>2, <2>2 DEF Row
<1>3. CASE ev = "EVENT_FAIL_SHAKE"
  <2>1. s \in {"ST_SHAKEHANDS", "ST_SHAKEHANDS_ASW"}
    BY <1>3 DEF EndEvents, States
  <2>2. Row("EVENT_FAIL_SHAKE", s, "ST_IDLE", "DO_FAIL_SHAKE") \in stm_video_state_bz
    BY <2>1 DEF stm_video_state_bz, Ends
  <2> QED BY <1>3, <2>2 DEF Row
<1>4. CASE ev = "EVENT_TYPE_HM"
  <2>1. s \in {"ST_JUDGE_TYPE", "ST_SHAKEHANDS_ASW"}
    BY <1>4 DEF EndEvents, States
  <2>2. /\ Row("EVENT_TYPE_HM", "ST_JUDGE_TYPE", "ST_IDLE", "DO_NO") \in stm_video_state_bz
        /\ Row("EVENT_TYPE_HM", "ST_SHAKEHANDS_ASW", "ST_RING", "DO_RING") \in stm_video_state_bz
    BY DEF stm_video_state_bz
  <2> QED BY <1>4, <2>1, <2>2 DEF Row
<1>5. ev \in {"EVENT_HANGUP", "EVENT_FAIL_COMM", "EVENT_FAIL_SHAKE", "EVENT_TYPE_HM"}
  BY DEF EndEvents
<1> QED BY <1>1, <1>2, <1>3, <1>4, <1>5

-----------------------------------------------------------------------------
(* Types                                                                   *)

Privs == [time_call : Nat \cup {-1}, time_comm : Nat, time_shake : Nat,
          cPeerIP : Addresses, PeerPort : BOOLEAN]

QueueType == /\ queue \in [Devices -> Seq(Messages)]
             /\ \A d \in Devices : Len(queue[d]) <= QueueSize
SendType  == /\ sending \in [Devices -> 0 .. MaxSending]
             /\ sent \subseteq [from : Devices, to : Peers, cmd : Commands]
PrivType  == priv \in [Devices -> Privs]
StateType == cur_state \in [Devices -> States] /\ status_run \in [Devices -> Runs]
TimerType == timer \in [Devices -> [pc : {"test", "count"}, tested : Nat \cup {-1}]]

LEMMA SplitTypes ==
  ValueTypes <=> QueueType /\ SendType /\ PrivType /\ StateType /\ TimerType
BY DEF ValueTypes, QueueType, SendType, PrivType, StateType, TimerType, Privs

\* A queue that is written is a queue, with its bound.
LEMMA QueuePosted ==
  ASSUME QueueType, overflowed \in [Devices -> BOOLEAN],
         NEW d \in Devices, NEW q \in Seq(Messages), Len(q) <= QueueSize,
         NEW m \in Messages, PostTo(d, q, m)
  PROVE  QueueType' /\ overflowed' \in [Devices -> BOOLEAN]
<1>1. overflowed' \in [Devices -> BOOLEAN]
  BY DEF PostTo
<1> DEFINE n == IF Len(q) < QueueSize THEN Append(q, m) ELSE q
<1>2. n \in Seq(Messages) /\ Len(n) <= QueueSize
  BY DEF PostTo
<1>3. queue' = [queue EXCEPT ![d] = n]
  BY DEF PostTo
<1> HIDE DEF n
<1> QED BY <1>1, <1>2, <1>3 DEF QueueType

LEMMA QueueTaken ==
  ASSUME QueueType, overflowed \in [Devices -> BOOLEAN],
         NEW d \in Devices, NEW q \in Seq(Messages), Len(q) <= QueueSize, TakenFrom(d, q)
  PROVE  QueueType' /\ overflowed' \in [Devices -> BOOLEAN]
BY DEF QueueType, TakenFrom

LEMMA QueueRest ==
  ASSUME QueueType, NEW d \in Devices, queue[d] # <<>>
  PROVE  /\ Head(queue[d]) \in Messages
         /\ Tail(queue[d]) \in Seq(Messages)
         /\ Len(Tail(queue[d])) <= QueueSize
         /\ Len(Tail(queue[d])) = Len(queue[d]) - 1
         /\ \A i \in 1 .. Len(queue[d]) - 1 : Tail(queue[d])[i] = queue[d][i + 1]
         /\ Len(queue[d]) > 0
         /\ Head(queue[d]) = queue[d][1]
BY DEF QueueType

LEMMA MessageType ==
  ASSUME NEW ev \in Events, NEW ip \in Addresses, NEW flag \in 0 .. 16
  PROVE  Msg(ev, ip, flag) \in Messages
BY DEF Msg, Messages

LEMMA NumberType == Events = {"EVENT_SHAKEHANDS", "EVENT_SHAKEHANDS_ASW", "EVENT_TYPE_HM",
                              "EVENT_DIAL", "EVENT_CALL", "EVENT_TALK", "EVENT_TALK_EX",
                              "EVENT_RING", "EVENT_FAIL_COMM", "EVENT_FAIL_SHAKE",
                              "EVENT_FAIL_BUSY", "EVENT_HANGUP"}
                    /\ \A ev \in Events : Number[ev] \in 0 .. 16
BY DEF Events, Number

LEMMA PacketType ==
  ASSUME NEW d \in Devices, NEW ip, NEW cmd \in Commands
  PROVE  Packet(d, ip, cmd) \subseteq [from : Devices, to : Peers, cmd : Commands]
BY DEF Packet

\* A handler keeps the types, leaves the other devices alone, and stores no
\* count below zero.
LEMMA HandleTypes ==
  ASSUME QueueType, SendType, PrivType, overflowed \in [Devices -> BOOLEAN],
         NEW d \in Devices, NEW run \in Runs,
         NEW m \in Messages, NEW q \in Seq(Messages), Len(q) <= QueueSize,
         Handle(d, run, m, q)
  PROVE  /\ QueueType' /\ SendType' /\ PrivType' /\ overflowed' \in [Devices -> BOOLEAN]
         /\ \A e \in Devices : priv'[e].time_call = -1 => priv[e].time_call = -1
<1> USE DEF Assign, SetCounts, Priv, Privs, PrivType
<1>1. m.ip \in Addresses /\ m.ev \in Events /\ m.flag \in 0 .. 16 /\ Nobody \in Addresses
  BY DEF Messages, Addresses
<1>2. ASSUME TakenFrom(d, q) \/ \E n \in Messages : PostTo(d, q, n)
      PROVE  QueueType' /\ overflowed' \in [Devices -> BOOLEAN]
  BY <1>2, QueuePosted, QueueTaken
<1>3. ASSUME \/ SendNothing
             \/ \E ip \in Addresses, cmd \in Commands : Send(d, ip, cmd)
             \/ \E ip \in Addresses, cmd \in Commands : SendWithCallback(d, ip, cmd)
      PROVE  SendType'
  <2>1. CASE SendNothing
    BY <2>1 DEF SendNothing, SendType
  <2>2. ASSUME NEW ip \in Addresses, NEW cmd \in Commands, Send(d, ip, cmd)
        PROVE  SendType'
    BY <2>2, PacketType DEF Send, SendType
  <2>3. ASSUME NEW ip \in Addresses, NEW cmd \in Commands, SendWithCallback(d, ip, cmd)
        PROVE  SendType'
    BY <2>3, PacketType, SMTT(40) DEF SendWithCallback, SendType
  <2> QED BY <1>3, <2>1, <2>2, <2>3
<1> DEFINE Kept == PrivType' /\ \A e \in Devices : priv'[e].time_call = -1 => priv[e].time_call = -1
<1>4. {"CMD_SHAKEHANDS", "CMD_SHAKEHANDS_ASW", "CMD_CALL", "CMD_TALK", "CMD_OVER",
       "ASW_OK", "ASW_FAIL"} \subseteq Commands
  BY DEF Commands
<1> USE DEF Commands
<1>5. CASE DoNothing(d, q)
  BY <1>2, <1>3, <1>5 DEF DoNothing
<1>6. CASE ShakeHands(d, m, q)
  BY <1>1, <1>2, <1>3, <1>6 DEF ShakeHands
<1>7. CASE ShakeHandsRet(d, m, q)
  BY <1>1, <1>2, <1>3, <1>7 DEF ShakeHandsRet
<1>8. CASE JudgeType(d, m, q)
  <2>1. Msg("EVENT_TYPE_HM", m.ip, m.flag) \in Messages
    BY <1>1, MessageType, NumberType
  <2> QED BY <1>2, <1>3, <1>8, <2>1 DEF JudgeType
<1>9. CASE CallIP(d, m, q)
  BY <1>1, <1>2, <1>3, <1>9 DEF CallIP
<1>10. CASE RetCall(d, q)
  BY <1>1, <1>2, <1>3, <1>10 DEF RetCall
<1>11. CASE StmAnswer(d, q)
  <2>1. priv[d].cPeerIP \in Addresses
    OBVIOUS
  <2> QED BY <1>1, <1>2, <1>3, <1>11, <2>1 DEF StmAnswer
<1>12. CASE Ring(d, m, q)
  BY <1>1, <1>2, <1>3, <1>12 DEF Ring
<1>13. ASSUME NEW flag \in 0 .. 16, StmOver(d, flag, q)
       PROVE  QueueType' /\ SendType' /\ Kept /\ overflowed' \in [Devices -> BOOLEAN]
  <2>1. PeerOf(d) \in Addresses
    BY <1>1 DEF PeerOf
  <2> QED BY <1>1, <1>2, <1>3, <1>13, <2>1 DEF StmOver
<1>14. CASE RetFail(d, m, q)
  BY <1>1, <1>2, <1>3, <1>14 DEF RetFail
<1>15. CASE Fail(d, m, q)
  <2>1. CASE m.flag = 3
    <3>1. StmOver(d, 1, q) /\ 1 \in 0 .. 16
      BY <1>15, <2>1 DEF Fail
    <3> QED BY <1>13, <3>1
  <2>2. CASE m.flag # 3
    BY <1>5, <1>15, <2>2 DEF Fail
  <2> QED BY <2>1, <2>2
<1> QED BY <1>1, <1>5, <1>6, <1>7, <1>8, <1>9, <1>10, <1>11, <1>12, <1>13, <1>14, <1>15 DEF Handle

LEMMA TypeInit == Init => TypeOK
<1> SUFFICES ASSUME Init PROVE TypeOK
  OBVIOUS
<1>1. ValueTypes
  BY DEF Init, ValueTypes, Priv, States, Runs, Addresses
<1>2. FlagTypes
  BY DEF Init, FlagTypes
<1>3. \A d \in Devices : priv[d].time_call = 0
  BY DEF Init, Priv
<1> QED BY <1>1, <1>2, <1>3 DEF TypeOK

NoCount == \A e \in Devices : priv[e].time_call = -1 => raced[e]

\* The steps of the machine's thread.
LEMMA MachineTypes ==
  ASSUME TypeOK, NEW d \in Devices, StmThread(d)
  PROVE  TypeOK'
<1> DEFINE m == Head(queue[d])
           q == Tail(queue[d])
<1>0. /\ QueueType /\ SendType /\ PrivType /\ StateType /\ TimerType
      /\ FlagTypes /\ overflowed \in [Devices -> BOOLEAN] /\ NoCount
  BY SplitTypes DEF TypeOK, FlagTypes, NoCount
<1>1. queue[d] # <<>>
  BY DEF StmThread, ExecEntry, NoEntry
<1>2. m \in Messages /\ q \in Seq(Messages) /\ Len(q) <= QueueSize
  BY <1>0, <1>1, QueueRest
<1>3. ASSUME NEW run \in Runs, NEW n \in Messages, Handle(d, run, n, q),
             StateType', UNCHANGED <<timer, raced>>, busy' \in [Devices -> BOOLEAN]
      PROVE  TypeOK'
  <2> HIDE DEF m, q
  <2>1. /\ QueueType' /\ SendType' /\ PrivType' /\ overflowed' \in [Devices -> BOOLEAN]
        /\ \A e \in Devices : priv'[e].time_call = -1 => priv[e].time_call = -1
    BY <1>0, <1>2, <1>3, HandleTypes
  <2>2. TimerType'
    BY <1>0, <1>3 DEF TimerType
  <2>3. FlagTypes'
    BY <1>0, <1>3, <2>1 DEF FlagTypes
  <2>4. NoCount'
    BY <1>0, <1>3, <2>1 DEF NoCount
  <2>5. ValueTypes'
    BY <1>3, <2>1, <2>2 DEF ValueTypes, QueueType, SendType, PrivType, StateType, TimerType,
                            Privs
  <2> QED BY <2>3, <2>4, <2>5 DEF TypeOK, NoCount
<1>4. CASE ExecEntry(d)
  <2>1. PICK row \in stm_video_state_bz :
          /\ cur_state' = [cur_state EXCEPT ![d] = row.next]
          /\ status_run' = [status_run EXCEPT ![d] = row.run]
          /\ busy' = [busy EXCEPT ![d] = @ /\ row.next # "ST_IDLE"]
          /\ Handle(d, row.run, m, q)
    BY <1>4 DEF ExecEntry
  <2>2. row.next \in States /\ row.run \in Runs
    BY TableTypes
  <2>3. StateType'
    BY <1>0, <2>1, <2>2 DEF StateType
  <2>4. busy' \in [Devices -> BOOLEAN]
    BY <1>0, <2>1 DEF FlagTypes
  <2>5. UNCHANGED <<timer, raced>>
    BY <1>4 DEF ExecEntry
  <2> HIDE DEF m, q
  <2> QED BY <1>2, <1>3, <2>1, <2>2, <2>3, <2>4, <2>5
<1>5. CASE NoEntry(d)
  <2> DEFINE n == Msg(m.ev, Nobody, Number[m.ev])
  <2>1. /\ Handle(d, status_run[d], n, q)
        /\ UNCHANGED <<cur_state, status_run, timer, busy, raced>>
    BY <1>5 DEF NoEntry
  <2>2. n \in Messages
    <3>1. m.ev \in Events /\ Nobody \in Addresses
      BY <1>2 DEF Messages, Addresses
    <3> QED BY <3>1, MessageType, NumberType
  <2>3. StateType' /\ status_run[d] \in Runs
    BY <1>0, <2>1 DEF StateType
  <2>4. busy' \in [Devices -> BOOLEAN]
    BY <1>0, <2>1 DEF FlagTypes
  <2> HIDE DEF m, q, n
  <2> QED BY <1>3, <2>1, <2>2, <2>3, <2>4
<1> QED BY <1>4, <1>5 DEF StmThread

\* A step that posts or not, and handles nothing.
LEMMA OutsideTypes ==
  ASSUME TypeOK, NEW d \in Devices,
         TakenFrom(d, queue[d]) \/ (\E n \in Messages : PostTo(d, queue[d], n))
           \/ UNCHANGED <<queue, overflowed>>,
         PrivType', TimerType', SendType', StateType', NoCount',
         busy' \in [Devices -> BOOLEAN], raced' \in [Devices -> BOOLEAN]
  PROVE  TypeOK'
<1>1. /\ QueueType /\ overflowed \in [Devices -> BOOLEAN]
      /\ queue[d] \in Seq(Messages) /\ Len(queue[d]) <= QueueSize
  BY DEF TypeOK, ValueTypes, FlagTypes, QueueType
<1>2. QueueType' /\ overflowed' \in [Devices -> BOOLEAN]
  <2>1. CASE UNCHANGED <<queue, overflowed>>
    BY <1>1, <2>1 DEF QueueType
  <2> QED BY <1>1, <2>1, QueuePosted, QueueTaken
<1>3. ValueTypes'
  BY <1>2 DEF ValueTypes, QueueType, SendType, PrivType, StateType, TimerType, Privs
<1>4. FlagTypes'
  BY <1>2 DEF FlagTypes
<1> QED BY <1>3, <1>4 DEF TypeOK, NoCount

LEMMA TimerTypes ==
  ASSUME TypeOK, NEW d \in Devices, Timer(d)
  PROVE  TypeOK'
<1> USE DEF Assign, SetCounts, Priv, Privs, PrivType, TimerType
<1>0. /\ QueueType /\ SendType /\ PrivType /\ StateType /\ TimerType
      /\ FlagTypes /\ NoCount
  BY SplitTypes DEF TypeOK, NoCount
<1>1. StateType' /\ SendType' /\ busy' \in [Devices -> BOOLEAN]
  BY <1>0 DEF Timer, TimerTest, TimerCount, TimerComm, TimerShake, Outside, StateType,
              SendType, FlagTypes
<1>2. /\ Msg("EVENT_HANGUP", Nobody, 1) \in Messages
      /\ Msg("EVENT_FAIL_COMM", Nobody, 0) \in Messages
      /\ Msg("EVENT_FAIL_SHAKE", Nobody, 1) \in Messages
  BY NumberType, MessageType DEF Addresses
<1>3. TakenFrom(d, queue[d]) \/ (\E n \in Messages : PostTo(d, queue[d], n))
        \/ UNCHANGED <<queue, overflowed>>
  BY <1>2 DEF Timer, TimerTest, TimerCount, TimerComm, TimerShake
<1>4. CASE TimerTest(d)
  <2>1. PrivType' /\ TimerType' /\ NoCount'
    BY <1>0, <1>4 DEF TimerTest, NoCount
  <2>2. raced' \in [Devices -> BOOLEAN]
    BY <1>0, <1>4 DEF TimerTest, FlagTypes
  <2> QED BY <1>1, <1>3, <2>1, <2>2, OutsideTypes
<1>5. CASE TimerCount(d)
  <2>0. timer[d].tested \in Nat \cup {-1} /\ priv[d].time_call \in Nat \cup {-1}
    BY <1>0
  <2>1. PICK n \in Nat \cup {-1} :
           /\ SetCounts(d, Decrement(n), 0, 0)
           /\ raced' = [raced EXCEPT ![d] = @ \/ n <= 0]
    <3>1. PICK n \in {timer[d].tested} \cup IF Reloads THEN {priv[d].time_call} ELSE {} :
             /\ SetCounts(d, Decrement(n), 0, 0)
             /\ raced' = [raced EXCEPT ![d] = @ \/ n <= 0]
      BY ONLY <1>5, ZenonT(60) DEF TimerCount
    <3>2. n = timer[d].tested \/ n = priv[d].time_call
      BY ONLY <3>1, Zenon
    <3>3. n \in Nat \cup {-1}
      BY ONLY <2>0, <3>2, Zenon
    <3> QED BY ONLY <3>1, <3>3, Zenon
  <2>2. Decrement(n) \in Nat \cup {-1} /\ (Decrement(n) = -1 => n <= 0)
    BY DEF Decrement
  <2>3. PrivType'
    BY <1>0, <2>1, <2>2
  <2>4. raced' \in [Devices -> BOOLEAN]
    BY <1>0, <2>1 DEF FlagTypes
  <2>5. NoCount'
    BY <1>0, <2>1, <2>2 DEF NoCount, FlagTypes
  <2>6. TimerType'
    BY <1>0, <1>5 DEF TimerCount
  <2> QED BY <1>1, <1>3, <2>3, <2>4, <2>5, <2>6, OutsideTypes
<1>6. CASE TimerComm(d) \/ TimerShake(d)
  <2>1. /\ \/ priv[d].time_comm > 0 /\ SetCounts(d, 0, priv[d].time_comm - 1, 0)
           \/ priv[d].time_shake > 0 /\ SetCounts(d, 0, 0, priv[d].time_shake - 1)
        /\ UNCHANGED <<timer, raced>>
    BY <1>6 DEF TimerComm, TimerShake
  <2>2. PrivType' /\ TimerType'
    BY <1>0, <2>1
  <2>3. NoCount'
    BY <1>0, <2>1 DEF NoCount
  <2>4. raced' \in [Devices -> BOOLEAN]
    BY <1>0, <2>1 DEF FlagTypes
  <2> QED BY <1>1, <1>3, <2>2, <2>3, <2>4, OutsideTypes
<1> QED BY <1>4, <1>5, <1>6 DEF Timer

\* Whatever comes from outside only posts, or sets the state.
LEMMA InputShape ==
  ASSUME TypeOK, NEW d \in Devices, Input(d)
  PROVE  /\ UNCHANGED <<status_run, priv, timer, raced>> /\ sent' = {}
         /\ \/ /\ \E m \in Messages : PostTo(d, queue[d], m)
               /\ UNCHANGED <<cur_state, busy>>
               /\ sending' \in {sending, [sending EXCEPT ![d] = @ - 1]}
               /\ sending' # sending => sending[d] > 0
            \/ UNCHANGED <<queue, overflowed, cur_state, busy, sending>>
            \/ /\ \E state \in {"ST_TALK", "ST_IDLE"} : SetStatus(d, state)
               /\ UNCHANGED <<queue, overflowed, sending>>
<1> DEFINE Posts == /\ UNCHANGED <<status_run, priv, timer, raced>> /\ sent' = {}
                    /\ \E m \in Messages : PostTo(d, queue[d], m)
                    /\ UNCHANGED <<cur_state, busy, sending>>
<1>1. /\ \A ip \in Addresses : \A flag \in 0 .. 16 : \A ev \in Events :
            Msg(ev, ip, flag) \in Messages
      /\ Nobody \in Addresses /\ \A ip \in Peers : ip \in Addresses
      /\ 0 \in 0 .. 16 /\ 1 \in 0 .. 16 /\ 2 \in 0 .. 16
  BY MessageType DEF Addresses
<1>2. ASSUME NEW m \in Messages, Post(d, m) PROVE Posts
  BY <1>2 DEF Post, Outside
<1>3. CASE Application(d)
  <2>1. \A ip \in Peers : Msg("EVENT_SHAKEHANDS", ip, 0) \in Messages
    BY <1>1, NumberType
  <2>2. Msg("EVENT_TALK", Nobody, 0) \in Messages /\ Msg("EVENT_HANGUP", Nobody, 1) \in Messages
    BY <1>1, NumberType
  <2> QED BY <1>2, <1>3, <2>1, <2>2 DEF Application, Call, Answer, Hangup
<1>4. CASE CloudCall(d)
  BY <1>4 DEF CloudCall, SetStatusBusy, SetStatusIdle, SetStatus
<1>5. CASE SendTimeout(d)
  <2>1. Msg("EVENT_FAIL_COMM", Nobody, 0) \in Messages
    BY <1>1, NumberType
  <2> QED BY <1>5, <2>1 DEF SendTimeout
<1>6. ASSUME NEW ip \in Peers, NEW cmd \in Commands, Receive(d, ip, cmd)
      PROVE  Posts \/ Ignore(d)
  <2>1. ip \in Addresses
    BY <1>1
  <2>2. \A ev \in Events : Msg(ev, ip, 0) \in Messages
    BY <1>1, <2>1
  <2>3. \A ev \in Events, flag \in {0, 1, 2} : Msg(ev, Nobody, flag) \in Messages
    BY <1>1
  <2>4. \E m \in Messages : Post(d, m) \/ Ignore(d)
    <3>1. CASE cmd = "CMD_CALL"
      BY <1>6, <2>2, <3>1, NumberType DEF Receive
    <3>2. CASE cmd = "CMD_TALK"
      BY <1>6, <2>3, <3>2, NumberType DEF Receive
    <3>3. CASE cmd = "CMD_TRANSTALK"
      BY <1>6, <2>2, <3>3, NumberType DEF Receive
    <3>4. CASE cmd = "CMD_OVER"
      BY <1>6, <2>3, <3>4, NumberType DEF Receive
    <3>5. CASE cmd = "ASW_OK"
      BY <1>6, <2>2, <3>5, NumberType DEF Receive
    <3>6. CASE cmd = "ASW_FAIL"
      BY <1>6, <2>3, <3>6, NumberType DEF Receive
    <3>7. CASE cmd = "CMD_SHAKEHANDS"
      BY <1>6, <2>2, <3>7, NumberType DEF Receive
    <3>8. CASE cmd = "CMD_SHAKEHANDS_ASW"
      BY <1>6, <2>2, <3>8, NumberType DEF Receive
    <3> QED BY <3>1, <3>2, <3>3, <3>4, <3>5, <3>6, <3>7, <3>8 DEF Commands
  <2> QED BY <1>2, <2>4
<1>7. ASSUME Ignore(d) PROVE /\ UNCHANGED <<status_run, priv, timer, raced>> /\ sent' = {}
                             /\ UNCHANGED <<queue, overflowed, cur_state, busy, sending>>
  BY <1>7 DEF Ignore, Outside
<1> QED BY <1>3, <1>4, <1>5, <1>6, <1>7 DEF Input

LEMMA InputTypes ==
  ASSUME TypeOK, NEW d \in Devices, Input(d)
  PROVE  TypeOK'
<1>0. /\ QueueType /\ SendType /\ PrivType /\ StateType /\ TimerType
      /\ FlagTypes /\ NoCount
  BY SplitTypes DEF TypeOK, NoCount
<1>1. PrivType' /\ TimerType' /\ NoCount' /\ raced' \in [Devices -> BOOLEAN]
  BY <1>0, InputShape DEF PrivType, TimerType, NoCount, FlagTypes
<1>2. SendType'
  <2>1. sent' = {} /\ (sending' = sending
          \/ (sending[d] > 0 /\ sending' = [sending EXCEPT ![d] = @ - 1]))
    BY InputShape
  <2> QED BY <1>0, <2>1 DEF SendType
<1>3. StateType' /\ busy' \in [Devices -> BOOLEAN]
  <2>1. CASE UNCHANGED <<cur_state, busy>>
    BY <1>0, <2>1, InputShape DEF StateType, FlagTypes
  <2>2. CASE \E state \in {"ST_TALK", "ST_IDLE"} : SetStatus(d, state)
    BY <1>0, <2>2 DEF SetStatus, StateType, States, FlagTypes
  <2> QED BY <2>1, <2>2, InputShape
<1>4. (\E n \in Messages : PostTo(d, queue[d], n)) \/ UNCHANGED <<queue, overflowed>>
  BY InputShape
<1> QED BY <1>1, <1>2, <1>3, <1>4, OutsideTypes

-----------------------------------------------------------------------------
(* What a handler does to the counts, the queue and the peer               *)

Held(d) ==
  /\ cur_state'[d] = cur_state[d] /\ status_run'[d] = status_run[d]
  /\ queue'[d] = queue[d] /\ overflowed'[d] = overflowed[d]
  /\ priv'[d] = priv[d] /\ busy'[d] = busy[d] /\ raced'[d] = raced[d]

\* The handlers that do not end a call.
Goes == Runs \ (Fails \cup {"DO_HANGUP"})

Lengthens(d, q) == \E n \in Messages : n.ev = "EVENT_TYPE_HM" /\ queue'[d] = Append(q, n)

\* They stop no count, take nothing more from the queue, and lose nothing.
LEMMA HandleGoes ==
  ASSUME QueueType, PrivType, overflowed \in [Devices -> BOOLEAN],
         NEW d \in Devices, NEW run \in Goes,
         NEW m \in Messages, NEW q \in Seq(Messages), Len(q) < QueueSize,
         Handle(d, run, m, q)
  PROVE  /\ queue'[d] = q \/ Lengthens(d, q)
         /\ overflowed'[d] = overflowed[d]
         /\ priv[d].time_call > 0 => priv'[d].time_call > 0
         /\ priv[d].time_comm > 0 => priv'[d].time_comm > 0
         /\ priv[d].time_shake > 0 => priv'[d].time_shake > 0
         /\ run \in {"DO_SHAKEHANDS", "DO_SHAKEHANDS_ASW"} => priv'[d].time_shake > 0
         /\ run = "DO_DIAL" => priv'[d].time_comm > 0
         /\ run \in {"DO_CALL", "DO_RING", "DO_TALK"} => priv'[d].time_call > 0
         /\ run = "DO_JUDGE_TYPE" => Lengthens(d, q)
         /\ run \in {"DO_CALL", "DO_TALK", "DO_TALK_EX", "DO_SHAKEHANDS_ASW", "DO_RET_FAIL"} =>
              priv'[d].cPeerIP = priv[d].cPeerIP
<1> USE DEF Assign, SetCounts, Priv, Privs, PrivType, TakenFrom, QueueType, Lengthens
<1>1. CASE run \in {"DO_NO", "DO_TALK_EX"}
  BY <1>1 DEF Handle, DoNothing, Fails
<1>2. CASE run = "DO_SHAKEHANDS"
  BY <1>2 DEF Handle, ShakeHands, Fails
<1>3. CASE run = "DO_SHAKEHANDS_ASW"
  BY <1>3 DEF Handle, ShakeHandsRet, Fails
<1>4. CASE run = "DO_JUDGE_TYPE"
  <2>1. JudgeType(d, m, q)
    BY <1>4 DEF Handle, Fails
  <2> DEFINE n == Msg("EVENT_TYPE_HM", m.ip, m.flag)
  <2>2. n \in Messages /\ n.ev = "EVENT_TYPE_HM"
    <3>1. m.ip \in Addresses /\ m.flag \in 0 .. 16
      BY DEF Messages
    <3> QED BY <3>1, MessageType, NumberType DEF Msg
  <2>3. PostTo(d, q, n) /\ UNCHANGED priv
    BY <2>1 DEF JudgeType
  <2> HIDE DEF n
  <2>4. queue'[d] = Append(q, n) /\ overflowed'[d] = overflowed[d]
    BY <2>3 DEF PostTo
  <2> QED BY <1>4, <2>2, <2>3, <2>4
<1>5. CASE run = "DO_DIAL"
  BY <1>5 DEF Handle, CallIP, Fails
<1>6. CASE run = "DO_CALL"
  BY <1>6 DEF Handle, RetCall, Fails
<1>7. CASE run = "DO_TALK"
  BY <1>7 DEF Handle, StmAnswer, Fails
<1>8. CASE run = "DO_RING"
  BY <1>8 DEF Handle, Ring, Fails
<1>9. CASE run = "DO_RET_FAIL"
  BY <1>9 DEF Handle, RetFail, Fails
<1> QED BY <1>1, <1>2, <1>3, <1>4, <1>5, <1>6, <1>7, <1>8, <1>9 DEF Goes, Runs

\* A device writes only its own data.
LEMMA HandleFrame ==
  ASSUME NEW d \in Devices, NEW run, NEW m, NEW q, Handle(d, run, m, q),
         QueueType, PrivType, overflowed \in [Devices -> BOOLEAN],
         NEW e \in Devices \ {d}
  PROVE  queue'[e] = queue[e] /\ overflowed'[e] = overflowed[e] /\ priv'[e] = priv[e]
<1>1. ASSUME NEW n, PostTo(d, q, n) \/ TakenFrom(d, q)
      PROVE  queue'[e] = queue[e] /\ overflowed'[e] = overflowed[e]
  BY <1>1 DEF PostTo, TakenFrom, QueueType
<1>2. ASSUME NEW call, NEW comm, NEW shake, NEW ip, NEW port,
             Assign(d, call, comm, shake, ip, port) \/ UNCHANGED priv
      PROVE  priv'[e] = priv[e]
  BY <1>2 DEF Assign, PrivType
<1>3. ASSUME NEW flag, StmOver(d, flag, q)
      PROVE  queue'[e] = queue[e] /\ overflowed'[e] = overflowed[e] /\ priv'[e] = priv[e]
  BY <1>1, <1>2, <1>3 DEF StmOver
<1>4. CASE DoNothing(d, q)
  BY <1>1, <1>2, <1>4 DEF DoNothing
<1>5. CASE Fail(d, m, q)
  BY <1>3, <1>4, <1>5 DEF Fail
<1>6. CASE ShakeHands(d, m, q) \/ ShakeHandsRet(d, m, q) \/ CallIP(d, m, q)
             \/ RetCall(d, q) \/ StmAnswer(d, q) \/ Ring(d, m, q)
  BY <1>1, <1>2, <1>6 DEF ShakeHands, ShakeHandsRet, CallIP, RetCall, StmAnswer, Ring, SetCounts
<1>7. CASE JudgeType(d, m, q) \/ RetFail(d, m, q)
  BY <1>1, <1>2, <1>7 DEF JudgeType, RetFail
<1> QED BY <1>3, <1>4, <1>5, <1>6, <1>7 DEF Handle

LEMMA StepFrame ==
  ASSUME TypeOK, NEW d \in Devices, Threads(d) \/ Input(d), NEW e \in Devices \ {d}
  PROVE  Held(e)
<1>0. /\ QueueType /\ PrivType /\ StateType /\ FlagTypes
      /\ overflowed \in [Devices -> BOOLEAN]
  BY SplitTypes DEF TypeOK, FlagTypes
<1>1. ASSUME NEW m, PostTo(d, queue[d], m) \/ TakenFrom(d, queue[d])
      PROVE  queue'[e] = queue[e] /\ overflowed'[e] = overflowed[e]
  BY <1>0, <1>1 DEF PostTo, TakenFrom, QueueType
<1>2. CASE ExecEntry(d)
  BY <1>0, <1>2, HandleFrame DEF ExecEntry, Held, StateType, FlagTypes
<1>3. CASE NoEntry(d)
  BY <1>0, <1>3, HandleFrame DEF NoEntry, Held, StateType, FlagTypes
<1>4. CASE TimerTest(d)
  BY <1>4 DEF TimerTest, Outside, Held
<1>5. CASE TimerCount(d)
  <2>1. queue'[e] = queue[e] /\ overflowed'[e] = overflowed[e]
    BY <1>1, <1>5 DEF TimerCount
  <2>2. priv'[e] = priv[e] /\ raced'[e] = raced[e]
    BY <1>0, <1>5 DEF TimerCount, SetCounts, Assign, PrivType, FlagTypes
  <2> QED BY <1>5, <2>1, <2>2 DEF TimerCount, Outside, Held
<1>6. CASE TimerComm(d) \/ TimerShake(d)
  <2>1. queue'[e] = queue[e] /\ overflowed'[e] = overflowed[e]
    BY <1>1, <1>6 DEF TimerComm, TimerShake
  <2>2. priv'[e] = priv[e]
    BY <1>0, <1>6 DEF TimerComm, TimerShake, SetCounts, Assign, PrivType
  <2> QED BY <1>6, <2>1, <2>2 DEF TimerComm, TimerShake, Outside, Held
<1>7. CASE Input(d)
  BY <1>0, <1>1, <1>7, InputShape DEF SetStatus, Held, StateType, FlagTypes
<1> QED BY <1>2, <1>3, <1>4, <1>5, <1>6, <1>7 DEF Threads, StmThread, Timer

-----------------------------------------------------------------------------
(* The handler that runs again for an event without a row                  *)

\* While no cloud call holds the line, the handler of the last row is one of
\* the state's: an event without a row can run no other.
RunOf(d) ==
  cur_state[d] # "ST_IDLE" /\ ~busy[d] => status_run[d] \in RunsTo[cur_state[d]]
RunInv == \A d \in Devices : RunOf(d)

LEMMA RunStep ==
  ASSUME TypeOK, NEW d \in Devices, RunOf(d), Threads(d) \/ Input(d)
  PROVE  RunOf(d)'
<1>0. StateType /\ busy \in [Devices -> BOOLEAN]
  BY SplitTypes DEF TypeOK, FlagTypes
<1>1. CASE ExecEntry(d)
  <2>1. PICK row \in stm_video_state_bz :
          /\ cur_state' = [cur_state EXCEPT ![d] = row.next]
          /\ status_run' = [status_run EXCEPT ![d] = row.run]
    BY <1>1 DEF ExecEntry
  <2>2. row.run \in RunsTo[row.next]
    BY TableRuns
  <2> QED BY <1>0, <2>1, <2>2 DEF RunOf, StateType
<1>2. CASE NoEntry(d) \/ Timer(d)
  BY <1>2 DEF NoEntry, Timer, TimerTest, TimerCount, TimerComm, TimerShake, Outside, RunOf
<1>3. CASE Input(d)
  <2>1. CASE UNCHANGED <<cur_state, busy>>
    BY <1>3, <2>1, InputShape DEF RunOf
  <2>2. CASE \E state \in {"ST_TALK", "ST_IDLE"} : SetStatus(d, state)
    BY <1>0, <2>2 DEF SetStatus, StateType, RunOf
  <2> QED BY <1>3, <2>1, <2>2, InputShape
<1> QED BY <1>1, <1>2, <1>3 DEF Threads, StmThread

-----------------------------------------------------------------------------
(* What ends a call                                                        *)

TimedOf(d) ==
  cur_state[d] # "ST_IDLE" /\ ~Disturbed(d) =>
    Counting(d) \/ Queued(d, EndEvents[cur_state[d]])

\* Events that are not taken stay in the queue.
LEMMA QueuedStays ==
  ASSUME QueueType, QueueType', NEW d \in Devices, NEW events, Queued(d, events),
         \/ queue'[d] = queue[d]
         \/ \E n \in Messages : queue'[d] = Append(queue[d], n)
         \/ /\ queue[d] # <<>> /\ Head(queue[d]).ev \notin events
            /\ queue'[d] = Tail(queue[d]) \/ Lengthens(d, Tail(queue[d]))
  PROVE  \E i \in 1 .. Len(queue'[d]) : queue'[d][i].ev \in events
<1>0. queue[d] \in Seq(Messages)
  BY DEF QueueType
<1>1. PICK i \in 1 .. Len(queue[d]) : queue[d][i].ev \in events
  BY DEF Queued
<1>2. CASE queue'[d] = queue[d]
  BY <1>1, <1>2
<1>3. ASSUME NEW n \in Messages, queue'[d] = Append(queue[d], n)
      PROVE  \E j \in 1 .. Len(queue'[d]) : queue'[d][j].ev \in events
  <2>1. i \in 1 .. Len(queue'[d]) /\ queue'[d][i] = queue[d][i]
    BY <1>0, <1>3
  <2> QED BY <1>1, <2>1
<1>4. ASSUME queue[d] # <<>>, Head(queue[d]).ev \notin events,
             queue'[d] = Tail(queue[d]) \/ Lengthens(d, Tail(queue[d]))
      PROVE  \E j \in 1 .. Len(queue'[d]) : queue'[d][j].ev \in events
  <2> DEFINE q == Tail(queue[d])
  <2>1. /\ q \in Seq(Messages) /\ Len(q) = Len(queue[d]) - 1 /\ Len(queue[d]) > 0
        /\ \A j \in 1 .. Len(queue[d]) - 1 : q[j] = queue[d][j + 1]
        /\ Head(queue[d]) = queue[d][1]
    BY <1>4, QueueRest
  <2>2. i # 1 /\ Len(queue[d]) \in Nat
    BY <1>0, <1>1, <1>4, <2>1
  <2>3. i - 1 \in 1 .. Len(q) /\ q[i - 1].ev \in events
    BY <1>1, <2>1, <2>2
  <2>4. CASE queue'[d] = q
    BY <2>3, <2>4
  <2>5. ASSUME NEW n \in Messages, queue'[d] = Append(q, n)
        PROVE  \E j \in 1 .. Len(queue'[d]) : queue'[d][j].ev \in events
    <3> HIDE DEF q
    <3>1. i - 1 \in 1 .. Len(queue'[d]) /\ queue'[d][i - 1] = q[i - 1]
      BY <2>1, <2>3, <2>5
    <3> QED BY <2>3, <3>1
  <2> HIDE DEF q
  <2> QED BY <1>4, <2>4, <2>5 DEF Lengthens, q
<1> QED BY <1>2, <1>3, <1>4

\* A posted event is in the queue, or the queue was full.
LEMMA PostedQueued ==
  ASSUME QueueType, overflowed \in [Devices -> BOOLEAN], NEW d \in Devices,
         NEW m \in Messages, PostTo(d, queue[d], m), ~overflowed'[d]
  PROVE  /\ queue'[d] = Append(queue[d], m)
         /\ \E i \in 1 .. Len(queue'[d]) : queue'[d][i].ev = m.ev
<1>0. queue[d] \in Seq(Messages) /\ Len(queue[d]) \in Nat
  BY DEF QueueType
<1>1. queue'[d] = Append(queue[d], m)
  <2>1. ~(Len(queue[d]) >= QueueSize)
    BY <1>0 DEF PostTo
  <2>2. Len(queue[d]) < QueueSize
    BY <1>0, <2>1
  <2> QED BY <2>2 DEF PostTo, QueueType
<1>2. /\ Len(queue'[d]) = Len(queue[d]) + 1 /\ Len(queue[d]) \in Nat
      /\ queue'[d][Len(queue[d]) + 1] = m
  BY <1>0, <1>1
<1>3. Len(queue[d]) + 1 \in 1 .. Len(queue'[d])
  BY <1>2
<1> QED BY <1>1, <1>2, <1>3

\* An event that was not lost was posted behind the others.
LEMMA PostedBehind ==
  ASSUME QueueType, overflowed \in [Devices -> BOOLEAN], NEW d \in Devices,
         (\E m \in Messages : PostTo(d, queue[d], m)) \/ TakenFrom(d, queue[d])
  PROVE  /\ queue'[d] = queue[d] \/ \E n \in Messages : queue'[d] = Append(queue[d], n)
         /\ overflowed[d] => overflowed'[d]
BY DEF PostTo, TakenFrom, QueueType

LEMMA LengthensQueued ==
  ASSUME NEW d \in Devices, NEW q \in Seq(Messages), Lengthens(d, q)
  PROVE  \E i \in 1 .. Len(queue'[d]) : queue'[d][i].ev = "EVENT_TYPE_HM"
<1>1. PICK n \in Messages : n.ev = "EVENT_TYPE_HM" /\ queue'[d] = Append(q, n)
  BY DEF Lengthens
<1>2. /\ Len(queue'[d]) = Len(q) + 1 /\ Len(q) \in Nat
      /\ queue'[d][Len(q) + 1] = n
  BY <1>1
<1>3. Len(q) + 1 \in 1 .. Len(queue'[d])
  BY <1>2
<1> QED BY <1>1, <1>2, <1>3

\* Every device's own flags: what disturbs a call stays noted.
LEMMA StillDisturbed ==
  ASSUME QueueType, overflowed \in [Devices -> BOOLEAN], NEW d \in Devices,
         (\E m \in Messages : PostTo(d, queue[d], m)) \/ TakenFrom(d, queue[d]),
         UNCHANGED busy, raced[d] => raced'[d], ~Disturbed(d)'
  PROVE  ~Disturbed(d)
BY PostedBehind DEF Disturbed

\* The machine's thread: it leaves the state, starts a count, posts the
\* caller's type, or takes nothing away that the state needs.
LEMMA TimedExec ==
  ASSUME TypeOK, NEW d \in Devices, TimedOf(d), ExecEntry(d), QueueType'
  PROVE  TimedOf(d)'
<1> DEFINE m == Head(queue[d])
           q == Tail(queue[d])
<1>0. /\ QueueType /\ PrivType /\ StateType /\ FlagTypes
      /\ overflowed \in [Devices -> BOOLEAN] /\ busy \in [Devices -> BOOLEAN]
      /\ queue[d] # <<>> /\ UNCHANGED raced
  BY SplitTypes DEF TypeOK, FlagTypes, ExecEntry
<1>1. m \in Messages /\ q \in Seq(Messages) /\ Len(q) < QueueSize
  <2>1. Len(queue[d]) <= QueueSize /\ Len(queue[d]) \in Nat
    BY <1>0 DEF QueueType
  <2> QED BY <1>0, <2>1, QueueRest
<1>2. PICK row \in stm_video_state_bz :
        /\ row.ev = m.ev /\ row.cur = cur_state[d]
        /\ cur_state' = [cur_state EXCEPT ![d] = row.next]
        /\ busy' = [busy EXCEPT ![d] = @ /\ row.next # "ST_IDLE"]
        /\ Handle(d, row.run, m, q)
  BY DEF ExecEntry, Found
<1> HIDE DEF m, q
<1>3. CASE row.next = "ST_IDLE"
  BY <1>0, <1>2, <1>3 DEF TimedOf, StateType
<1>4. CASE row.next # "ST_IDLE"
  <2>1. /\ cur_state'[d] = row.next /\ busy'[d] = busy[d]
        /\ row.run \in Goes /\ row.next \in States
    <3>1. row.run \in Goes
      BY <1>4, TableCounts DEF Goes, Runs, Fails
    <3> QED BY <1>0, <1>2, <1>4, <3>1, TableTypes DEF StateType
  <2>2. /\ queue'[d] = q \/ Lengthens(d, q)
        /\ overflowed'[d] = overflowed[d]
        /\ priv[d].time_call > 0 => priv'[d].time_call > 0
        /\ priv[d].time_comm > 0 => priv'[d].time_comm > 0
        /\ priv[d].time_shake > 0 => priv'[d].time_shake > 0
        /\ row.run \in {"DO_SHAKEHANDS", "DO_SHAKEHANDS_ASW"} => priv'[d].time_shake > 0
        /\ row.run = "DO_DIAL" => priv'[d].time_comm > 0
        /\ row.run \in {"DO_CALL", "DO_RING", "DO_TALK"} => priv'[d].time_call > 0
        /\ row.run = "DO_JUDGE_TYPE" => Lengthens(d, q)
    BY <1>0, <1>1, <1>2, <2>1, HandleGoes
  <2>3. Disturbed(d)' <=> Disturbed(d)
    BY <1>0, <2>1, <2>2 DEF Disturbed
  <2>4. CASE \/ row.run = "DO_SHAKEHANDS" /\ row.next = "ST_SHAKEHANDS"
             \/ row.run = "DO_SHAKEHANDS_ASW" /\ row.next = "ST_SHAKEHANDS_ASW"
             \/ row.run = "DO_DIAL" /\ row.next = "ST_DIAL"
             \/ row.run \in {"DO_CALL", "DO_RING", "DO_TALK"}
    BY <2>1, <2>2, <2>4 DEF TimedOf, Counting
  <2>5. CASE row.run = "DO_JUDGE_TYPE" /\ row.next \in {"ST_SHAKEHANDS_ASW", "ST_JUDGE_TYPE"}
    <3>1. "EVENT_TYPE_HM" \in EndEvents[row.next]
      BY <2>1, <2>5 DEF EndEvents
    <3>2. \E i \in 1 .. Len(queue'[d]) : queue'[d][i].ev = "EVENT_TYPE_HM"
      BY <1>1, <2>2, <2>5, LengthensQueued
    <3> QED BY <2>1, <3>1, <3>2 DEF TimedOf, Queued
  <2>6. CASE /\ row.next = row.cur
             /\ \/ row.run = "DO_SHAKEHANDS_ASW" /\ row.ev = "EVENT_SHAKEHANDS_ASW"
                \/ row.run = "DO_RET_FAIL" /\ row.ev = "EVENT_RING"
    <3>1. cur_state'[d] = cur_state[d] /\ cur_state[d] # "ST_IDLE" /\ cur_state[d] \in States
      BY <1>2, <1>4, <2>1, <2>6
    <3>2. m.ev \notin EndEvents[cur_state[d]]
      BY <1>2, <2>6, <3>1 DEF EndEvents
    <3>3. Counting(d) => Counting(d)'
      BY <2>2, <3>1 DEF Counting
    <3>4. Queued(d, EndEvents[cur_state[d]]) =>
            \E i \in 1 .. Len(queue'[d]) : queue'[d][i].ev \in EndEvents[cur_state[d]]
      BY <1>0, <2>2, <3>2, QueuedStays DEF m, q
    <3> QED BY <2>3, <3>1, <3>3, <3>4 DEF TimedOf, Queued
  <2>7. CASE /\ row.next = "ST_TALK" /\ row.cur = "ST_RING"
             /\ row.ev = "EVENT_TALK_EX"
    <3>1. EndEvents["ST_TALK"] = {"EVENT_HANGUP"} /\ EndEvents["ST_RING"] = {"EVENT_HANGUP"}
      BY DEF EndEvents, States
    <3>2. Counting(d) => Counting(d)'
      BY <1>2, <2>2, <2>7 DEF Counting
    <3>3. Queued(d, EndEvents["ST_RING"]) =>
            \E i \in 1 .. Len(queue'[d]) : queue'[d][i].ev \in EndEvents["ST_RING"]
      BY <1>0, <1>2, <2>2, <2>7, <3>1, QueuedStays DEF m, q
    <3> QED BY <1>2, <2>1, <2>3, <2>7, <3>1, <3>2, <3>3 DEF TimedOf, Queued
  <2> QED BY <1>4, <2>4, <2>5, <2>6, <2>7, TableCounts
<1> QED BY <1>3, <1>4

LEMMA TimedNoEntry ==
  ASSUME TypeOK, NEW d \in Devices, TimedOf(d), RunOf(d), NoEntry(d), QueueType'
  PROVE  TimedOf(d)'
<1> DEFINE m == Msg(Head(queue[d]).ev, Nobody, Number[Head(queue[d]).ev])
           q == Tail(queue[d])
           s == cur_state[d]
<1> SUFFICES ASSUME s # "ST_IDLE", ~Disturbed(d)'
             PROVE  Counting(d)' \/ Queued(d, EndEvents[s])'
  BY DEF TimedOf, NoEntry
<1>0. /\ QueueType /\ PrivType /\ StateType /\ FlagTypes
      /\ overflowed \in [Devices -> BOOLEAN]
      /\ queue[d] # <<>> /\ UNCHANGED <<cur_state, busy, raced>>
      /\ Handle(d, status_run[d], m, q)
  BY SplitTypes DEF TypeOK, FlagTypes, NoEntry
<1>1. Head(queue[d]) \in Messages /\ q \in Seq(Messages) /\ Len(q) < QueueSize
  <2>1. Len(queue[d]) <= QueueSize /\ Len(queue[d]) \in Nat
    BY <1>0 DEF QueueType
  <2> QED BY <1>0, <2>1, QueueRest
<1>2. m \in Messages
  <2>1. Head(queue[d]).ev \in Events /\ Nobody \in Addresses
    BY <1>1 DEF Messages, Addresses
  <2> QED BY <2>1, MessageType, NumberType
<1>3. status_run[d] \in RunsTo[s] /\ s \in States
  BY <1>0 DEF RunOf, StateType, Disturbed
<1>4. status_run[d] \in Goes
  BY <1>3 DEF RunsTo, Goes, Runs, Fails, States
<1>5. ~\E row \in stm_video_state_bz : row.ev = Head(queue[d]).ev /\ row.cur = s
  BY DEF NoEntry, Found
<1> HIDE DEF m, q
<1>6. /\ queue'[d] = q \/ Lengthens(d, q)
      /\ overflowed'[d] = overflowed[d]
      /\ priv[d].time_call > 0 => priv'[d].time_call > 0
      /\ priv[d].time_comm > 0 => priv'[d].time_comm > 0
      /\ priv[d].time_shake > 0 => priv'[d].time_shake > 0
      /\ status_run[d] \in {"DO_SHAKEHANDS", "DO_SHAKEHANDS_ASW"} => priv'[d].time_shake > 0
      /\ status_run[d] = "DO_JUDGE_TYPE" => Lengthens(d, q)
  BY <1>0, <1>1, <1>2, <1>4, HandleGoes
<1>7. CASE s = "ST_SHAKEHANDS_ASW"
  <2>1. CASE status_run[d] = "DO_SHAKEHANDS_ASW"
    BY <1>0, <1>6, <1>7, <2>1 DEF Counting
  <2>2. CASE status_run[d] = "DO_JUDGE_TYPE"
    <3>1. "EVENT_TYPE_HM" \in EndEvents[s]
      BY <1>3, <1>7 DEF EndEvents
    <3>2. \E i \in 1 .. Len(queue'[d]) : queue'[d][i].ev = "EVENT_TYPE_HM"
      BY <1>1, <1>6, <2>2, LengthensQueued
    <3> QED BY <1>0, <3>1, <3>2 DEF Queued
  <2> QED BY <1>3, <1>7, <2>1, <2>2 DEF RunsTo, States
<1>8. CASE s # "ST_SHAKEHANDS_ASW"
  <2>1. Head(queue[d]).ev \notin EndEvents[s]
    BY <1>3, <1>5, <1>8, TableEnds
  <2>2. ~Disturbed(d)
    BY <1>0, <1>6 DEF Disturbed
  <2>3. Counting(d) => Counting(d)'
    BY <1>0, <1>6 DEF Counting
  <2>4. Queued(d, EndEvents[s]) =>
          \E i \in 1 .. Len(queue'[d]) : queue'[d][i].ev \in EndEvents[s]
    BY <1>0, <1>6, <2>1, QueuedStays DEF q
  <2> QED BY <1>0, <2>2, <2>3, <2>4 DEF TimedOf, Queued
<1> QED BY <1>7, <1>8

\* A tick lets the count it finds go on, or posts the event it is for; the
\* counts it clears are not the ones that end the state.
LEMMA TimedTimer ==
  ASSUME TypeOK, NEW d \in Devices, TimedOf(d), Timer(d), QueueType'
  PROVE  TimedOf(d)'
<1> DEFINE s == cur_state[d]
<1> SUFFICES ASSUME s # "ST_IDLE", ~Disturbed(d)'
             PROVE  Counting(d)' \/ Queued(d, EndEvents[s])'
  BY DEF TimedOf, Timer, TimerTest, TimerCount, TimerComm, TimerShake, Outside
<1> USE DEF Assign, SetCounts, Priv
<1>0. /\ QueueType /\ PrivType /\ StateType /\ TimerType /\ FlagTypes
      /\ overflowed \in [Devices -> BOOLEAN] /\ raced \in [Devices -> BOOLEAN]
      /\ UNCHANGED <<cur_state, busy>> /\ s \in States
  BY SplitTypes DEF TypeOK, FlagTypes, Timer, TimerTest, TimerCount, TimerComm, TimerShake,
                    Outside, StateType
<1>1. /\ Msg("EVENT_HANGUP", Nobody, 1) \in Messages
      /\ Msg("EVENT_FAIL_COMM", Nobody, 0) \in Messages
      /\ Msg("EVENT_FAIL_SHAKE", Nobody, 1) \in Messages
  BY NumberType, MessageType DEF Addresses
<1>2. CASE TimerTest(d)
  BY <1>0, <1>2 DEF TimerTest, TimedOf, Disturbed, Counting, Queued
<1>3. CASE TimerCount(d)
  <2>1. PICK n \in Nat \cup {-1} :
           /\ SetCounts(d, Decrement(n), 0, 0)
           /\ raced' = [raced EXCEPT ![d] = @ \/ n <= 0]
           /\ IF Decrement(n) = 0
              THEN PostTo(d, queue[d], Msg("EVENT_HANGUP", Nobody, 1))
              ELSE TakenFrom(d, queue[d])
    <3>1. timer[d].tested \in Nat \cup {-1} /\ priv[d].time_call \in Nat \cup {-1}
      BY <1>0 DEF TimerType, PrivType, Privs
    <3> QED BY <1>3, <3>1 DEF TimerCount
  <2>2. n > 0
    <3>1. raced'[d] = (raced[d] \/ n <= 0)
      BY <1>0, <2>1
    <3>2. ~(n <= 0)
      BY <3>1 DEF Disturbed
    <3> QED BY <3>2
  <2>3. priv'[d].time_call = Decrement(n)
    BY <1>0, <2>1 DEF PrivType
  <2>4. CASE Decrement(n) = 0
    <3>1. PostTo(d, queue[d], Msg("EVENT_HANGUP", Nobody, 1))
      BY <2>1, <2>4
    <3>2. \E i \in 1 .. Len(queue'[d]) : queue'[d][i].ev = "EVENT_HANGUP"
      BY <1>0, <1>1, <3>1, PostedQueued DEF Msg, Disturbed
    <3>3. "EVENT_HANGUP" \in EndEvents[s]
      BY <1>0 DEF EndEvents
    <3> QED BY <1>0, <3>2, <3>3 DEF Queued
  <2>5. CASE Decrement(n) # 0
    BY <2>2, <2>3, <2>5 DEF Decrement, Counting
  <2> QED BY <2>4, <2>5
<1>4. CASE TimerComm(d)
  <2>1. /\ priv'[d].time_comm = priv[d].time_comm - 1 /\ priv[d].time_comm \in Nat
        /\ priv[d].time_comm > 0 /\ priv[d].time_call = 0
        /\ UNCHANGED raced
    BY <1>0, <1>4 DEF TimerComm, PrivType, Privs
  <2>2. CASE s \in {"ST_SHAKEHANDS", "ST_SHAKEHANDS_ASW", "ST_DIAL"} /\ priv[d].time_comm = 1
    <3>1. PostTo(d, queue[d], Msg("EVENT_FAIL_COMM", Nobody, 0))
      BY <1>4, <2>2 DEF TimerComm
    <3>2. \E i \in 1 .. Len(queue'[d]) : queue'[d][i].ev = "EVENT_FAIL_COMM"
      BY <1>0, <1>1, <3>1, PostedQueued, SMTT(40) DEF Msg, Disturbed
    <3>3. "EVENT_FAIL_COMM" \in EndEvents[s]
      BY <1>0, <2>2 DEF EndEvents
    <3> QED BY <1>0, <3>2, <3>3 DEF Queued
  <2>3. CASE s \in {"ST_SHAKEHANDS", "ST_SHAKEHANDS_ASW", "ST_DIAL"} /\ priv[d].time_comm # 1
    BY <1>0, <2>1, <2>3 DEF Counting
  <2>4. CASE s \notin {"ST_SHAKEHANDS", "ST_SHAKEHANDS_ASW", "ST_DIAL"}
    <3>1. (\E m \in Messages : PostTo(d, queue[d], m)) \/ TakenFrom(d, queue[d])
      BY <1>1, <1>4 DEF TimerComm
    <3>2. ~Disturbed(d)
      BY <1>0, <2>1, <3>1, StillDisturbed
    <3>3. Queued(d, EndEvents[s])
      BY <2>1, <2>4, <3>2 DEF TimedOf, Counting
    <3> QED BY <1>0, <3>1, <3>3, PostedBehind, QueuedStays DEF Queued
  <2> QED BY <2>2, <2>3, <2>4
<1>5. CASE TimerShake(d)
  <2>1. /\ priv'[d].time_shake = priv[d].time_shake - 1 /\ priv[d].time_shake \in Nat
        /\ priv[d].time_shake > 0 /\ priv[d].time_call = 0 /\ priv[d].time_comm = 0
        /\ UNCHANGED raced
    BY <1>0, <1>5 DEF TimerShake, PrivType, Privs
  <2>2. CASE s \in {"ST_SHAKEHANDS", "ST_SHAKEHANDS_ASW"} /\ priv[d].time_shake = 1
    <3>1. PostTo(d, queue[d], Msg("EVENT_FAIL_SHAKE", Nobody, 1))
      BY <1>5, <2>2 DEF TimerShake
    <3>2. \E i \in 1 .. Len(queue'[d]) : queue'[d][i].ev = "EVENT_FAIL_SHAKE"
      BY <1>0, <1>1, <3>1, PostedQueued DEF Msg, Disturbed
    <3>3. "EVENT_FAIL_SHAKE" \in EndEvents[s]
      BY <1>0, <2>2 DEF EndEvents
    <3> QED BY <1>0, <3>2, <3>3 DEF Queued
  <2>3. CASE s \in {"ST_SHAKEHANDS", "ST_SHAKEHANDS_ASW"} /\ priv[d].time_shake # 1
    BY <1>0, <2>1, <2>3 DEF Counting
  <2>4. CASE s \notin {"ST_SHAKEHANDS", "ST_SHAKEHANDS_ASW"}
    <3>1. (\E m \in Messages : PostTo(d, queue[d], m)) \/ TakenFrom(d, queue[d])
      BY <1>1, <1>5 DEF TimerShake
    <3>2. ~Disturbed(d)
      BY <1>0, <2>1, <3>1, StillDisturbed
    <3>3. Queued(d, EndEvents[s])
      BY <2>1, <2>4, <3>2 DEF TimedOf, Counting
    <3> QED BY <1>0, <3>1, <3>3, PostedBehind, QueuedStays DEF Queued
  <2> QED BY <2>2, <2>3, <2>4
<1> QED BY <1>2, <1>3, <1>4, <1>5 DEF Timer

LEMMA TimedInput ==
  ASSUME TypeOK, NEW d \in Devices, TimedOf(d), Input(d), QueueType'
  PROVE  TimedOf(d)'
<1>0. /\ QueueType /\ StateType /\ FlagTypes
      /\ overflowed \in [Devices -> BOOLEAN] /\ busy \in [Devices -> BOOLEAN]
  BY SplitTypes DEF TypeOK, FlagTypes
<1>1. UNCHANGED <<priv, raced>>
  BY InputShape
<1>2. ASSUME NEW m \in Messages, PostTo(d, queue[d], m), UNCHANGED <<cur_state, busy>>
      PROVE  TimedOf(d)'
  <2> SUFFICES ASSUME cur_state[d] # "ST_IDLE", ~Disturbed(d)'
               PROVE  Counting(d)' \/ Queued(d, EndEvents[cur_state[d]])'
    BY <1>2 DEF TimedOf
  <2>1. ~Disturbed(d)
    BY <1>0, <1>1, <1>2, StillDisturbed
  <2>2. Counting(d) => Counting(d)'
    BY <1>1, <1>2 DEF Counting
  <2>3. Queued(d, EndEvents[cur_state[d]]) =>
          \E i \in 1 .. Len(queue'[d]) : queue'[d][i].ev \in EndEvents[cur_state[d]]
    BY <1>0, <1>2, PostedBehind, QueuedStays
  <2> QED BY <1>2, <2>1, <2>2, <2>3 DEF TimedOf, Queued
<1>3. CASE UNCHANGED <<queue, overflowed, cur_state, busy>>
  BY <1>1, <1>3 DEF TimedOf, Disturbed, Counting, Queued
<1>4. CASE \E state \in {"ST_TALK", "ST_IDLE"} : SetStatus(d, state)
  BY <1>0, <1>4 DEF SetStatus, StateType, TimedOf, Disturbed
<1> QED BY <1>2, <1>3, <1>4, InputShape

-----------------------------------------------------------------------------
TimedInv == \A d \in Devices : TimedOf(d)
IInv == TypeOK /\ RunInv /\ TimedInv

LEMMA TypeStep == TypeOK /\ [Next]_vars => TypeOK'
<1> SUFFICES ASSUME TypeOK, [Next]_vars PROVE TypeOK'
  OBVIOUS
<1>1. ASSUME NEW d \in Devices, Threads(d) PROVE TypeOK'
  BY <1>1, MachineTypes, TimerTypes DEF Threads
<1>2. ASSUME NEW d \in Devices, Input(d) PROVE TypeOK'
  BY <1>2, InputTypes
<1>3. CASE UNCHANGED vars
  BY <1>3 DEF TypeOK, ValueTypes, FlagTypes, vars, machine
<1> QED BY <1>1, <1>2, <1>3 DEF Next

LEMMA Inductive == IInv /\ [Next]_vars => IInv'
<1> SUFFICES ASSUME IInv, [Next]_vars PROVE IInv'
  OBVIOUS
<1>0. TypeOK /\ TypeOK' /\ QueueType'
  BY TypeStep DEF IInv, TypeOK, ValueTypes, QueueType
<1>1. ASSUME NEW d \in Devices, Threads(d) \/ Input(d) PROVE IInv'
  <2>1. RunOf(d)' /\ TimedOf(d)'
    BY <1>0, <1>1, RunStep, TimedExec, TimedNoEntry, TimedTimer, TimedInput
       DEF IInv, RunInv, TimedInv, Threads, StmThread
  <2>2. ASSUME NEW e \in Devices \ {d} PROVE RunOf(e)' /\ TimedOf(e)'
    <3>1. Held(e)
      BY <1>0, <1>1, StepFrame
    <3>2. RunOf(e) /\ TimedOf(e)
      BY DEF IInv, RunInv, TimedInv
    <3> QED BY <3>1, <3>2 DEF Held, RunOf, TimedOf, Disturbed, Counting, Queued
  <2> QED BY <1>0, <2>1, <2>2 DEF IInv, RunInv, TimedInv
<1>2. CASE UNCHANGED vars
  BY <1>0, <1>2 DEF IInv, RunInv, TimedInv, RunOf, TimedOf, Disturbed, Counting, Queued,
                    vars, machine
<1> QED BY <1>1, <1>2 DEF Next

LEMMA Initial == Init => IInv
<1>1. Init => RunInv /\ TimedInv
  BY DEF Init, RunInv, RunOf, TimedInv, TimedOf
<1> QED BY <1>1, TypeInit DEF IInv

\* All variables keep their types, no queue grows past its bound, and a count
\* below zero is a race.
THEOREM TypeCorrect == Spec => []TypeOK
BY TypeInit, TypeStep, PTL DEF Spec

\* In every state but idle a count runs or an event is queued that will end
\* it, unless a cloud call, a full queue or the timer's race intervened.
THEOREM TimedCorrect == Spec => []LineTimed
<1>1. IInv => LineTimed
  BY DEF IInv, TimedInv, TimedOf, LineTimed
<1> QED BY <1>1, Initial, Inductive, PTL DEF Spec

\* A step of a device in a call that goes on leaves its peer.
LEMMA PeerStep ==
  ASSUME IInv, NEW d \in Devices, Threads(d) \/ Input(d),
         cur_state[d] \in {"ST_CALL", "ST_TALK"}, cur_state'[d] # "ST_IDLE", ~busy'[d]
  PROVE  priv'[d].cPeerIP = priv[d].cPeerIP
<1>0. /\ TypeOK /\ RunOf(d) /\ QueueType /\ PrivType /\ StateType
      /\ overflowed \in [Devices -> BOOLEAN] /\ busy \in [Devices -> BOOLEAN]
  BY SplitTypes DEF IInv, RunInv, TypeOK, FlagTypes
<1> DEFINE Keeps == {"DO_CALL", "DO_TALK", "DO_TALK_EX", "DO_SHAKEHANDS_ASW", "DO_RET_FAIL"}
<1>1. ASSUME NEW run \in Keeps, NEW m \in Messages, queue[d] # <<>>,
             Handle(d, run, m, Tail(queue[d]))
      PROVE  priv'[d].cPeerIP = priv[d].cPeerIP
  <2>1. run \in Goes
    BY DEF Goes, Runs, Fails
  <2>2. Tail(queue[d]) \in Seq(Messages) /\ Len(Tail(queue[d])) < QueueSize
    <3>1. Len(queue[d]) <= QueueSize /\ Len(queue[d]) \in Nat
      BY <1>0 DEF QueueType
    <3> QED BY <1>0, <1>1, <3>1, QueueRest
  <2> QED BY <1>0, <1>1, <2>1, <2>2, HandleGoes
<1>2. queue[d] # <<>> => /\ Head(queue[d]) \in Messages
                         /\ Msg(Head(queue[d]).ev, Nobody, Number[Head(queue[d]).ev]) \in Messages
  <2> SUFFICES ASSUME queue[d] # <<>> PROVE
        /\ Head(queue[d]) \in Messages
        /\ Msg(Head(queue[d]).ev, Nobody, Number[Head(queue[d]).ev]) \in Messages
    OBVIOUS
  <2>1. Head(queue[d]) \in Messages
    BY <1>0, QueueRest
  <2>2. Head(queue[d]).ev \in Events /\ Nobody \in Addresses
    BY <2>1 DEF Messages, Addresses
  <2> QED BY <2>1, <2>2, MessageType, NumberType
<1>3. CASE ExecEntry(d)
  <2>1. PICK row \in stm_video_state_bz :
          /\ row.cur = cur_state[d]
          /\ cur_state' = [cur_state EXCEPT ![d] = row.next]
          /\ Handle(d, row.run, Head(queue[d]), Tail(queue[d]))
    BY <1>3 DEF ExecEntry, Found
  <2>2. row.next # "ST_IDLE"
    BY <1>0, <2>1 DEF StateType
  <2>3. row.run \in Keeps
    BY <2>1, <2>2, TablePeer
  <2> QED BY <1>1, <1>2, <1>3, <2>1, <2>3 DEF ExecEntry
<1>4. CASE NoEntry(d)
  <2>1. status_run[d] \in RunsTo[cur_state[d]]
    BY <1>0, <1>4 DEF NoEntry, RunOf
  <2>2. status_run[d] \in Keeps
    BY <2>1 DEF RunsTo, States
  <2> QED BY <1>1, <1>2, <1>4, <2>2 DEF NoEntry
<1>5. CASE Timer(d)
  BY <1>0, <1>5 DEF Timer, TimerTest, TimerCount, TimerComm, TimerShake, SetCounts, Assign,
                    Priv, PrivType
<1>6. CASE Input(d)
  BY <1>0, <1>6, InputShape
<1> QED BY <1>3, <1>4, <1>5, <1>6 DEF Threads, StmThread

\* A call in progress keeps its peer, whatever is posted to the machine.
THEOREM PeerCorrect == Spec => PeerKept
<1>1. IInv /\ [Next]_vars =>
        [\A d \in Devices :
           /\ cur_state[d] \in {"ST_CALL", "ST_TALK"}
           /\ cur_state'[d] # "ST_IDLE" /\ ~busy'[d]
           => priv'[d].cPeerIP = priv[d].cPeerIP]_vars
  <2> SUFFICES ASSUME IInv, NEW d \in Devices, Threads(d) \/ Input(d), NEW e \in Devices,
                      cur_state[e] \in {"ST_CALL", "ST_TALK"},
                      cur_state'[e] # "ST_IDLE", ~busy'[e]
               PROVE  priv'[e].cPeerIP = priv[e].cPeerIP
    BY DEF Next
  <2>1. CASE e = d
    BY <2>1, PeerStep
  <2>2. CASE e # d
    BY <2>2, StepFrame DEF IInv, Held
  <2> QED BY <2>1, <2>2
<1> QED BY <1>1, Initial, Inductive, PTL DEF Spec, PeerKept

=============================================================================
