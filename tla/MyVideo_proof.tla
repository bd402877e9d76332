--------------------------- MODULE MyVideo_proof ---------------------------
(***************************************************************************)
(* What holds of the video state machine for every queue size, every count *)
(* of phones and dialler threads, every set of requests and every build.   *)
(***************************************************************************)
EXTENDS MyVideo, TLAPS

\* A dialler that dials has a phone left to count off.
PhonesLeft ==
  \A d \in Dialers : dialer[d] \in {"post", "clear", "wait"} => user_num[d] > 0

TypeInv == TypeOK /\ PhonesLeft

\* The part of TypeOK about what a handler may change.
HandlerTypes ==
  /\ queue \in Seq(Messages) /\ Len(queue) <= QueueSize
  /\ overflowed \in BOOLEAN
  /\ face_state \in BOOLEAN
  /\ h264enc \in {"off", "record", "talk"}
  /\ start_record \in BOOLEAN
  /\ record_state \in 0 .. 1
  /\ record_time \in Int
  /\ avi \in {"none", "open", "written"}
  /\ peer_type \in PeerTypes
  /\ call_out_result \in {"NO", "SUCCESS", "FAIL"}
  /\ call_time \in Int
  /\ answered \in 0 .. 1
  /\ connect_state \in 0 .. 1
  /\ call_status \in 0 .. 1
  /\ dialCallBack \in BOOLEAN
  /\ busy \in BOOLEAN
  /\ ucs_call \in {"none", "dialing", "alerting", "incoming", "talking"}
  /\ ucs_hungup \in BOOLEAN
  /\ ucs_pc \in {"idle", "ok", "enc", "fail", "incoming"}

-----------------------------------------------------------------------------
(* Messages, rows and the queue.                                           *)

\* The messages the threads post are messages, of the kind they are named for.
LEMMA MessageTypes ==
  /\ \A ev \in Events : Msg(ev) \in Messages
  /\ \A ev \in Events, u \in Users : CallMsg(ev, u) \in Messages
  /\ \A type \in HangupTypes : HangupMsg(type) \in Messages
<1>1. \A ev \in Events : Msg(ev) \in Messages
  BY DEF Msg, Messages, Users, HangupTypes
<1>2. \A ev \in Events, u \in Users : CallMsg(ev, u) \in Messages
  BY <1>1 DEF CallMsg, Msg, Messages, Users, HangupTypes
<1>3. \A type \in HangupTypes : HangupMsg(type) \in Messages
  BY <1>1 DEF HangupMsg, Msg, Messages, Users, HangupTypes, Events
<1> QED
  BY <1>1, <1>2, <1>3

LEMMA MessageEvents ==
  /\ \A ev \in Events : Msg(ev).ev = ev
  /\ \A ev \in Events, u \in Users : CallMsg(ev, u).ev = ev
  /\ \A type \in HangupTypes : HangupMsg(type).ev = "EV_TALK_HANGUP"
BY DEF Msg, CallMsg, HangupMsg

\* A row of the table names states.
LEMMA RowTypes ==
  ASSUME NEW r \in state_table
  PROVE  r.msg \in Events /\ r.cur \in States /\ r.next \in States
BY DEF state_table, Row, Events, States

\* Posting keeps the queue within its size.
LEMMA PostToTypes ==
  ASSUME NEW q \in Seq(Messages), Len(q) <= QueueSize, NEW m \in Messages,
         overflowed \in BOOLEAN, PostTo(q, m)
  PROVE  queue' \in Seq(Messages) /\ Len(queue') <= QueueSize
         /\ overflowed' \in BOOLEAN
<1>1. queue' = IF Len(q) < QueueSize THEN Append(q, m) ELSE q
  BY Zenon DEF PostTo
<1>2. queue' \in Seq(Messages) /\ Len(queue') <= QueueSize
  BY <1>1, MyVideoAssumption DEF MyVideoAssumption
<1>3. overflowed' \in BOOLEAN
  BY Zenon DEF PostTo
<1> QED
  BY <1>2, <1>3

\* A post by another thread, or none.
LEMMA PostTypes ==
  ASSUME TypeOK,
         UNCHANGED stm \/ \E n \in Messages : Post(n)
  PROVE  /\ queue' \in Seq(Messages) /\ Len(queue') <= QueueSize
         /\ overflowed' \in BOOLEAN /\ cur_state' \in States
<1>1. CASE UNCHANGED stm
  BY <1>1 DEF TypeOK, stm
<1>2. ASSUME NEW n \in Messages, Post(n)
      PROVE  /\ queue' \in Seq(Messages) /\ Len(queue') <= QueueSize
             /\ overflowed' \in BOOLEAN /\ cur_state' \in States
  BY <1>2, PostToTypes DEF TypeOK, Post
<1> QED
  BY <1>1, <1>2

\* What the handler sees of the queue.
LEMMA TakenTypes ==
  ASSUME queue \in Seq(Messages), Len(queue) <= QueueSize, queue # <<>>
  PROVE  /\ Head(queue) \in Messages
         /\ Tail(queue) \in Seq(Messages)
         /\ Len(Tail(queue)) <= QueueSize
BY MyVideoAssumption DEF MyVideoAssumption

-----------------------------------------------------------------------------
(* The handlers keep the types of what they change.                        *)

\* The helpers of the handlers.
LEMMA HelperTypes ==
  ASSUME HandlerTypes
  PROVE  /\ EncOn("talk") \/ EncOn("record") => h264enc' \in {"off", "record", "talk"}
         /\ RecorderStopped => start_record' \in BOOLEAN
                               /\ avi' \in {"none", "open", "written"}
         /\ EncOff => /\ h264enc' \in {"off", "record", "talk"}
                      /\ start_record' \in BOOLEAN
                      /\ avi' \in {"none", "open", "written"}
                      /\ record_state' \in 0 .. 1
         /\ UcsHangup => /\ ucs_call' \in {"none", "dialing", "alerting", "incoming", "talking"}
                         /\ ucs_hungup' \in BOOLEAN
         /\ UcsDial => /\ ucs_call' \in {"none", "dialing", "alerting", "incoming", "talking"}
                       /\ call_status' \in 0 .. 1
<1> USE DEF HandlerTypes
<1>1. EncOn("talk") \/ EncOn("record") => h264enc' \in {"off", "record", "talk"}
  BY DEF EncOn
<1>2. RecorderStopped => start_record' \in BOOLEAN
                         /\ avi' \in {"none", "open", "written"}
  BY DEF RecorderStopped
<1>3. EncOff => /\ h264enc' \in {"off", "record", "talk"}
                /\ start_record' \in BOOLEAN
                /\ avi' \in {"none", "open", "written"}
                /\ record_state' \in 0 .. 1
  BY <1>2 DEF EncOff
<1>4. UcsHangup => /\ ucs_call' \in {"none", "dialing", "alerting", "incoming", "talking"}
                   /\ ucs_hungup' \in BOOLEAN
  BY DEF UcsHangup
<1>5. UcsDial => /\ ucs_call' \in {"none", "dialing", "alerting", "incoming", "talking"}
                 /\ call_status' \in 0 .. 1
  BY DEF UcsDial
<1> QED
  BY <1>1, <1>2, <1>3, <1>4, <1>5

\* Every handler leaves what it changes well typed.
LEMMA HandlersType ==
  ASSUME HandlerTypes, NEW run,
         NEW q \in Seq(Messages), Len(q) <= QueueSize, NEW m \in Messages,
         Do(run, q, m)
  PROVE  HandlerTypes'
<1> USE DEF HandlerTypes, face, recorder, talk, ucs
<1> DEFINE QueueTypes == /\ queue' \in Seq(Messages) /\ Len(queue') <= QueueSize
                         /\ overflowed' \in BOOLEAN
<1>1. ASSUME TakenFrom(q) PROVE QueueTypes
  BY <1>1 DEF TakenFrom
<1>2. ASSUME NEW n \in Messages, PostTo(q, n) PROVE QueueTypes
  BY <1>2, PostToTypes
<1>3. CASE DoNothing(q)
  BY <1>1, <1>3 DEF DoNothing
<1>4. CASE DoFaceOn(q)
  BY <1>1, <1>4 DEF DoFaceOn
<1>5. CASE DoFaceOff(q, m)
  <2>1. [m EXCEPT !.ev = "EV_FACE_OFF_FINISH"] \in Messages
    BY DEF Messages, Events
  <2>2. QueueTypes
    BY <1>2, <1>5, <2>1 DEF DoFaceOff
  <2>3. face_state' \in BOOLEAN
    BY ONLY <1>5 DEF DoFaceOff
  <2>4. UNCHANGED <<recorder, talk, ucs, busy>>
    BY ONLY <1>5 DEF DoFaceOff
  <2> QED
    BY ONLY HandlerTypes, <2>2, <2>3, <2>4, SMTT(40)
<1>6. CASE DoTalkCallout(q, m)
  <2>1. TypeOf(m.usr) \in PeerTypes
    BY DEF TypeOf, Messages, Users, PeerTypes
  <2>2. QueueTypes
    BY <1>1, <1>2, <1>6, MessageTypes DEF DoTalkCallout, HangupTypes
  <2>3. CASE m.usr = "unknown"
    BY <1>6, <2>2, <2>3 DEF DoTalkCallout
  <2>4. CASE m.usr # "unknown"
    BY <1>6, <2>1, <2>2, <2>4, HelperTypes, MyVideoAssumption
    DEF DoTalkCallout, MyVideoAssumption
  <2> QED
    BY <2>3, <2>4
<1>7. CASE DoTalkCallin(q, m)
  <2>1. TypeOf(m.usr) \in PeerTypes
    BY DEF TypeOf, Messages, Users, PeerTypes
  <2>2. QueueTypes
    BY <1>1, <1>2, <1>7, MessageTypes DEF DoTalkCallin, Events
  <2> QED
    BY <1>7, <2>1, <2>2, MyVideoAssumption DEF DoTalkCallin, MyVideoAssumption
<1>8. CASE DoTalkAnswer(q)
  BY <1>1, <1>8, HelperTypes, MyVideoAssumption DEF DoTalkAnswer, MyVideoAssumption
<1>9. CASE DoTalkHangup(q)
  <2>1. TakenFrom(q) /\ EncOff /\ UcsHangup
    BY <1>9 DEF DoTalkHangup
  <2>2. QueueTypes
    BY <1>1, <2>1
  <2>3. /\ record_time' \in Int /\ peer_type' \in PeerTypes
        /\ call_time' \in Int /\ answered' \in 0 .. 1
    BY <1>9 DEF DoTalkHangup, PeerTypes
  <2> QED
    BY <1>9, <2>1, <2>2, <2>3, HelperTypes, ZenonT(60) DEF DoTalkHangup
<1>10. CASE DoTalkHangupAll(q)
  <2>1. TakenFrom(q) /\ UcsHangup
    BY <1>10 DEF DoTalkHangupAll
  <2>2. QueueTypes
    BY <1>1, <2>1
  <2> QED
    BY <1>10, <2>1, <2>2, HelperTypes, ZenonT(60) DEF DoTalkHangupAll
<1>11. CASE DoRecordStart(q)
  <2>1. QueueTypes
    BY <1>1, <1>11 DEF DoRecordStart
  <2>2. CASE record_state = 1
    <3>1. UNCHANGED <<recorder, face, talk, ucs, busy>>
      BY <1>11, <2>2, Zenon DEF DoRecordStart
    <3> QED
      BY <2>1, <3>1
  <2>3. CASE record_state # 1
    <3>1. /\ record_state' \in 0 .. 1 /\ record_time' \in Int
          /\ avi' \in {"none", "open", "written"}
      BY <1>11, <2>3, MyVideoAssumption DEF DoRecordStart, MyVideoAssumption
    <3>2. h264enc' \in {"off", "record", "talk"} /\ start_record' \in BOOLEAN
      BY <1>11, <2>3, HelperTypes, ZenonT(60) DEF DoRecordStart
    <3> QED
      BY <1>11, <2>1, <3>1, <3>2, ZenonT(60) DEF DoRecordStart
  <2> QED
    BY <2>2, <2>3
<1>12. CASE DoRecordStop(q)
  <2>1. QueueTypes
    BY <1>1, <1>2, <1>12, MessageTypes DEF DoRecordStop, Events
  <2> QED
    BY <1>12, <2>1, HelperTypes DEF DoRecordStop
<1> QED
  BY <1>3, <1>4, <1>5, <1>6, <1>7, <1>8, <1>9, <1>10, <1>11, <1>12 DEF Do

-----------------------------------------------------------------------------
(* Type correctness.                                                       *)

\* Every variable keeps its type; for the queue that is its bound: posts of
\* any number of threads never take it over QueueSize (my_video.c:231-245).
THEOREM TypeCorrect == Spec => []TypeOK
<1>1. Init => TypeInv
  <2> SUFFICES ASSUME Init
               PROVE  TypeInv
    OBVIOUS
  <2> USE MyVideoAssumption DEF Init, MyVideoAssumption
  <2>1. TypeOK
    <3>1. /\ queue \in Seq(Messages) /\ Len(queue) <= QueueSize
          /\ record_state \in 0 .. 1 /\ record_time \in Int
          /\ call_time \in Int /\ answered \in 0 .. 1 /\ tested \in Int
          /\ user_num \in [Dialers -> Nat]
          /\ connect_state \in 0 .. 1 /\ call_status \in 0 .. 1
          /\ inputs \in Nat
      OBVIOUS
    <3>2. /\ overflowed \in BOOLEAN /\ face_state \in BOOLEAN
          /\ start_record \in BOOLEAN /\ dialCallBack \in BOOLEAN
          /\ busy \in BOOLEAN /\ ucs_hungup \in BOOLEAN
      BY Zenon
    <3>3. dialer \in [Dialers -> DialerLabels] /\ cur_state \in States
      BY DEF DialerLabels, States
    <3> QED
      BY <3>1, <3>2, <3>3 DEF TypeOK, PeerTypes
  <2>2. PhonesLeft
    BY DEF PhonesLeft
  <2> QED
    BY <2>1, <2>2 DEF TypeInv
<1>2. TypeInv /\ [Next]_vars => TypeInv'
  <2> SUFFICES ASSUME TypeInv, [Next]_vars
               PROVE  TypeInv'
    OBVIOUS
  <2> USE DEF TypeInv, TypeOK, PhonesLeft
  <2> DEFINE PostedTypes == /\ queue' \in Seq(Messages) /\ Len(queue') <= QueueSize
                            /\ overflowed' \in BOOLEAN /\ cur_state' \in States
    <2>1. CASE StmStep
    <3> DEFINE m == Head(queue)
               q == Tail(queue)
    <3>1. m \in Messages /\ q \in Seq(Messages) /\ Len(q) <= QueueSize
      BY <2>1, TakenTypes DEF StmStep
    <3>2. HandlerTypes
      BY DEF HandlerTypes
    <3>3. CASE /\ RowsFor(m.ev) = {} /\ DoNothing(q)
               /\ UNCHANGED <<cur_state, dialers>>
      BY <2>1, <3>1, <3>2, <3>3, HandlersType
      DEF StmStep, HandlerTypes, Do, timer, dialers
    <3>4. ASSUME NEW r \in RowsFor(m.ev), cur_state' = r.next,
                 Do(r.run, q, m), UNCHANGED dialers
          PROVE  TypeInv'
      <4>1. cur_state' \in States
        BY <3>4, RowTypes DEF RowsFor
      <4>2. HandlerTypes'
        BY <3>1, <3>2, <3>4, HandlersType
      <4> QED
        BY <2>1, <3>4, <4>1, <4>2 DEF StmStep, HandlerTypes, timer, dialers
    <3>5. ASSUME NEW r \in RowsFor(m.ev), cur_state' = r.next,
                 DoTalkCalloutAll(q)
          PROVE  TypeInv'
      <4>1. cur_state' \in States
        BY <3>5, RowTypes DEF RowsFor
      <4>2. /\ queue' = q /\ overflowed' = overflowed
            /\ UNCHANGED <<face, recorder, talk, ucs, busy>>
        BY <3>5 DEF DoTalkCalloutAll, TakenFrom
      <4>3. dialer' \in [Dialers -> DialerLabels] /\ user_num' \in [Dialers -> Nat]
        BY <3>5, MyVideoAssumption
        DEF DoTalkCalloutAll, MyVideoAssumption, DialerLabels
      <4>4. PhonesLeft'
        BY <3>5 DEF DoTalkCalloutAll
      <4> QED
        BY <2>1, <3>1, <4>1, <4>2, <4>3, <4>4
        DEF StmStep, timer, face, recorder, talk, ucs
    <3> QED
      BY <2>1, <3>3, <3>4, <3>5 DEF StmStep
  <2>2. CASE Timer
    <3>1. CASE TimerTestCall
      BY <3>1 DEF TimerTestCall, stm, face, recorder, talk, dialers, ucs
    <3>2. CASE TimerTestRecord
      BY <3>2 DEF TimerTestRecord, stm, face, recorder, talk, dialers, ucs
    <3>3. CASE TimerCountCall
      <4>1. PICK count \in Loaded(call_time) :
              /\ call_time' = Down(count)
              /\ IF Down(count) = 0
                 THEN Post(HangupMsg(IF answered = 1 THEN "OVERTIME_ANSWER"
                                     ELSE "OVERTIME_UNANSWER"))
                 ELSE UNCHANGED stm
        BY <3>3 DEF TimerCountCall
      <4>2. call_time' \in Int
        BY <4>1 DEF Down, Loaded
      <4>3. PostedTypes
        BY <4>1, PostTypes, MessageTypes DEF stm, HangupTypes
      <4> QED
        BY <3>3, <4>2, <4>3 DEF TimerCountCall, face, recorder, dialers, ucs
    <3>4. CASE TimerCountRecord
      <4>1. PICK count \in Loaded(record_time) :
              /\ record_time' = Down(count)
              /\ IF Down(count) = 0 THEN Post(Msg("EV_RECORD_STOP"))
                 ELSE UNCHANGED stm
        BY <3>4 DEF TimerCountRecord
      <4>2. record_time' \in Int
        BY <4>1 DEF Down, Loaded
      <4>3. PostedTypes
        BY <4>1, PostTypes, MessageTypes DEF stm, Events
      <4> QED
        BY <3>4, <4>2, <4>3 DEF TimerCountRecord, face, talk, dialers, ucs
    <3> QED
      BY <2>2, <3>1, <3>2, <3>3, <3>4 DEF Timer
  <2>3. ASSUME NEW d \in Dialers, Dialer(d)
        PROVE  TypeInv'
    <3> USE DEF DialerAt, DialerLabels, stm, face, recorder, talk, timer, ucs
    <3>1. CASE DialerHangup(d)
      <4>1. HandlerTypes
        BY DEF HandlerTypes
      <4>2. UcsHangup
        BY <3>1 DEF DialerHangup
      <4>3. /\ ucs_call' \in {"none", "dialing", "alerting", "incoming", "talking"}
            /\ ucs_hungup' \in BOOLEAN
        BY <4>1, <4>2, HelperTypes
      <4> QED
        BY <3>1, <4>3 DEF DialerHangup
    <3>2. CASE DialerGivesUp(d)
      BY <3>2 DEF DialerGivesUp
    <3>3. CASE DialerPost(d)
      <4>1. PostedTypes
        BY <3>3, PostTypes, MessageTypes DEF DialerPost, Events, Users
      <4> QED
        BY <3>3, <4>1 DEF DialerPost
    <3>4. CASE DialerClear(d)
      BY <3>4 DEF DialerClear, ForgetResult
    <3>5. CASE DialerNextUser(d)
      BY <3>5 DEF DialerNextUser, ForgetResult
    <3>6. CASE DialerSuccess(d)
      BY <3>6 DEF DialerSuccess, ForgetResult
    <3>7. CASE DialerFinish(d)
      <4>1. PostedTypes
        BY <3>7, PostTypes, MessageTypes DEF DialerFinish, Events
      <4> QED
        BY <3>7, <4>1 DEF DialerFinish
    <3> QED
      BY <2>3, <3>1, <3>2, <3>3, <3>4, <3>5, <3>6, <3>7 DEF Dialer
  <2>4. CASE UcsDue
    <3> USE DEF stm, face, recorder, talk, timer, dialers
    <3>1. CASE UcsFailPost
      <4>1. PostedTypes
        BY <3>1, PostTypes, MessageTypes DEF UcsFailPost, HangupTypes
      <4> QED
        BY <3>1, <4>1 DEF UcsFailPost
    <3>2. CASE UcsOkPost
      <4>1. PostedTypes
        BY <3>2, PostTypes, MessageTypes DEF UcsOkPost, Events
      <4> QED
        BY <3>2, <4>1 DEF UcsOkPost
    <3>3. CASE UcsEncOn
      BY <3>3 DEF UcsEncOn, EncOn
    <3>4. CASE UcsIncomingEnd
      BY <3>4 DEF UcsIncomingEnd
    <3>5. CASE UcsOwnHangup
      <4>1. PostedTypes
        BY <3>5, PostTypes, MessageTypes DEF UcsOwnHangup, HangupTypes
      <4>2. call_status' = 0 /\ ucs_call' \in {"none", "dialing", "alerting",
                                              "incoming", "talking"}
        BY <3>5 DEF UcsOwnHangup
      <4>3. dialCallBack' \in BOOLEAN /\ ucs_hungup' \in BOOLEAN
        BY <3>5, Zenon DEF UcsOwnHangup
      <4>4. UNCHANGED <<face, recorder, display_state, talk, timer, dialers,
                        ui_pc, connect_state, ucs_pc, busy, inputs>>
        BY <3>5 DEF UcsOwnHangup
      <4> QED
        BY <4>1, <4>2, <4>3, <4>4
    <3> QED
      BY <2>4, <3>1, <3>2, <3>3, <3>4, <3>5 DEF UcsDue
  <2>5. CASE UcsMay
    <3> USE DEF stm, face, recorder, talk, timer, dialers, ucs, Callback, Input
    <3>1. CASE UcsDialFailed
      BY <3>1 DEF UcsDialFailed
    <3>2. CASE UcsAlerting
      BY <3>2 DEF UcsAlerting
    <3>3. CASE UcsAnswered
      <4>1. PostedTypes
        BY <3>3, PostTypes, MessageTypes DEF UcsAnswered, Events
      <4> QED
        BY <3>3, <4>1 DEF UcsAnswered
    <3>4. CASE UcsPeerHangup
      <4>1. PostedTypes
        BY <3>4, PostTypes, MessageTypes DEF UcsPeerHangup, HangupTypes
      <4>2. call_status' = 0 /\ ucs_call' \in {"none", "dialing", "alerting",
                                              "incoming", "talking"}
        BY <3>4 DEF UcsPeerHangup
      <4>3. dialCallBack' \in BOOLEAN /\ ucs_hungup' \in BOOLEAN
        BY <3>4, Zenon DEF UcsPeerHangup
      <4>4. UNCHANGED <<face, recorder, display_state, talk, timer, dialers,
                        ui_pc, connect_state, ucs_pc, busy, inputs>>
        BY <3>4 DEF UcsPeerHangup
      <4> QED
        BY <4>1, <4>2, <4>3, <4>4
    <3>5. CASE UcsCallLost
      BY <3>5 DEF UcsCallLost
    <3>6. ASSUME NEW u \in Callers, UcsIncoming(u)
          PROVE  TypeInv'
      <4>1. PostedTypes /\ busy' \in BOOLEAN
        BY <3>6, PostTypes, MessageTypes, MyVideoAssumption
        DEF UcsIncoming, Events, MyVideoAssumption
      <4> QED
        BY <3>6, <4>1 DEF UcsIncoming
    <3>7. ASSUME NEW t \in ResetTimes, ResetCallTime(t)
          PROVE  TypeInv'
      BY <3>7, MyVideoAssumption DEF ResetCallTime, MyVideoAssumption
    <3>8. CASE UcsConnection
      BY <3>8 DEF UcsConnection
    <3> QED
      BY <2>5, <3>1, <3>2, <3>3, <3>4, <3>5, <3>6, <3>7, <3>8 DEF UcsMay
  <2>6. CASE Ui \/ UiClear \/ KeyFrame
    <3> USE DEF stm, face, recorder, talk, timer, dialers, ucs, Input
    <3>1. ASSUME NEW n \in Requests, Request(n)
          PROVE  TypeInv'
      <4>1. PostedTypes
        BY <3>1, PostTypes, MyVideoAssumption DEF Request, MyVideoAssumption
      <4> QED
        BY <3>1, <4>1 DEF Request
    <3>2. ASSUME NEW u \in Callees, UiCallOut(u)
          PROVE  TypeInv'
      <4>1. PostedTypes
        BY <3>2, PostTypes, MessageTypes, MyVideoAssumption
        DEF UiCallOut, Events, MyVideoAssumption
      <4> QED
        BY <3>2, <4>1 DEF UiCallOut
    <3>3. ASSUME NEW d \in Displays, Display(d)
          PROVE  TypeInv'
      BY <3>3 DEF Display, Displays
    <3>4. CASE UiClear
      BY <3>4 DEF UiClear, ForgetResult
    <3>5. CASE KeyFrame
      BY <3>5 DEF KeyFrame
    <3> QED
      BY <2>6, <3>1, <3>2, <3>3, <3>4, <3>5 DEF Ui
  <2>7. CASE UNCHANGED vars
    BY <2>7 DEF vars, stm, face, recorder, talk, timer, dialers, ucs
  <2> QED
    BY <2>1, <2>2, <2>3, <2>4, <2>5, <2>6, <2>7 DEF Next
<1> QED
  BY <1>1, <1>2, PTL DEF Spec, TypeInv

-----------------------------------------------------------------------------
(* What the rows of the table have in common.                              *)

\* The face detector goes on with ST_FACE and off when it is left.
LEMMA FaceRows ==
  ASSUME NEW r \in state_table
  PROVE  /\ r.run = "DO_FACE_ON" => r.next = "ST_FACE"
         /\ r.run = "DO_FACE_OFF" => r.next # "ST_FACE"
         /\ r.run \notin {"DO_FACE_ON", "DO_FACE_OFF"}
              => (r.cur = "ST_FACE") = (r.next = "ST_FACE")
BY DEF state_table, Row

\* An answer enters ST_TALK_TALKING, a hangup leaves it, nothing else does.
LEMMA TalkRows ==
  ASSUME NEW r \in state_table
  PROVE  /\ r.run = "DO_TALK_ANSWER" => r.next = "ST_TALK_TALKING"
         /\ r.run = "DO_TALK_HANGUP" => r.next = "ST_IDLE"
         /\ r.run \notin {"DO_TALK_ANSWER", "DO_TALK_HANGUP"}
              => (r.cur = "ST_TALK_TALKING") = (r.next = "ST_TALK_TALKING")
BY DEF state_table, Row

\* ST_RECORDING and the two transient states are entered by one handler each.
LEMMA RecordRows ==
  ASSUME NEW r \in state_table
  PROVE  /\ r.next = "ST_RECORDING" => r.run = "DO_RECORD_START"
         /\ r.next = "ST_FACEOFF_RECORD" => r.run = "DO_FACE_OFF"
         /\ r.next = "ST_RECORD_STOPPING"
              => r.run = "DO_RECORD_STOP" /\ r.cur = "ST_RECORDING"
BY DEF state_table, Row

\* Both transient states have a row for the event that ends them.
LEMMA WayOut ==
  /\ Row("EV_FACE_OFF_FINISH", "ST_FACEOFF_RECORD", "ST_RECORDING",
         "DO_RECORD_START") \in state_table
  /\ Row("EV_RECORD_STOP_FINISHED", "ST_RECORD_STOPPING", "ST_FACE",
         "DO_FACE_ON") \in state_table
BY DEF state_table

-----------------------------------------------------------------------------
(* What the handlers do to the face detector, the call and the recorder.   *)

LEMMA FaceHandlers ==
  ASSUME NEW run, NEW q, NEW m, Do(run, q, m)
  PROVE  /\ run = "DO_FACE_ON" => face_state' = TRUE
         /\ run = "DO_FACE_OFF" => face_state' = FALSE
         /\ run \notin {"DO_FACE_ON", "DO_FACE_OFF"} => UNCHANGED face_state
BY DEF Do, DoNothing, DoFaceOn, DoFaceOff, DoTalkCallout, DoTalkCallin,
       DoTalkAnswer, DoTalkHangup, DoTalkHangupAll, DoRecordStart,
       DoRecordStop, face

LEMMA TalkHandlers ==
  ASSUME NEW run, NEW q, NEW m, Do(run, q, m)
  PROVE  /\ run = "DO_TALK_ANSWER" => answered' = 1
         /\ run = "DO_TALK_HANGUP" => answered' = 0
         /\ run \notin {"DO_TALK_ANSWER", "DO_TALK_HANGUP"}
              => UNCHANGED answered
BY DEF Do, DoNothing, DoFaceOn, DoFaceOff, DoTalkCallout, DoTalkCallin,
       DoTalkAnswer, DoTalkHangup, DoTalkHangupAll, DoRecordStart,
       DoRecordStop, talk

LEMMA RecordHandlers ==
  ASSUME NEW run, NEW q, NEW m, Do(run, q, m)
  PROVE  run = "DO_RECORD_START" => record_state' = 1
BY DEF Do, DoRecordStart, recorder

LEMMA RecorderHandlers ==
  ASSUME RecorderWritesFile, NEW run, NEW q, NEW m, Do(run, q, m)
  PROVE  RecorderWritesFile'
BY DEF RecorderWritesFile, Do, DoNothing, DoFaceOn, DoFaceOff, DoTalkCallout,
       DoTalkCallin, DoTalkAnswer, DoTalkHangup, DoTalkHangupAll,
       DoRecordStart, DoRecordStop, recorder, EncOn, EncOff, RecorderStopped

-----------------------------------------------------------------------------
(* Events that wait in the queue.                                          *)

Has(s, ev) == \E i \in DOMAIN s : s[i].ev = ev

\* A post keeps what waits, and is itself in the queue unless it overflowed.
LEMMA PostKeeps ==
  ASSUME NEW q \in Seq(Messages), NEW m \in Messages, PostTo(q, m)
  PROVE  /\ \A ev : Has(q, ev) => Has(queue', ev)
         /\ overflowed => overflowed'
         /\ ~overflowed' => Has(queue', m.ev)
<1>1. CASE Len(q) < QueueSize
  <2>1. queue' = Append(q, m) /\ UNCHANGED overflowed
    BY <1>1, Zenon DEF PostTo
  <2>2. Len(q) + 1 \in DOMAIN queue' /\ queue'[Len(q) + 1] = m
    BY <2>1
  <2>3. \A i \in DOMAIN q : i \in DOMAIN queue' /\ queue'[i] = q[i]
    BY <2>1
  <2> QED
    BY <2>1, <2>2, <2>3, Zenon DEF Has
<1>2. CASE ~(Len(q) < QueueSize)
  BY <1>2, Zenon DEF PostTo
<1> QED
  BY <1>1, <1>2

\* Taking an event leaves the events of other kinds waiting.
LEMMA TakeKeeps ==
  ASSUME queue \in Seq(Messages), queue # <<>>, NEW ev, Has(queue, ev),
         Head(queue).ev # ev
  PROVE  Has(Tail(queue), ev)
<1>1. PICK i \in DOMAIN queue : queue[i].ev = ev
  BY DEF Has
<1>2. i # 1 /\ i - 1 \in DOMAIN Tail(queue) /\ Tail(queue)[i - 1] = queue[i]
  BY <1>1
<1> QED
  BY <1>1, <1>2 DEF Has

\* What waits for the machine still waits after a handler.
LEMMA HandlersKeep ==
  ASSUME NEW run, NEW q \in Seq(Messages), NEW m \in Messages, Do(run, q, m)
  PROVE  /\ \A ev : Has(q, ev) => Has(queue', ev)
         /\ overflowed => overflowed'
<1>1. ASSUME NEW n \in Messages, PostTo(q, n)
      PROVE  /\ \A ev : Has(q, ev) => Has(queue', ev)
             /\ overflowed => overflowed'
  BY <1>1, PostKeeps
<1>2. ASSUME TakenFrom(q)
      PROVE  /\ \A ev : Has(q, ev) => Has(queue', ev)
             /\ overflowed => overflowed'
  BY <1>2 DEF TakenFrom
<1>3. TakenFrom(q) \/ \E n \in Messages : PostTo(q, n)
  <2>1. [m EXCEPT !.ev = "EV_FACE_OFF_FINISH"] \in Messages
    BY DEF Messages, Events
  <2>2. HangupMsg("BUTTON") \in Messages /\ Msg("EV_TALK_ANSWER") \in Messages
        /\ Msg("EV_RECORD_STOP_FINISHED") \in Messages
    BY MessageTypes DEF HangupTypes, Events
  <2> QED
    BY <2>1, <2>2
    DEF Do, DoNothing, DoFaceOn, DoFaceOff, DoTalkCallout, DoTalkCallin,
        DoTalkAnswer, DoTalkHangup, DoTalkHangupAll, DoRecordStart, DoRecordStop
<1> QED
  BY <1>1, <1>2, <1>3

\* The two handlers that enter a transient state post the event that leaves it.
LEMMA HandlersPost ==
  ASSUME NEW run, NEW q \in Seq(Messages), NEW m \in Messages, Do(run, q, m),
         ~overflowed'
  PROVE  /\ run = "DO_FACE_OFF" => Has(queue', "EV_FACE_OFF_FINISH")
         /\ run = "DO_RECORD_STOP" /\ record_state = 1
              => Has(queue', "EV_RECORD_STOP_FINISHED")
<1>1. CASE run = "DO_FACE_OFF"
  <2>1. PostTo(q, [m EXCEPT !.ev = "EV_FACE_OFF_FINISH"])
    BY <1>1 DEF Do, DoFaceOff
  <2>2. /\ [m EXCEPT !.ev = "EV_FACE_OFF_FINISH"] \in Messages
        /\ [m EXCEPT !.ev = "EV_FACE_OFF_FINISH"].ev = "EV_FACE_OFF_FINISH"
    BY DEF Messages, Events
  <2> QED
    BY <1>1, <2>1, <2>2, PostKeeps
<1>2. CASE run = "DO_RECORD_STOP" /\ record_state = 1
  <2>1. PostTo(q, Msg("EV_RECORD_STOP_FINISHED"))
    BY <1>2 DEF Do, DoRecordStop
  <2>2. /\ Msg("EV_RECORD_STOP_FINISHED") \in Messages
        /\ Msg("EV_RECORD_STOP_FINISHED").ev = "EV_RECORD_STOP_FINISHED"
    BY MessageTypes DEF Events, Msg
  <2> QED
    BY <1>2, <2>1, <2>2, PostKeeps
<1> QED
  BY <1>1, <1>2

-----------------------------------------------------------------------------
(* The other threads.                                                      *)

\* What a step of another thread may do to the state the invariants are about.
Aside ==
  /\ UNCHANGED <<cur_state, face_state, answered, record_state, start_record>>
  /\ h264enc' = "off" => h264enc = "off"
  /\ avi' = "none" => avi = "none"
  /\ busy => busy'
  /\ \/ UNCHANGED stm
     \/ \E n \in Messages :
          /\ Post(n)
          /\ n.ev = "EV_TALK_CALLOUTALL" => n \in Requests
          /\ n.ev = "EV_TALK_CALLOUT" =>
               \/ n \in Requests \/ Callees # {}
               \/ \E d \in Dialers : dialer[d] # "none"
          /\ n.ev = "EV_TALK_CALLIN" => n \in Requests \/ (~busy /\ busy')

LEMMA OtherThreads ==
  ASSUME TypeOK, [Next]_vars, ~StmStep
  PROVE  Aside
<1> USE DEF Aside, Post, stm, face, recorder, talk
<1>1. CASE Timer
  <2>1. CASE TimerTestCall \/ TimerTestRecord
    BY <2>1 DEF TimerTestCall, TimerTestRecord
  <2>2. CASE TimerCountCall
    BY <2>2, MessageTypes, MessageEvents DEF TimerCountCall, HangupTypes
  <2>3. CASE TimerCountRecord
    BY <2>3, MessageTypes, MessageEvents DEF TimerCountRecord, Events
  <2> QED
    BY <1>1, <2>1, <2>2, <2>3 DEF Timer
<1>2. ASSUME NEW d \in Dialers, Dialer(d)
      PROVE  Aside
  <2>1. CASE DialerHangup(d) \/ DialerGivesUp(d)
    BY <2>1 DEF DialerHangup, DialerGivesUp
  <2>2. CASE DialerPost(d)
    <3>1. dialer[d] # "none"
      BY <2>2 DEF DialerPost, DialerAt
    <3>2. /\ CallMsg("EV_TALK_CALLOUT", "app") \in Messages
          /\ CallMsg("EV_TALK_CALLOUT", "app").ev = "EV_TALK_CALLOUT"
      BY MessageTypes, MessageEvents DEF Events, Users
    <3> QED
      BY <2>2, <3>1, <3>2 DEF DialerPost
  <2>3. CASE DialerClear(d) \/ DialerNextUser(d) \/ DialerSuccess(d)
    BY <2>3 DEF DialerClear, DialerNextUser, DialerSuccess, ForgetResult
  <2>4. CASE DialerFinish(d)
    BY <2>4, MessageTypes, MessageEvents DEF DialerFinish, Events
  <2> QED
    BY <1>2, <2>1, <2>2, <2>3, <2>4 DEF Dialer
<1>3. CASE UcsDue
  <2>1. CASE UcsFailPost \/ UcsOwnHangup
    BY <2>1, MessageTypes, MessageEvents DEF UcsFailPost, UcsOwnHangup, HangupTypes
  <2>2. CASE UcsOkPost
    BY <2>2, MessageTypes, MessageEvents DEF UcsOkPost, Events
  <2>3. CASE UcsEncOn \/ UcsIncomingEnd
    BY <2>3 DEF UcsEncOn, UcsIncomingEnd, EncOn
  <2> QED
    BY <1>3, <2>1, <2>2, <2>3 DEF UcsDue
<1>4. CASE UcsMay
  <2>1. CASE UcsDialFailed \/ UcsAlerting \/ UcsCallLost \/ UcsConnection
    BY <2>1 DEF UcsDialFailed, UcsAlerting, UcsCallLost, UcsConnection
  <2>2. CASE UcsAnswered
    BY <2>2, MessageTypes, MessageEvents DEF UcsAnswered, Events
  <2>3. CASE UcsPeerHangup
    BY <2>3, MessageTypes, MessageEvents DEF UcsPeerHangup, HangupTypes
  <2>4. ASSUME NEW u \in Callers, UcsIncoming(u)
        PROVE  Aside
    BY <2>4, MessageTypes, MessageEvents, MyVideoAssumption
    DEF UcsIncoming, Events, MyVideoAssumption
  <2>5. ASSUME NEW t \in ResetTimes, ResetCallTime(t)
        PROVE  Aside
    BY <2>5 DEF ResetCallTime
  <2> QED
    BY <1>4, <2>1, <2>2, <2>3, <2>4, <2>5 DEF UcsMay
<1>5. CASE Ui \/ UiClear \/ KeyFrame
  <2>1. ASSUME NEW n \in Requests, Request(n)
        PROVE  Aside
    <3>1. n \in Messages
      BY MyVideoAssumption DEF MyVideoAssumption
    <3> QED
      BY <2>1, <3>1 DEF Request
  <2>2. ASSUME NEW u \in Callees, UiCallOut(u)
        PROVE  Aside
    BY <2>2, MessageTypes, MessageEvents, MyVideoAssumption
    DEF UiCallOut, Events, MyVideoAssumption
  <2>3. ASSUME NEW d \in Displays, Display(d)
        PROVE  Aside
    BY <2>3 DEF Display
  <2>4. CASE UiClear \/ KeyFrame
    BY <2>4 DEF UiClear, KeyFrame, ForgetResult
  <2> QED
    BY <1>5, <2>1, <2>2, <2>3, <2>4 DEF Ui
<1>6. CASE UNCHANGED vars
  BY <1>6 DEF vars
<1> QED
  BY <1>1, <1>2, <1>3, <1>4, <1>5, <1>6 DEF Next

-----------------------------------------------------------------------------
(* The inductive invariant: the transient states end because a recording   *)
(* that is stopped was on.                                                 *)

StmInv ==
  /\ FaceFollowsState
  /\ AnsweredIsTalking
  /\ RecordingIsOn
  /\ RecorderWritesFile
  /\ TransientStatesEnd

\* Each conjunct only needs what another thread's step leaves alone.
LEMMA AsideKeepsStmInv ==
  ASSUME TypeOK, StmInv, Aside
  PROVE  StmInv'
<1>1. (FaceFollowsState /\ AnsweredIsTalking)'
  BY Zenon DEF StmInv, Aside, FaceFollowsState, AnsweredIsTalking
<1>2. (RecordingIsOn /\ RecorderWritesFile)'
  BY DEF StmInv, Aside, RecordingIsOn, RecorderWritesFile
<1>3. /\ \A ev : Has(queue, ev) => Has(queue', ev)
      /\ overflowed => overflowed'
  BY PostKeeps DEF Aside, stm, Post, TypeOK
<1>4. TransientStatesEnd'
  BY <1>3, Zenon DEF StmInv, Aside, TransientStatesEnd, Queued, Has
<1> QED
  BY <1>1, <1>2, <1>4 DEF StmInv

\* A step of the machine's thread: the row says where it goes, the handler of
\* the row does what the state it enters needs.
LEMMA StmStepKeepsStmInv ==
  ASSUME TypeOK, StmInv, StmStep
  PROVE  StmInv'
<1> DEFINE m == Head(queue)
           q == Tail(queue)
<1>1. m \in Messages /\ q \in Seq(Messages) /\ queue \in Seq(Messages)
      /\ queue # <<>>
  BY TakenTypes DEF StmStep, TypeOK
<1>2. ASSUME NEW ev, Has(queue, ev), m.ev # ev
      PROVE  Has(q, ev)
  BY <1>1, <1>2, TakeKeeps
<1> HIDE DEF m, q
<1>3. ASSUME RowsFor(m.ev) = {}, DoNothing(q), UNCHANGED cur_state
      PROVE  StmInv'
  <2>1. /\ UNCHANGED <<cur_state, face_state, answered, record_state,
                       start_record, h264enc, avi, overflowed>>
        /\ queue' = q
    BY <1>3 DEF DoNothing, TakenFrom, face, recorder, talk
  <2>2. (FaceFollowsState /\ AnsweredIsTalking)'
    BY <2>1, Zenon DEF StmInv, FaceFollowsState, AnsweredIsTalking
  <2>3. (RecordingIsOn /\ RecorderWritesFile)'
    BY <2>1 DEF StmInv, RecordingIsOn, RecorderWritesFile
  <2>4. /\ cur_state = "ST_FACEOFF_RECORD" => m.ev # "EV_FACE_OFF_FINISH"
        /\ cur_state = "ST_RECORD_STOPPING" => m.ev # "EV_RECORD_STOP_FINISHED"
    BY <1>3, WayOut DEF RowsFor, Row
  <2>5. TransientStatesEnd'
    BY <1>2, <2>1, <2>4, Zenon DEF StmInv, TransientStatesEnd, Queued, Has
  <2> QED
    BY <2>2, <2>3, <2>5 DEF StmInv
<1>4. ASSUME NEW r \in RowsFor(m.ev), cur_state' = r.next, Do(r.run, q, m)
      PROVE  StmInv'
  <2>1. r \in state_table /\ r.cur = cur_state /\ r.msg = m.ev
    BY DEF RowsFor
  <2>2. FaceFollowsState'
    BY <1>4, <2>1, FaceRows, FaceHandlers DEF StmInv, FaceFollowsState
  <2>3. AnsweredIsTalking'
    BY <1>4, <2>1, TalkRows, TalkHandlers DEF StmInv, AnsweredIsTalking
  <2>4. RecordingIsOn'
    BY <1>4, <2>1, RecordRows, RecordHandlers DEF RecordingIsOn
  <2>5. RecorderWritesFile'
    BY <1>4, RecorderHandlers DEF StmInv
  <2>6. ASSUME ~overflowed', cur_state' = "ST_FACEOFF_RECORD"
        PROVE  Has(queue', "EV_FACE_OFF_FINISH")
    BY <1>1, <1>4, <2>1, <2>6, RecordRows, HandlersPost
  <2>7. ASSUME ~overflowed', cur_state' = "ST_RECORD_STOPPING"
        PROVE  Has(queue', "EV_RECORD_STOP_FINISHED")
    BY <1>1, <1>4, <2>1, <2>7, RecordRows, HandlersPost DEF StmInv, RecordingIsOn
  <2>8. TransientStatesEnd'
    BY <2>6, <2>7, Zenon DEF TransientStatesEnd, Queued, Has
  <2> QED
    BY <2>2, <2>3, <2>4, <2>5, <2>8 DEF StmInv
<1>5. ASSUME NEW r \in RowsFor(m.ev), cur_state' = r.next,
             r.run = "DO_TALK_CALLOUTALL", DoTalkCalloutAll(q)
      PROVE  StmInv'
  <2>1. r \in state_table /\ r.cur = cur_state
    BY DEF RowsFor
  <2>2. /\ UNCHANGED <<face_state, answered, record_state, start_record,
                       h264enc, avi>>
    BY <1>5 DEF DoTalkCalloutAll, face, recorder, talk
  <2>3. FaceFollowsState'
    BY <1>5, <2>1, <2>2, FaceRows DEF StmInv, FaceFollowsState
  <2>4. AnsweredIsTalking'
    BY <1>5, <2>1, <2>2, TalkRows DEF StmInv, AnsweredIsTalking
  <2>5. (RecordingIsOn /\ RecorderWritesFile /\ TransientStatesEnd)'
    BY <1>5, <2>1, <2>2, RecordRows
    DEF StmInv, RecordingIsOn, RecorderWritesFile, TransientStatesEnd
  <2> QED
    BY <2>3, <2>4, <2>5 DEF StmInv
<1> QED
  BY <1>3, <1>4, <1>5 DEF StmStep, m, q

LEMMA StmInvariant == Spec => [](TypeOK /\ StmInv)
<1>1. Init => StmInv
  <2> SUFFICES ASSUME Init
               PROVE  StmInv
    OBVIOUS
  <2>1. FaceFollowsState
    BY Zenon DEF Init, FaceFollowsState
  <2>2. AnsweredIsTalking
    BY DEF Init, AnsweredIsTalking
  <2>3. RecordingIsOn /\ RecorderWritesFile /\ TransientStatesEnd
    BY DEF Init, RecordingIsOn, RecorderWritesFile, TransientStatesEnd
  <2> QED
    BY <2>1, <2>2, <2>3 DEF StmInv
<1>2. TypeOK /\ StmInv /\ [Next]_vars => StmInv'
  BY StmStepKeepsStmInv, OtherThreads, AsideKeepsStmInv
<1> QED
  BY <1>1, <1>2, TypeCorrect, PTL DEF Spec

\* Camera frames reach the face detector in ST_FACE only, whatever is posted
\* by whom (my_video.c:247-350).
THEOREM FaceCorrect == Spec => []FaceFollowsState
BY StmInvariant, PTL DEF StmInv

\* A call is marked answered exactly in ST_TALK_TALKING (my_video.c:553-612).
THEOREM AnsweredCorrect == Spec => []AnsweredIsTalking
BY StmInvariant, PTL DEF StmInv

\* In ST_RECORDING the flag that lets a stop through is set
\* (my_video.c:905-909, 973-975).
THEOREM RecordingCorrect == Spec => []RecordingIsOn
BY StmInvariant, PTL DEF StmInv

\* A recorder that is fed has an encoder and an open file
\* (my_video.c:834-855, 901-987).
THEOREM RecorderCorrect == Spec => []RecorderWritesFile
BY StmInvariant, PTL DEF StmInv

\* The transient states have their way out in the queue as long as no post
\* was lost (my_video.c:345-349, 973-986).
THEOREM TransientCorrect == Spec => []TransientStatesEnd
BY StmInvariant, PTL DEF StmInv

-----------------------------------------------------------------------------
(* Calls between two parties are timed.                                    *)

\* The doorbell rings no rounds, the build decrements the count it tested, and
\* the phone resets a call to a positive time.
OneToOne ==
  /\ \A n \in Requests : n.ev # "EV_TALK_CALLOUTALL"
  /\ ~Reloads
  /\ ResetTimes \subseteq Nat \ {0}

NoRound ==
  /\ cur_state # "ST_TALK_CALLOUTALL"
  /\ ~Has(queue, "EV_TALK_CALLOUTALL")
  /\ \A d \in Dialers : dialer[d] = "none"

CountsDown ==
  /\ call_time >= 0
  /\ timer_pc = "countCall" => tested > 0

\* EV_FACE_OFF_FINISH starts the count of a call that rings; the one of a call
\* that is talked runs already, for there the event would be dropped.
Timed ==
  /\ cur_state \in {"ST_TALK_CALLOUT", "ST_TALK_CALLIN"} =>
       \/ overflowed \/ call_time > 0
       \/ Has(queue, "EV_TALK_HANGUP") \/ Has(queue, "EV_FACE_OFF_FINISH")
  /\ cur_state = "ST_TALK_TALKING" =>
       overflowed \/ call_time > 0 \/ Has(queue, "EV_TALK_HANGUP")

TimedInv == NoRound /\ CountsDown /\ Timed

\* What is in the queue after a post was there before or is what was posted.
LEMMA PostAdds ==
  ASSUME NEW q \in Seq(Messages), NEW m \in Messages, PostTo(q, m),
         NEW ev, Has(queue', ev), m.ev # ev
  PROVE  Has(q, ev)
<1>1. CASE Len(q) < QueueSize
  <2>1. queue' = Append(q, m)
    BY <1>1, Zenon DEF PostTo
  <2>2. PICK i \in DOMAIN queue' : queue'[i].ev = ev
    BY DEF Has
  <2>3. i \in DOMAIN q /\ queue'[i] = q[i]
    BY <2>1, <2>2
  <2> QED
    BY <2>2, <2>3 DEF Has
<1>2. CASE ~(Len(q) < QueueSize)
  BY <1>2, Zenon DEF PostTo
<1> QED
  BY <1>1, <1>2

LEMMA TakeAddsNothing ==
  ASSUME queue \in Seq(Messages), queue # <<>>, NEW ev, Has(Tail(queue), ev)
  PROVE  Has(queue, ev)
<1>1. PICK i \in DOMAIN Tail(queue) : Tail(queue)[i].ev = ev
  BY DEF Has
<1>2. i + 1 \in DOMAIN queue /\ queue[i + 1] = Tail(queue)[i]
  BY <1>1
<1> QED
  BY <1>1, <1>2 DEF Has

\* No handler asks for a call.
LEMMA HandlersCallNobody ==
  ASSUME NEW run, NEW q \in Seq(Messages), NEW m \in Messages, Do(run, q, m),
         NEW ev \in {"EV_TALK_CALLOUT", "EV_TALK_CALLOUTALL", "EV_TALK_CALLIN"}
  PROVE  TakenFrom(q) \/ \E n \in Messages : PostTo(q, n) /\ n.ev # ev
<1>1. /\ [m EXCEPT !.ev = "EV_FACE_OFF_FINISH"] \in Messages
      /\ [m EXCEPT !.ev = "EV_FACE_OFF_FINISH"].ev # ev
  BY DEF Messages, Events
<1>2. \A n \in {HangupMsg("BUTTON"), Msg("EV_TALK_ANSWER"),
                Msg("EV_RECORD_STOP_FINISHED")} :
        n \in Messages /\ n.ev # ev
  BY MessageTypes, MessageEvents DEF HangupTypes, Events
<1> QED
  BY <1>1, <1>2
  DEF Do, DoNothing, DoFaceOn, DoFaceOff, DoTalkCallout, DoTalkCallin,
      DoTalkAnswer, DoTalkHangup, DoTalkHangupAll, DoRecordStart, DoRecordStop

LEMMA HandlersAskNoCall ==
  ASSUME NEW run, NEW q \in Seq(Messages), NEW m \in Messages, Do(run, q, m),
         NEW ev \in {"EV_TALK_CALLOUT", "EV_TALK_CALLOUTALL", "EV_TALK_CALLIN"},
         ~Has(q, ev)
  PROVE  ~Has(queue', ev)
BY HandlersCallNobody, PostAdds DEF TakenFrom

\* What the handlers do to the count.
LEMMA TimeHandlers ==
  ASSUME NEW run, NEW q, NEW m, Do(run, q, m)
  PROVE  /\ run \in {"DO_TALK_CALLIN", "DO_TALK_ANSWER"} => call_time' > 0
         /\ run = "DO_TALK_CALLOUT"
              => call_time' > 0 \/ (PostTo(q, HangupMsg("BUTTON"))
                                    /\ UNCHANGED call_time)
         /\ run = "DO_TALK_HANGUP" => call_time' = 0
         /\ run \notin {"DO_TALK_CALLIN", "DO_TALK_ANSWER", "DO_TALK_CALLOUT",
                        "DO_TALK_HANGUP"}
              => UNCHANGED call_time
BY MyVideoAssumption
DEF MyVideoAssumption, Do, DoNothing, DoFaceOn, DoFaceOff, DoTalkCallout,
    DoTalkCallin, DoTalkAnswer, DoTalkHangup, DoTalkHangupAll, DoRecordStart,
    DoRecordStop, talk

\* Outside rounds a call is entered with its count, or over EV_FACE_OFF_FINISH.
LEMMA TimedRows ==
  ASSUME NEW r \in state_table, r.cur # "ST_TALK_CALLOUTALL"
  PROVE  /\ r.next = "ST_TALK_CALLOUTALL" => r.msg = "EV_TALK_CALLOUTALL"
         /\ r.run = "DO_TALK_CALLOUTALL" => r.msg = "EV_TALK_CALLOUTALL"
         /\ r.next \in {"ST_TALK_CALLOUT", "ST_TALK_CALLIN"} =>
              \/ r.run \in {"DO_TALK_CALLOUT", "DO_TALK_CALLIN", "DO_FACE_OFF"}
              \/ /\ r.cur = r.next
                 /\ r.msg \notin {"EV_TALK_HANGUP", "EV_FACE_OFF_FINISH"}
                 /\ r.run \notin {"DO_TALK_ANSWER", "DO_TALK_HANGUP"}
         /\ r.next = "ST_TALK_TALKING" =>
              \/ r.run = "DO_TALK_ANSWER"
              \/ /\ r.cur = r.next /\ r.msg # "EV_TALK_HANGUP"
                 /\ r.run \notin {"DO_TALK_CALLIN", "DO_TALK_CALLOUT",
                                  "DO_TALK_HANGUP"}
BY DEF state_table, Row

\* In a call no hangup is dropped, nor the end of the face mode while it rings.
LEMMA CallRows ==
  /\ Row("EV_TALK_HANGUP", "ST_TALK_CALLOUT", "ST_IDLE", "DO_TALK_HANGUP")
       \in state_table
  /\ Row("EV_TALK_HANGUP", "ST_TALK_CALLIN", "ST_IDLE", "DO_TALK_HANGUP")
       \in state_table
  /\ Row("EV_TALK_HANGUP", "ST_TALK_TALKING", "ST_IDLE", "DO_TALK_HANGUP")
       \in state_table
  /\ Row("EV_FACE_OFF_FINISH", "ST_TALK_CALLOUT", "ST_TALK_CALLOUT",
         "DO_TALK_CALLOUT") \in state_table
  /\ Row("EV_FACE_OFF_FINISH", "ST_TALK_CALLIN", "ST_TALK_CALLIN",
         "DO_TALK_CALLIN") \in state_table
BY DEF state_table

\* Another thread changes the count only to a positive one, but for the timer,
\* which asks for a hangup when it brings it to zero.
CountAside ==
  \/ UNCHANGED call_time
  \/ call_time' > 0
  \/ \E n \in Messages : Post(n) /\ n.ev = "EV_TALK_HANGUP"

LEMMA OtherCounts ==
  ASSUME TypeOK, OneToOne, NoRound, CountsDown, [Next]_vars, ~StmStep
  PROVE  CountsDown' /\ CountAside /\ UNCHANGED dialer
<1> USE DEF talk, timer, dialers
<1>1. CASE Timer
  <2>1. CASE TimerTestCall
    BY <2>1 DEF TimerTestCall, CountsDown, CountAside, TypeOK
  <2>2. CASE TimerCountCall
    <3>1. /\ tested \in Int /\ tested > 0 /\ timer_pc' = "record"
          /\ UNCHANGED dialer
      BY <2>2 DEF TimerCountCall, CountsDown, TypeOK
    <3>2. PICK count \in Loaded(call_time) :
            /\ call_time' = Down(count)
            /\ IF Down(count) = 0
               THEN Post(HangupMsg(IF answered = 1 THEN "OVERTIME_ANSWER"
                                   ELSE "OVERTIME_UNANSWER"))
               ELSE UNCHANGED stm
      BY <2>2 DEF TimerCountCall
    <3>3. count = tested
      BY <3>2, Zenon DEF Loaded, OneToOne
    <3>4. call_time' = tested - 1
      BY <3>1, <3>2, <3>3 DEF Down
    <3>5. CASE tested = 1
      <4>1. \E type \in HangupTypes : Post(HangupMsg(type))
        BY <3>2, <3>3, <3>5 DEF Down, HangupTypes
      <4>2. CountAside
        BY <4>1, MessageTypes, MessageEvents DEF CountAside
      <4> QED
        BY <3>1, <3>4, <3>5, <4>2 DEF CountsDown
    <3>6. CASE tested # 1
      BY <3>1, <3>4, <3>6 DEF CountsDown, CountAside
    <3> QED
      BY <3>5, <3>6
  <2>3. CASE TimerTestRecord
    BY <2>3 DEF TimerTestRecord, CountsDown, CountAside
  <2>4. CASE TimerCountRecord
    BY <2>4 DEF TimerCountRecord, CountsDown, CountAside
  <2> QED
    BY <1>1, <2>1, <2>2, <2>3, <2>4 DEF Timer
<1>2. ASSUME NEW d \in Dialers, Dialer(d)
      PROVE  FALSE
  BY <1>2
  DEF NoRound, Dialer, DialerAt, DialerHangup, DialerGivesUp, DialerPost,
      DialerClear, DialerNextUser, DialerSuccess, DialerFinish
<1>3. CASE UcsDue
  BY <1>3 DEF UcsDue, UcsFailPost, UcsOkPost, UcsEncOn, UcsIncomingEnd,
              UcsOwnHangup, CountsDown, CountAside
<1>4. CASE UcsMay
  <2>1. CASE UcsDialFailed \/ UcsAlerting \/ UcsAnswered \/ UcsPeerHangup
             \/ UcsCallLost \/ UcsConnection
    BY <2>1 DEF UcsDialFailed, UcsAlerting, UcsAnswered, UcsPeerHangup,
                UcsCallLost, UcsConnection, CountsDown, CountAside
  <2>2. ASSUME NEW u \in Callers, UcsIncoming(u)
        PROVE  CountsDown' /\ CountAside /\ UNCHANGED dialer
    BY <2>2 DEF UcsIncoming, CountsDown, CountAside
  <2>3. ASSUME NEW t \in ResetTimes, ResetCallTime(t)
        PROVE  CountsDown' /\ CountAside /\ UNCHANGED dialer
    <3>1. t \in Nat /\ t > 0
      BY <2>3 DEF OneToOne
    <3> QED
      BY <2>3, <3>1 DEF ResetCallTime, CountsDown, CountAside
  <2> QED
    BY <1>4, <2>1, <2>2, <2>3 DEF UcsMay
<1>5. CASE Ui \/ UiClear \/ KeyFrame
  BY <1>5 DEF Ui, Request, UiCallOut, Display, UiClear, ForgetResult, KeyFrame,
              CountsDown, CountAside
<1>6. CASE UNCHANGED vars
  BY <1>6 DEF vars, CountsDown, CountAside
<1> QED
  BY <1>1, <1>2, <1>3, <1>4, <1>5, <1>6 DEF Next

LEMMA AsideKeepsTimedInv ==
  ASSUME TypeOK, OneToOne, TimedInv, [Next]_vars, ~StmStep
  PROVE  TimedInv'
<1>1. Aside /\ CountsDown' /\ CountAside /\ UNCHANGED dialer
  BY OtherThreads, OtherCounts DEF TimedInv
<1>2. UNCHANGED cur_state
  BY <1>1 DEF Aside
<1>3. /\ queue \in Seq(Messages)
      /\ \A n : Post(n) <=> PostTo(queue, n) /\ UNCHANGED cur_state
  BY DEF Post, TypeOK
<1>4. ~Has(queue', "EV_TALK_CALLOUTALL")
  <2>1. CASE UNCHANGED stm
    BY <2>1 DEF TimedInv, NoRound, stm
  <2>2. ASSUME NEW n \in Messages, Post(n), n.ev # "EV_TALK_CALLOUTALL"
        PROVE  ~Has(queue', "EV_TALK_CALLOUTALL")
    BY <1>3, <2>2, PostAdds DEF TimedInv, NoRound
  <2> QED
    BY <1>1, <2>1, <2>2, Zenon DEF Aside, OneToOne
<1>5. NoRound'
  BY <1>1, <1>2, <1>4, Zenon DEF TimedInv, NoRound
<1>6. /\ \A ev : Has(queue, ev) => Has(queue', ev)
      /\ overflowed => overflowed'
  BY <1>1, <1>3, PostKeeps DEF Aside, stm
<1>7. \/ UNCHANGED call_time \/ call_time' > 0
      \/ overflowed' \/ Has(queue', "EV_TALK_HANGUP")
  BY <1>1, <1>3, PostKeeps DEF CountAside
<1>8. Timed'
  <2>1. CASE UNCHANGED call_time
    BY <1>2, <1>6, <2>1, Zenon DEF TimedInv, Timed
  <2>2. CASE call_time' > 0 \/ overflowed' \/ Has(queue', "EV_TALK_HANGUP")
    BY <2>2, Zenon DEF Timed
  <2> QED
    BY <1>7, <2>1, <2>2
<1> QED
  BY <1>1, <1>5, <1>8 DEF TimedInv

LEMMA StmStepKeepsTimedInv ==
  ASSUME TypeOK, TypeOK', TimedInv, StmStep
  PROVE  TimedInv'
<1> DEFINE m == Head(queue)
           q == Tail(queue)
<1>1. m \in Messages /\ q \in Seq(Messages) /\ queue \in Seq(Messages)
      /\ queue # <<>>
  BY TakenTypes DEF StmStep, TypeOK
<1>2. m.ev # "EV_TALK_CALLOUTALL"
  <2>1. 1 \in DOMAIN queue /\ queue[1] = m
    BY <1>1
  <2> QED
    BY <2>1 DEF TimedInv, NoRound, Has
<1>3. ASSUME NEW ev, Has(queue, ev), m.ev # ev
      PROVE  Has(q, ev)
  BY <1>1, <1>3, TakeKeeps
<1>4. ~Has(q, "EV_TALK_CALLOUTALL")
  BY <1>1, TakeAddsNothing DEF TimedInv, NoRound
<1>5. UNCHANGED <<timer_pc, tested>>
  BY DEF StmStep, timer
<1> HIDE DEF m, q
<1>6. ASSUME RowsFor(m.ev) = {}, DoNothing(q), UNCHANGED <<cur_state, dialers>>
      PROVE  TimedInv'
  <2>1. queue' = q /\ UNCHANGED <<overflowed, call_time, cur_state, dialer>>
    BY <1>6 DEF DoNothing, TakenFrom, talk, dialers
  <2>2. /\ cur_state \in {"ST_TALK_CALLOUT", "ST_TALK_CALLIN"} =>
             m.ev \notin {"EV_TALK_HANGUP", "EV_FACE_OFF_FINISH"}
        /\ cur_state = "ST_TALK_TALKING" => m.ev # "EV_TALK_HANGUP"
    BY <1>6, CallRows DEF RowsFor, Row
  <2>3. Timed'
    BY <1>3, <2>1, <2>2, Zenon DEF TimedInv, Timed
  <2>4. NoRound'
    BY <1>4, <2>1, Zenon DEF TimedInv, NoRound
  <2>5. CountsDown'
    BY <1>5, <2>1 DEF TimedInv, CountsDown
  <2> QED
    BY <2>3, <2>4, <2>5 DEF TimedInv
<1>7. ASSUME NEW r \in RowsFor(m.ev), cur_state' = r.next, Do(r.run, q, m),
             UNCHANGED dialers
      PROVE  TimedInv'
  <2>1. r \in state_table /\ r.cur = cur_state /\ r.msg = m.ev
    BY DEF RowsFor
  <2>2. r.cur # "ST_TALK_CALLOUTALL"
    BY <2>1 DEF TimedInv, NoRound
  <2>3. NoRound'
    <3>1. ~Has(queue', "EV_TALK_CALLOUTALL")
      BY <1>1, <1>4, <1>7, HandlersAskNoCall
    <3>2. cur_state' # "ST_TALK_CALLOUTALL"
      BY <1>2, <1>7, <2>1, <2>2, TimedRows
    <3>3. UNCHANGED dialer
      BY <1>7 DEF dialers
    <3> QED
      BY <3>1, <3>2, <3>3, Zenon DEF TimedInv, NoRound
  <2>4. CountsDown'
    <3>1. call_time' > 0 \/ UNCHANGED call_time \/ call_time' = 0
      BY <1>7, TimeHandlers, Zenon
    <3> QED
      BY <1>5, <3>1 DEF TimedInv, CountsDown, TypeOK
  <2>5. /\ \A ev : Has(q, ev) => Has(queue', ev)
        /\ overflowed => overflowed'
    BY <1>1, <1>7, HandlersKeep
  <2>6. r.run = "DO_FACE_OFF" /\ ~overflowed'
          => Has(queue', "EV_FACE_OFF_FINISH")
    BY <1>1, <1>7, HandlersPost
  <2>7. r.run = "DO_TALK_CALLOUT" =>
          \/ call_time' > 0 \/ overflowed' \/ Has(queue', "EV_TALK_HANGUP")
    BY <1>1, <1>7, TimeHandlers, PostKeeps, MessageTypes, MessageEvents
    DEF HangupTypes
  <2>8. r.run \in {"DO_TALK_CALLIN", "DO_TALK_ANSWER"} => call_time' > 0
    BY <1>7, TimeHandlers
  <2>9. ASSUME r.run \notin {"DO_TALK_CALLIN", "DO_TALK_ANSWER",
                             "DO_TALK_CALLOUT", "DO_TALK_HANGUP"}
        PROVE  UNCHANGED call_time
    BY <1>7, <2>9, TimeHandlers
  <2>10. ASSUME cur_state' \in {"ST_TALK_CALLOUT", "ST_TALK_CALLIN"}
         PROVE  \/ overflowed' \/ call_time' > 0
                \/ Has(queue', "EV_TALK_HANGUP")
                \/ Has(queue', "EV_FACE_OFF_FINISH")
    <3>1. CASE r.run \in {"DO_TALK_CALLOUT", "DO_TALK_CALLIN", "DO_FACE_OFF"}
      BY <2>6, <2>7, <2>8, <3>1
    <3>2. CASE /\ r.cur = r.next
               /\ r.msg \notin {"EV_TALK_HANGUP", "EV_FACE_OFF_FINISH"}
               /\ r.run \notin {"DO_TALK_ANSWER", "DO_TALK_HANGUP",
                                "DO_TALK_CALLOUT", "DO_TALK_CALLIN"}
      <4>1. UNCHANGED <<cur_state, call_time>>
        BY <1>7, <2>1, <2>9, <3>2
      <4> QED
        BY <1>3, <2>1, <2>5, <2>10, <3>2, <4>1, Zenon DEF TimedInv, Timed
    <3> QED
      BY <1>7, <2>1, <2>2, <2>10, <3>1, <3>2, TimedRows
  <2>11. ASSUME cur_state' = "ST_TALK_TALKING"
         PROVE  overflowed' \/ call_time' > 0 \/ Has(queue', "EV_TALK_HANGUP")
    <3>1. CASE r.run = "DO_TALK_ANSWER"
      BY <2>8, <3>1
    <3>2. CASE /\ r.cur = r.next
               /\ r.msg # "EV_TALK_HANGUP"
               /\ r.run \notin {"DO_TALK_ANSWER", "DO_TALK_HANGUP",
                                "DO_TALK_CALLOUT", "DO_TALK_CALLIN"}
      <4>1. UNCHANGED <<cur_state, call_time>>
        BY <1>7, <2>1, <2>9, <3>2
      <4> QED
        BY <1>3, <2>1, <2>5, <2>11, <3>2, <4>1, Zenon DEF TimedInv, Timed
    <3> QED
      BY <1>7, <2>1, <2>2, <2>11, <3>1, <3>2, TimedRows
  <2>12. Timed'
    BY <2>10, <2>11, Zenon DEF Timed
  <2> QED
    BY <2>3, <2>4, <2>12 DEF TimedInv
<1>8. ASSUME NEW r \in RowsFor(m.ev), r.run = "DO_TALK_CALLOUTALL"
      PROVE  FALSE
  <2>1. r \in state_table /\ r.msg # "EV_TALK_CALLOUTALL"
        /\ r.cur # "ST_TALK_CALLOUTALL"
    BY <1>2 DEF RowsFor, TimedInv, NoRound
  <2> QED
    BY <1>8, <2>1, TimedRows
<1> QED
  BY <1>6, <1>7, <1>8 DEF StmStep, m, q

\* A call between two parties that rings or is talked has its count running, or
\* the event that ends it or starts its count is on its way, whatever the
\* phone, the timer and the user interface do meanwhile (my_video.c:441, 542,
\* 571, 609, 1257-1268).
THEOREM CallsTimed == ASSUME OneToOne PROVE Spec => []CallsAreTimed
<1>1. Init => TimedInv
  <2> SUFFICES ASSUME Init
               PROVE  TimedInv
    OBVIOUS
  <2>1. NoRound /\ CountsDown
    BY DEF Init, NoRound, CountsDown, Has
  <2>2. Timed
    BY DEF Init, Timed
  <2> QED
    BY <2>1, <2>2 DEF TimedInv
<1>2. TypeOK /\ TypeOK' /\ TimedInv /\ [Next]_vars => TimedInv'
  BY StmStepKeepsTimedInv, AsideKeepsTimedInv
<1>3. TimedInv => CallsAreTimed
  <2> SUFFICES ASSUME TimedInv
               PROVE  CallsAreTimed
    OBVIOUS
  <2>1. cur_state \in CallStates \ {"ST_TALK_CALLOUTALL"} =>
          cur_state \in {"ST_TALK_CALLOUT", "ST_TALK_CALLIN"}
          \/ cur_state = "ST_TALK_TALKING"
    BY DEF CallStates
  <2> QED
    BY <2>1, Zenon DEF TimedInv, Timed, CallsAreTimed, Queued, Has
<1> QED
  BY <1>1, <1>2, <1>3, TypeCorrect, PTL DEF Spec

-----------------------------------------------------------------------------
(* Recordings are timed.                                                   *)

\* The states a recording runs in: each has a row for EV_RECORD_STOP.
Recordable == {"ST_RECORDING", "ST_TALK_CALLIN", "ST_TALK_CALLOUT",
               "ST_TALK_TALKING"}

RecCountsDown ==
  /\ record_time >= 0
  /\ timer_pc = "countRecord" => tested > 0

RecTimed ==
  start_record =>
    /\ cur_state \in Recordable
    /\ overflowed \/ record_time > 0 \/ Has(queue, "EV_RECORD_STOP")

RecInv == RecCountsDown /\ RecTimed

\* A recording is stopped where it runs, started only there, and the rows that
\* leave those states stop it or turn the encoder off.
LEMMA RecRows ==
  ASSUME NEW r \in state_table
  PROVE  /\ r.cur \in Recordable /\ r.msg = "EV_RECORD_STOP"
              => r.run = "DO_RECORD_STOP"
         /\ r.run = "DO_RECORD_START" => r.next \in Recordable
         /\ r.cur \in Recordable /\ r.next \notin Recordable
              => r.run \in {"DO_RECORD_STOP", "DO_TALK_HANGUP"}
BY DEF state_table, Row, Recordable

LEMMA RecStops ==
  ASSUME NEW cur \in Recordable
  PROVE  \E r \in state_table : r.msg = "EV_RECORD_STOP" /\ r.cur = cur
<1>1. /\ Row("EV_RECORD_STOP", "ST_RECORDING", "ST_RECORD_STOPPING",
             "DO_RECORD_STOP") \in state_table
      /\ Row("EV_RECORD_STOP", "ST_TALK_CALLIN", "ST_TALK_CALLIN",
             "DO_RECORD_STOP") \in state_table
      /\ Row("EV_RECORD_STOP", "ST_TALK_CALLOUT", "ST_TALK_CALLOUT",
             "DO_RECORD_STOP") \in state_table
      /\ Row("EV_RECORD_STOP", "ST_TALK_TALKING", "ST_TALK_TALKING",
             "DO_RECORD_STOP") \in state_table
  BY DEF state_table
<1> QED
  BY <1>1 DEF Row, Recordable

\* What the handlers do to the recorder and its count.
LEMMA RecHandlers ==
  ASSUME NEW run, NEW q, NEW m, Do(run, q, m), RecorderWritesFile
  PROVE  /\ run = "DO_RECORD_START" =>
              record_time' > 0 \/ UNCHANGED <<start_record, record_time>>
         /\ run \in {"DO_RECORD_STOP", "DO_TALK_HANGUP"} =>
              /\ start_record' = FALSE
              /\ record_time' = 0 \/ UNCHANGED record_time
         /\ run \notin {"DO_RECORD_START", "DO_RECORD_STOP", "DO_TALK_HANGUP"}
              => UNCHANGED <<start_record, record_time>>
BY MyVideoAssumption
DEF MyVideoAssumption, Do, DoNothing, DoFaceOn, DoFaceOff, DoTalkCallout,
    DoTalkCallin, DoTalkAnswer, DoTalkHangup, DoTalkHangupAll, DoRecordStart,
    DoRecordStop, recorder, EncOff, RecorderStopped, RecorderWritesFile

\* Another thread leaves the count alone, but for the timer, which asks for a
\* stop when it brings it to zero.
RecAside ==
  \/ UNCHANGED record_time
  \/ record_time' > 0
  \/ \E n \in Messages : Post(n) /\ n.ev = "EV_RECORD_STOP"

LEMMA OtherRecCounts ==
  ASSUME TypeOK, ~Reloads, RecCountsDown, [Next]_vars, ~StmStep
  PROVE  RecCountsDown' /\ RecAside
<1> USE DEF recorder, timer
<1>1. CASE Timer
  <2>1. CASE TimerTestRecord
    BY <2>1 DEF TimerTestRecord, RecCountsDown, RecAside, TypeOK
  <2>2. CASE TimerCountRecord
    <3>1. tested \in Int /\ tested > 0 /\ timer_pc' = "call"
      BY <2>2 DEF TimerCountRecord, RecCountsDown, TypeOK
    <3>2. PICK count \in Loaded(record_time) :
            /\ record_time' = Down(count)
            /\ IF Down(count) = 0 THEN Post(Msg("EV_RECORD_STOP"))
               ELSE UNCHANGED stm
      BY <2>2 DEF TimerCountRecord
    <3>3. count = tested
      BY <3>2, Zenon DEF Loaded
    <3>4. record_time' = tested - 1
      BY <3>1, <3>2, <3>3 DEF Down
    <3>5. CASE tested = 1
      <4>1. Post(Msg("EV_RECORD_STOP"))
        BY <3>2, <3>3, <3>5 DEF Down
      <4>2. RecAside
        BY <4>1, MessageTypes, MessageEvents DEF RecAside, Events
      <4> QED
        BY <3>1, <3>4, <3>5, <4>2 DEF RecCountsDown
    <3>6. CASE tested # 1
      BY <3>1, <3>4, <3>6 DEF RecCountsDown, RecAside
    <3> QED
      BY <3>5, <3>6
  <2>3. CASE TimerTestCall
    BY <2>3 DEF TimerTestCall, RecCountsDown, RecAside
  <2>4. CASE TimerCountCall
    BY <2>4 DEF TimerCountCall, RecCountsDown, RecAside
  <2> QED
    BY <1>1, <2>1, <2>2, <2>3, <2>4 DEF Timer
<1>2. ASSUME NEW d \in Dialers, Dialer(d)
      PROVE  RecCountsDown' /\ RecAside
  BY <1>2
  DEF Dialer, DialerHangup, DialerGivesUp, DialerPost, DialerClear,
      DialerNextUser, DialerSuccess, DialerFinish, RecCountsDown, RecAside
<1>3. CASE UcsDue
  BY <1>3 DEF UcsDue, UcsFailPost, UcsOkPost, UcsEncOn, UcsIncomingEnd,
              UcsOwnHangup, RecCountsDown, RecAside
<1>4. CASE UcsMay
  <2>1. CASE UcsDialFailed \/ UcsAlerting \/ UcsAnswered \/ UcsPeerHangup
             \/ UcsCallLost \/ UcsConnection
    BY <2>1 DEF UcsDialFailed, UcsAlerting, UcsAnswered, UcsPeerHangup,
                UcsCallLost, UcsConnection, RecCountsDown, RecAside
  <2>2. ASSUME NEW u \in Callers, UcsIncoming(u)
        PROVE  RecCountsDown' /\ RecAside
    BY <2>2 DEF UcsIncoming, RecCountsDown, RecAside
  <2>3. ASSUME NEW t \in ResetTimes, ResetCallTime(t)
        PROVE  RecCountsDown' /\ RecAside
    BY <2>3 DEF ResetCallTime, RecCountsDown, RecAside
  <2> QED
    BY <1>4, <2>1, <2>2, <2>3 DEF UcsMay
<1>5. CASE Ui \/ UiClear \/ KeyFrame
  BY <1>5 DEF Ui, Request, UiCallOut, Display, UiClear, KeyFrame,
              RecCountsDown, RecAside
<1>6. CASE UNCHANGED vars
  BY <1>6 DEF vars, RecCountsDown, RecAside
<1> QED
  BY <1>1, <1>2, <1>3, <1>4, <1>5, <1>6 DEF Next

LEMMA AsideKeepsRecInv ==
  ASSUME TypeOK, ~Reloads, RecInv, [Next]_vars, ~StmStep
  PROVE  RecInv'
<1>1. Aside /\ RecCountsDown' /\ RecAside
  BY OtherThreads, OtherRecCounts DEF RecInv
<1>2. UNCHANGED <<cur_state, start_record>>
  BY <1>1 DEF Aside
<1>3. /\ queue \in Seq(Messages)
      /\ \A n : Post(n) <=> PostTo(queue, n) /\ UNCHANGED cur_state
  BY DEF Post, TypeOK
<1>4. /\ \A ev : Has(queue, ev) => Has(queue', ev)
      /\ overflowed => overflowed'
  BY <1>1, <1>3, PostKeeps DEF Aside, stm
<1>5. \/ UNCHANGED record_time \/ record_time' > 0
      \/ overflowed' \/ Has(queue', "EV_RECORD_STOP")
  BY <1>1, <1>3, PostKeeps DEF RecAside
<1>6. RecTimed'
  <2>1. CASE UNCHANGED record_time
    BY <1>2, <1>4, <2>1, Zenon DEF RecInv, RecTimed
  <2>2. CASE record_time' > 0 \/ overflowed' \/ Has(queue', "EV_RECORD_STOP")
    BY <1>2, <2>2, Zenon DEF RecInv, RecTimed, Recordable
  <2> QED
    BY <1>5, <2>1, <2>2
<1> QED
  BY <1>1, <1>6 DEF RecInv

LEMMA StmStepKeepsRecInv ==
  ASSUME TypeOK, TypeOK', RecorderWritesFile, RecInv, StmStep
  PROVE  RecInv'
<1> DEFINE m == Head(queue)
           q == Tail(queue)
<1>1. m \in Messages /\ q \in Seq(Messages) /\ queue \in Seq(Messages)
      /\ queue # <<>>
  BY TakenTypes DEF StmStep, TypeOK
<1>2. m.ev # "EV_RECORD_STOP" /\ Has(queue, "EV_RECORD_STOP")
        => Has(q, "EV_RECORD_STOP")
  BY <1>1, TakeKeeps
<1>3. UNCHANGED <<timer_pc, tested>>
  BY DEF StmStep, timer
<1> HIDE DEF m, q
<1>4. ASSUME RowsFor(m.ev) = {}, DoNothing(q), UNCHANGED <<cur_state, dialers>>
      PROVE  RecInv'
  <2>1. queue' = q /\ UNCHANGED <<overflowed, record_time, start_record, cur_state>>
    BY <1>4 DEF DoNothing, TakenFrom, recorder
  <2>2. start_record => m.ev # "EV_RECORD_STOP"
    BY <1>4, RecStops DEF RowsFor, RecInv, RecTimed
  <2>3. RecTimed'
    BY <1>2, <2>1, <2>2, Zenon DEF RecInv, RecTimed
  <2>4. RecCountsDown'
    BY <1>3, <2>1 DEF RecInv, RecCountsDown
  <2> QED
    BY <2>3, <2>4 DEF RecInv
<1>5. ASSUME NEW r \in RowsFor(m.ev), cur_state' = r.next,
             \/ Do(r.run, q, m)
             \/ r.run = "DO_TALK_CALLOUTALL" /\ DoTalkCalloutAll(q)
      PROVE  RecInv'
  <2>1. r \in state_table /\ r.cur = cur_state /\ r.msg = m.ev
    BY DEF RowsFor
  <2>2. /\ r.run = "DO_RECORD_START" =>
             record_time' > 0 \/ UNCHANGED <<start_record, record_time>>
        /\ r.run \in {"DO_RECORD_STOP", "DO_TALK_HANGUP"} =>
             /\ start_record' = FALSE
             /\ record_time' = 0 \/ UNCHANGED record_time
        /\ r.run \notin {"DO_RECORD_START", "DO_RECORD_STOP", "DO_TALK_HANGUP"}
             => UNCHANGED <<start_record, record_time>>
    <3>1. CASE Do(r.run, q, m)
      BY <3>1, RecHandlers
    <3>2. CASE r.run = "DO_TALK_CALLOUTALL" /\ DoTalkCalloutAll(q)
      BY <3>2 DEF DoTalkCalloutAll, recorder
    <3> QED
      BY <1>5, <3>1, <3>2
  <2>3. /\ Has(q, "EV_RECORD_STOP") => Has(queue', "EV_RECORD_STOP")
        /\ overflowed => overflowed'
    <3>1. CASE Do(r.run, q, m)
      BY <1>1, <3>1, HandlersKeep
    <3>2. CASE DoTalkCalloutAll(q)
      BY <3>2 DEF DoTalkCalloutAll, TakenFrom
    <3> QED
      BY <1>5, <3>1, <3>2
  <2>4. RecCountsDown'
    <3>1. record_time' > 0 \/ record_time' = 0 \/ UNCHANGED record_time
      BY <2>2, Zenon
    <3> QED
      BY <1>3, <3>1 DEF RecInv, RecCountsDown, TypeOK
  <2>5. ASSUME start_record'
        PROVE  /\ cur_state' \in Recordable
               /\ overflowed' \/ record_time' > 0
                  \/ Has(queue', "EV_RECORD_STOP")
    <3>1. r.run \notin {"DO_RECORD_STOP", "DO_TALK_HANGUP"}
      BY <2>2, <2>5
    <3>2. CASE r.run = "DO_RECORD_START" /\ record_time' > 0
      BY <1>5, <2>1, <3>2, RecRows
    <3>3. CASE UNCHANGED <<start_record, record_time>>
      <4>1. /\ cur_state \in Recordable
            /\ overflowed \/ record_time > 0 \/ Has(queue, "EV_RECORD_STOP")
        BY <2>5, <3>3 DEF RecInv, RecTimed
      <4>2. cur_state' \in Recordable /\ m.ev # "EV_RECORD_STOP"
        BY <1>5, <2>1, <3>1, <4>1, RecRows
      <4> QED
        BY <1>2, <2>3, <3>3, <4>1, <4>2
    <3> QED
      BY <2>2, <3>1, <3>2, <3>3
  <2> QED
    BY <2>4, <2>5 DEF RecInv, RecTimed
<1> QED
  BY <1>4, <1>5 DEF StmStep, m, q

\* A recording, of the local camera or of a call, has its count running or the
\* event that stops it on its way, and runs in no state that would drop that
\* event: a hangup, a stop by hand and a stale count of the recording before
\* leave none behind that nothing stops (my_video.c:901-987, 1270-1276).  The
\* build decrements the count it tested.
THEOREM RecordingsTimed == ASSUME ~Reloads PROVE Spec => []RecordingsAreTimed
<1>1. Init => RecInv
  BY DEF Init, RecInv, RecCountsDown, RecTimed
<1>2. TypeOK /\ TypeOK' /\ StmInv /\ RecInv /\ [Next]_vars => RecInv'
  BY StmStepKeepsRecInv, AsideKeepsRecInv DEF StmInv
<1>3. RecInv => RecordingsAreTimed
  BY Zenon DEF RecInv, RecTimed, RecordingsAreTimed, Queued, Has
<1> QED
  BY <1>1, <1>2, <1>3, StmInvariant, PTL DEF Spec

-----------------------------------------------------------------------------
(* A round of the doorbell is somebody's work.                             *)

\* A dialler whose next turn does not end it without a word: not one that waits
\* and finds a success, which may be left from an earlier round.
Dialling ==
  \E d \in Dialers :
    \/ dialer[d] \in {"next", "post", "clear"}
    \/ dialer[d] = "wait" /\ call_out_result # "SUCCESS"

DialledInv ==
  cur_state = "ST_TALK_CALLOUTALL" =>
    \/ overflowed \/ Dialling \/ ucs_pc = "ok"
    \/ Has(queue, "EV_FACE_OFF_FINISH") \/ Has(queue, "EV_TALK_HANGUPALL")
    \/ Has(queue, "EV_TALK_CALLOUTOK")

\* The three events that wait in a round have a row there, and only the one
\* that starts a dialler stays in the round.
LEMMA RoundWayOut ==
  /\ Row("EV_FACE_OFF_FINISH", "ST_TALK_CALLOUTALL", "ST_TALK_CALLOUTALL",
         "DO_TALK_CALLOUTALL") \in state_table
  /\ Row("EV_TALK_HANGUPALL", "ST_TALK_CALLOUTALL", "ST_IDLE",
         "DO_TALK_HANGUP") \in state_table
  /\ Row("EV_TALK_CALLOUTOK", "ST_TALK_CALLOUTALL", "ST_TALK_CALLOUT",
         "DO_NOTHING") \in state_table
BY DEF state_table

LEMMA RoundRows ==
  ASSUME NEW r \in state_table, r.next = "ST_TALK_CALLOUTALL"
  PROVE  \/ r.run \in {"DO_FACE_OFF", "DO_TALK_CALLOUTALL"}
         \/ /\ r.cur = r.next
            /\ r.msg \notin {"EV_FACE_OFF_FINISH", "EV_TALK_HANGUPALL",
                             "EV_TALK_CALLOUTOK"}
BY DEF state_table, Row

\* A handler forgets a result at most, and is no part of a callback.
LEMMA ResultHandlers ==
  ASSUME NEW run, NEW q, NEW m, Do(run, q, m)
  PROVE  call_out_result' \in {call_out_result, "NO"} /\ UNCHANGED ucs_pc
BY DEF Do, DoNothing, DoFaceOn, DoFaceOff, DoTalkCallout, DoTalkCallin,
       DoTalkAnswer, DoTalkHangup, DoTalkHangupAll, DoRecordStart,
       DoRecordStop, talk, ucs

\* Diallers and callbacks hand the round on among themselves.
LEMMA OthersDial ==
  ASSUME TypeOK, [Next]_vars, ~StmStep
  PROVE  /\ Dialling => \/ Dialling' \/ ucs_pc' = "ok"
                        \/ Post(Msg("EV_TALK_HANGUPALL"))
         /\ ucs_pc = "ok" => ucs_pc' = "ok" \/ Post(Msg("EV_TALK_CALLOUTOK"))
<1> DEFINE Goal ==
         /\ Dialling => \/ Dialling' \/ ucs_pc' = "ok"
                        \/ Post(Msg("EV_TALK_HANGUPALL"))
         /\ ucs_pc = "ok" => ucs_pc' = "ok" \/ Post(Msg("EV_TALK_CALLOUTOK"))
<1>1. ASSUME UNCHANGED dialer, call_out_result' \in {call_out_result, "NO", "FAIL"}
      PROVE  Dialling => Dialling'
  BY <1>1 DEF Dialling
<1>2. CASE Timer
  BY <1>1, <1>2
  DEF Timer, TimerTestCall, TimerCountCall, TimerTestRecord, TimerCountRecord,
      dialers, talk, ucs
<1>3. ASSUME NEW d \in Dialers, Dialer(d)
      PROVE  Goal
  <2>1. dialer \in [Dialers -> DialerLabels]
    BY DEF TypeOK
  <2>2. UNCHANGED ucs_pc
    BY <1>3 DEF Dialer, DialerHangup, DialerGivesUp, DialerPost, DialerClear,
                DialerNextUser, DialerSuccess, DialerFinish, ucs
  <2>3. ASSUME NEW from, NEW to, DialerAt(d, from, to),
               \/ to \in {"next", "post", "clear"}
               \/ to = "wait" /\ call_out_result' = "NO"
        PROVE  Dialling'
    BY <2>1, <2>3 DEF DialerAt, Dialling
  <2>4. CASE DialerHangup(d) \/ DialerPost(d) \/ DialerClear(d)
             \/ DialerNextUser(d)
    BY <2>2, <2>3, <2>4
    DEF DialerHangup, DialerPost, DialerClear, DialerNextUser, ForgetResult
  <2>5. CASE DialerGivesUp(d)
    BY <1>1, <2>2, <2>5 DEF DialerGivesUp, talk
  <2>6. CASE DialerSuccess(d)
    <3>1. /\ dialer[d] = "wait" /\ call_out_result = "SUCCESS"
          /\ dialer' = [dialer EXCEPT ![d] = "none"] /\ call_out_result' = "NO"
      BY <2>6 DEF DialerSuccess, DialerAt, ForgetResult
    <3>2. ASSUME Dialling
          PROVE  Dialling'
      <4>1. PICK e \in Dialers : dialer[e] \in {"next", "post", "clear"}
        BY <3>1, <3>2 DEF Dialling
      <4>2. e # d /\ dialer'[e] = dialer[e]
        BY <2>1, <3>1, <4>1
      <4> QED
        BY <4>1, <4>2 DEF Dialling
    <3> QED
      BY <2>2, <3>2
  <2>7. CASE DialerFinish(d)
    BY <2>2, <2>7 DEF DialerFinish
  <2> QED
    BY <1>3, <2>4, <2>5, <2>6, <2>7 DEF Dialer
<1>4. CASE UcsDue
  BY <1>1, <1>4
  DEF UcsDue, UcsFailPost, UcsOkPost, UcsEncOn, UcsIncomingEnd, UcsOwnHangup,
      dialers, talk
<1>5. CASE UcsMay
  <2>1. CASE UcsAlerting
    BY <1>1, <2>1 DEF UcsAlerting, Callback, dialers
  <2>2. CASE UcsDialFailed \/ UcsAnswered \/ UcsPeerHangup \/ UcsCallLost
             \/ UcsConnection
    BY <1>1, <2>2
    DEF UcsDialFailed, UcsAnswered, UcsPeerHangup, UcsCallLost, UcsConnection,
        Callback, dialers, talk
  <2>3. ASSUME NEW u \in Callers, UcsIncoming(u)
        PROVE  Goal
    BY <1>1, <2>3 DEF UcsIncoming, Callback, dialers, talk
  <2>4. ASSUME NEW t \in ResetTimes, ResetCallTime(t)
        PROVE  Goal
    BY <1>1, <2>4 DEF ResetCallTime, dialers, ucs
  <2> QED
    BY <1>5, <2>1, <2>2, <2>3, <2>4 DEF UcsMay
<1>6. CASE Ui \/ UiClear \/ KeyFrame
  BY <1>1, <1>6
  DEF Ui, Request, UiCallOut, Display, UiClear, ForgetResult, KeyFrame, dialers,
      talk, ucs
<1>7. CASE UNCHANGED vars
  BY <1>1, <1>7 DEF vars, dialers, talk, ucs
<1> QED
  BY <1>2, <1>3, <1>4, <1>5, <1>6, <1>7 DEF Next

LEMMA AsideKeepsDialledInv ==
  ASSUME TypeOK, DialledInv, [Next]_vars, ~StmStep
  PROVE  DialledInv'
<1>1. Aside
  BY OtherThreads
<1>2. \A n \in Messages : Post(n) =>
        /\ \A ev : Has(queue, ev) => Has(queue', ev)
        /\ overflowed => overflowed'
        /\ ~overflowed' => Has(queue', n.ev)
  BY PostKeeps DEF Post, TypeOK
<1>3. UNCHANGED cur_state
      /\ (\A ev : Has(queue, ev) => Has(queue', ev))
      /\ (overflowed => overflowed')
  BY <1>1, <1>2 DEF Aside, stm
<1>4. ASSUME NEW ev \in Events, Post(Msg(ev))
      PROVE  overflowed' \/ Has(queue', ev)
  BY <1>2, <1>4, MessageTypes, MessageEvents
<1>5. Dialling => Dialling' \/ ucs_pc' = "ok" \/ overflowed'
                  \/ Has(queue', "EV_TALK_HANGUPALL")
  BY <1>4, OthersDial DEF Events
<1>6. ucs_pc = "ok" => ucs_pc' = "ok" \/ overflowed'
                       \/ Has(queue', "EV_TALK_CALLOUTOK")
  BY <1>4, OthersDial DEF Events
<1> QED
  BY <1>3, <1>5, <1>6, Zenon DEF DialledInv

LEMMA StmStepKeepsDialledInv ==
  ASSUME TypeOK, DialledInv, StmStep
  PROVE  DialledInv'
<1> DEFINE m == Head(queue)
           q == Tail(queue)
<1>1. m \in Messages /\ q \in Seq(Messages) /\ queue \in Seq(Messages)
      /\ queue # <<>>
  BY TakenTypes DEF StmStep, TypeOK
<1>2. ASSUME NEW ev, Has(queue, ev), m.ev # ev
      PROVE  Has(q, ev)
  BY <1>1, <1>2, TakeKeeps
<1> HIDE DEF m, q
<1>3. ASSUME UNCHANGED dialers, call_out_result' \in {call_out_result, "NO"}
      PROVE  Dialling => Dialling'
  BY <1>3 DEF Dialling, dialers
<1>4. ASSUME m.ev \notin {"EV_FACE_OFF_FINISH", "EV_TALK_HANGUPALL",
                          "EV_TALK_CALLOUTOK"},
             \A ev : Has(q, ev) => Has(queue', ev), overflowed => overflowed',
             Dialling => Dialling', UNCHANGED <<cur_state, ucs_pc>>
      PROVE  DialledInv'
  BY <1>2, <1>4, Zenon DEF DialledInv
<1>5. ASSUME RowsFor(m.ev) = {}, DoNothing(q), UNCHANGED <<cur_state, dialers>>
      PROVE  DialledInv'
  <2>1. queue' = q /\ UNCHANGED <<overflowed, call_out_result, ucs_pc>>
    BY <1>5 DEF DoNothing, TakenFrom, talk, ucs
  <2>2. cur_state = "ST_TALK_CALLOUTALL" =>
          m.ev \notin {"EV_FACE_OFF_FINISH", "EV_TALK_HANGUPALL",
                       "EV_TALK_CALLOUTOK"}
    BY <1>5, RoundWayOut DEF RowsFor, Row
  <2> QED
    BY <1>3, <1>4, <1>5, <2>1, <2>2 DEF DialledInv
<1>6. ASSUME NEW r \in RowsFor(m.ev), cur_state' = r.next, Do(r.run, q, m),
             UNCHANGED dialers, cur_state' = "ST_TALK_CALLOUTALL"
      PROVE  DialledInv'
  <2>1. r \in state_table /\ r.cur = cur_state /\ r.msg = m.ev
    BY DEF RowsFor
  <2>2. /\ \A ev : Has(q, ev) => Has(queue', ev)
        /\ overflowed => overflowed'
    BY <1>1, <1>6, HandlersKeep
  <2>3. CASE r.run = "DO_FACE_OFF"
    BY <1>1, <1>6, <2>3, HandlersPost DEF DialledInv
  <2>4. r.run # "DO_TALK_CALLOUTALL"
    BY <1>6 DEF Do
  <2>5. CASE /\ r.cur = r.next
             /\ r.msg \notin {"EV_FACE_OFF_FINISH", "EV_TALK_HANGUPALL",
                              "EV_TALK_CALLOUTOK"}
    BY <1>3, <1>4, <1>6, <2>1, <2>2, <2>5, ResultHandlers
  <2> QED
    BY <1>6, <2>1, <2>3, <2>4, <2>5, RoundRows
<1>7. ASSUME DoTalkCalloutAll(q)
      PROVE  DialledInv'
  <2>1. PICK d \in Dialers : dialer' = [dialer EXCEPT ![d] = "next"]
    BY <1>7 DEF DoTalkCalloutAll
  <2>2. dialer'[d] = "next"
    BY <2>1 DEF TypeOK
  <2> QED
    BY <2>2 DEF DialledInv, Dialling
<1>8. CASE cur_state' # "ST_TALK_CALLOUTALL"
  BY <1>8 DEF DialledInv
<1> QED
  BY <1>5, <1>6, <1>7, <1>8 DEF StmStep, m, q

\* A round of the doorbell does not hang: as long as the machine is in it, a
\* dialler is at work, or the event that starts one or that ends the round is on
\* its way, for any number of phones and of diallers that earlier rounds have
\* left behind (my_video.c:455-513).
THEOREM RoundsDialled == Spec => []CalloutAllIsDialled
<1>1. Init => DialledInv
  BY DEF Init, DialledInv
<1>2. TypeOK /\ DialledInv /\ [Next]_vars => DialledInv'
  BY StmStepKeepsDialledInv, AsideKeepsDialledInv
<1>3. DialledInv => CalloutAllIsDialled
  <2>1. Dialling => \E d \in Dialers : dialer[d] # "none"
    BY DEF Dialling
  <2> QED
    BY <2>1, Zenon DEF DialledInv, CalloutAllIsDialled, Queued, Has
<1> QED
  BY <1>1, <1>2, <1>3, TypeCorrect, PTL DEF Spec

-----------------------------------------------------------------------------
(* The encoder of a device that only takes calls.                          *)

CallingOut == {"EV_TALK_CALLOUT", "EV_TALK_CALLOUTALL"}

\* Nobody calls out: not the user interface, not the doorbell.
CallsInOnly ==
  /\ Callees = {}
  /\ \A n \in Requests : n.ev \notin CallingOut

NoCallOut ==
  /\ cur_state \notin {"ST_TALK_CALLOUT", "ST_TALK_CALLOUTALL"}
  /\ \A ev \in CallingOut : ~Has(queue, ev)
  /\ \A d \in Dialers : dialer[d] = "none"
  /\ ucs_call \notin {"dialing", "alerting"}
  /\ ucs_pc \notin {"ok", "enc"}

EncInv == NoCallOut /\ EncoderOnlyWhenUsed

LEMMA CallOutRows ==
  ASSUME NEW r \in state_table,
         r.cur \notin {"ST_TALK_CALLOUT", "ST_TALK_CALLOUTALL"},
         r.msg \notin CallingOut
  PROVE  /\ r.next \notin {"ST_TALK_CALLOUT", "ST_TALK_CALLOUTALL"}
         /\ r.run \notin {"DO_TALK_CALLOUT", "DO_TALK_CALLOUTALL"}
BY DEF state_table, Row, CallingOut

\* The encoder's handlers stand in the rows of calls and recordings, and a row
\* that ends a call or a recording has the handler that turns it off.
LEMMA EncRows ==
  ASSUME NEW r \in state_table
  PROVE  LET used == CallStates \cup {"ST_RECORDING"}
         IN  /\ r.run \in {"DO_TALK_ANSWER", "DO_RECORD_START"} => r.next \in used
             /\ r.cur \in used /\ r.next \notin used =>
                  \/ r.run = "DO_TALK_HANGUP"
                  \/ /\ r.run = "DO_RECORD_STOP" /\ r.cur = "ST_RECORDING"
                     /\ r.next = "ST_RECORD_STOPPING"
BY DEF state_table, Row, CallStates

\* What the handlers do to the encoder and to the call of the SDK.
LEMMA EncHandlers ==
  ASSUME NEW run, NEW q, NEW m, Do(run, q, m)
  PROVE  /\ run = "DO_TALK_HANGUP" => h264enc' = "off"
         /\ run = "DO_RECORD_STOP" /\ record_state # 0
            /\ cur_state' = "ST_RECORD_STOPPING" => h264enc' = "off"
         /\ run \notin {"DO_TALK_ANSWER", "DO_RECORD_START"} =>
              (h264enc' # "off" => h264enc # "off")
         /\ run # "DO_TALK_CALLOUT" => ucs_call' \in {ucs_call, "none", "talking"}
BY DEF Do, DoNothing, DoFaceOn, DoFaceOff, DoTalkCallout, DoTalkCallin,
       DoTalkAnswer, DoTalkHangup, DoTalkHangupAll, DoRecordStart,
       DoRecordStop, recorder, ucs, EncOff, UcsHangup

\* Without a call out the other threads leave the encoder alone, and start none.
LEMMA OthersCallIn ==
  ASSUME TypeOK, NoCallOut, [Next]_vars, ~StmStep
  PROVE  /\ UNCHANGED <<h264enc, dialer>>
         /\ ucs_call' \notin {"dialing", "alerting"}
         /\ ucs_pc' \notin {"ok", "enc"}
<1> DEFINE Goal == /\ UNCHANGED <<h264enc, dialer>>
                   /\ ucs_call' \notin {"dialing", "alerting"}
                   /\ ucs_pc' \notin {"ok", "enc"}
<1> USE DEF NoCallOut, recorder, dialers, ucs
<1>1. CASE Timer
  BY <1>1 DEF Timer, TimerTestCall, TimerCountCall, TimerTestRecord,
              TimerCountRecord
<1>2. ASSUME NEW d \in Dialers, Dialer(d)
      PROVE  FALSE
  BY <1>2
  DEF Dialer, DialerAt, DialerHangup, DialerGivesUp, DialerPost,
      DialerClear, DialerNextUser, DialerSuccess, DialerFinish
<1>3. CASE UcsDue
  BY <1>3 DEF UcsDue, UcsFailPost, UcsOkPost, UcsEncOn, UcsIncomingEnd,
              UcsOwnHangup
<1>4. CASE UcsMay
  <2>1. CASE UcsDialFailed \/ UcsAlerting \/ UcsAnswered \/ UcsPeerHangup
             \/ UcsCallLost \/ UcsConnection
    BY <2>1 DEF UcsDialFailed, UcsAlerting, UcsAnswered, UcsPeerHangup,
                UcsCallLost, UcsConnection, Callback
  <2>2. ASSUME NEW u \in Callers, UcsIncoming(u)
        PROVE  Goal
    BY <2>2 DEF UcsIncoming, Callback
  <2>3. ASSUME NEW t \in ResetTimes, ResetCallTime(t)
        PROVE  Goal
    BY <2>3 DEF ResetCallTime
  <2> QED
    BY <1>4, <2>1, <2>2, <2>3 DEF UcsMay
<1>5. CASE Ui \/ UiClear \/ KeyFrame
  BY <1>5 DEF Ui, Request, UiCallOut, Display, UiClear, KeyFrame
<1>6. CASE UNCHANGED vars
  BY <1>6 DEF vars
<1> QED
  BY <1>1, <1>2, <1>3, <1>4, <1>5, <1>6 DEF Next

LEMMA AsideKeepsEncInv ==
  ASSUME TypeOK, CallsInOnly, EncInv, [Next]_vars, ~StmStep
  PROVE  EncInv'
<1>1. Aside
  BY OtherThreads
<1>2. UNCHANGED cur_state
  BY <1>1 DEF Aside
<1>3. /\ UNCHANGED <<h264enc, dialer>>
      /\ ucs_call' \notin {"dialing", "alerting"}
      /\ ucs_pc' \notin {"ok", "enc"}
  BY OthersCallIn DEF EncInv
<1>4. ASSUME NEW ev \in CallingOut
      PROVE  ~Has(queue', ev)
  <2>1. CASE UNCHANGED stm
    BY <2>1 DEF EncInv, NoCallOut, stm
  <2>2. ASSUME NEW n \in Messages, Post(n), n.ev # ev
        PROVE  ~Has(queue', ev)
    <3>1. PostTo(queue, n) /\ queue \in Seq(Messages)
      BY <2>2 DEF Post, TypeOK
    <3> QED
      BY <2>2, <3>1, PostAdds DEF EncInv, NoCallOut
  <2> QED
    BY <1>1, <2>1, <2>2
    DEF Aside, CallsInOnly, CallingOut, EncInv, NoCallOut
<1>5. NoCallOut'
  BY <1>2, <1>3, <1>4, Zenon DEF EncInv, NoCallOut
<1>6. EncoderOnlyWhenUsed'
  BY <1>2, <1>3, Zenon DEF EncInv, EncoderOnlyWhenUsed
<1> QED
  BY <1>5, <1>6 DEF EncInv

LEMMA StmStepKeepsEncInv ==
  ASSUME TypeOK, StmInv, EncInv, StmStep
  PROVE  EncInv'
<1> DEFINE m == Head(queue)
           q == Tail(queue)
<1>1. m \in Messages /\ q \in Seq(Messages) /\ queue \in Seq(Messages)
      /\ queue # <<>>
  BY TakenTypes DEF StmStep, TypeOK
<1>2. m.ev \notin CallingOut
  <2>1. 1 \in DOMAIN queue /\ queue[1] = m
    BY <1>1
  <2> QED
    BY <2>1 DEF EncInv, NoCallOut, Has
<1>3. \A ev \in CallingOut : ~Has(q, ev)
  BY <1>1, TakeAddsNothing DEF EncInv, NoCallOut
<1> HIDE DEF m, q
<1>4. ASSUME DoNothing(q), UNCHANGED <<cur_state, dialers>>
      PROVE  EncInv'
  <2>1. queue' = q
        /\ UNCHANGED <<cur_state, dialer, ucs_call, ucs_pc, h264enc>>
    BY <1>4 DEF DoNothing, TakenFrom, recorder, dialers, ucs
  <2>2. NoCallOut'
    BY <1>3, <2>1, Zenon DEF EncInv, NoCallOut
  <2>3. EncoderOnlyWhenUsed'
    BY <2>1, Zenon DEF EncInv, EncoderOnlyWhenUsed
  <2> QED
    BY <2>2, <2>3 DEF EncInv
<1>5. ASSUME NEW r \in RowsFor(m.ev)
      PROVE  /\ r \in state_table /\ r.cur = cur_state /\ r.msg = m.ev
             /\ r.next \notin {"ST_TALK_CALLOUT", "ST_TALK_CALLOUTALL"}
             /\ r.run \notin {"DO_TALK_CALLOUT", "DO_TALK_CALLOUTALL"}
  BY <1>2, CallOutRows DEF RowsFor, EncInv, NoCallOut
<1>6. ASSUME NEW r \in RowsFor(m.ev), cur_state' = r.next, Do(r.run, q, m),
             UNCHANGED dialers
      PROVE  EncInv'
  <2>1. \A ev \in CallingOut : ~Has(queue', ev)
    BY <1>1, <1>3, <1>6, HandlersAskNoCall DEF CallingOut
  <2>2. /\ ucs_call' \notin {"dialing", "alerting"}
        /\ ucs_pc' \notin {"ok", "enc"}
    BY <1>5, <1>6, EncHandlers, ResultHandlers DEF EncInv, NoCallOut
  <2>3. NoCallOut'
    BY <1>5, <1>6, <2>1, <2>2 DEF EncInv, NoCallOut, dialers
  <2> DEFINE used == CallStates \cup {"ST_RECORDING"}
  <2>4. ASSUME h264enc' # "off"
        PROVE  cur_state' \in used
    <3>1. CASE r.run \in {"DO_TALK_ANSWER", "DO_RECORD_START"}
      BY <1>5, <1>6, <3>1, EncRows
    <3>2. CASE r.run \notin {"DO_TALK_ANSWER", "DO_RECORD_START"}
      <4>1. cur_state \in used
        BY <1>6, <2>4, <3>2, EncHandlers DEF EncInv, EncoderOnlyWhenUsed
      <4>2. cur_state = "ST_RECORDING" => record_state = 1
        BY DEF StmInv, RecordingIsOn
      <4> QED
        BY <1>5, <1>6, <2>4, <4>1, <4>2, EncRows, EncHandlers
    <3> QED
      BY <3>1, <3>2
  <2> QED
    BY <2>3, <2>4 DEF EncInv, EncoderOnlyWhenUsed
<1> QED
  BY <1>4, <1>5, <1>6 DEF StmStep, m, q

\* Of a device that only takes calls, the encoder is on in calls and recordings
\* only: the handler of every row that leaves them turns it off, and no callback
\* of the SDK turns it on again (my_video.c:553-612, 834-855, 971-986;
\* protocol_talk.c:124-145).
THEOREM EncoderCorrect == ASSUME CallsInOnly PROVE Spec => []EncoderOnlyWhenUsed
<1>1. Init => EncInv
  BY DEF Init, EncInv, NoCallOut, EncoderOnlyWhenUsed, Has
<1>2. TypeOK /\ StmInv /\ EncInv /\ [Next]_vars => EncInv'
  BY StmStepKeepsEncInv, AsideKeepsEncInv
<1>3. EncInv => EncoderOnlyWhenUsed
  BY DEF EncInv
<1> QED
  BY <1>1, <1>2, <1>3, StmInvariant, PTL DEF Spec

-----------------------------------------------------------------------------
(* The LAN line of a device that only takes calls.                         *)

\* The calls that come in are those of the cloud.
CloudCallsOnly == \A n \in Requests : n.ev # "EV_TALK_CALLIN"

InCall == {"ST_TALK_CALLIN", "ST_TALK_TALKING"}

OneIn(s, ev) == \A i, j \in DOMAIN s : s[i].ev = ev /\ s[j].ev = ev => i = j

\* One call at a time is announced or taken, and the line is busy for it.
LineInv ==
  /\ cur_state \in InCall => busy
  /\ Has(queue, "EV_TALK_CALLIN") => busy /\ cur_state \notin InCall
  /\ OneIn(queue, "EV_TALK_CALLIN")

LEMMA PostOne ==
  ASSUME NEW q \in Seq(Messages), NEW n \in Messages, PostTo(q, n), NEW ev,
         OneIn(q, ev), n.ev = ev => ~Has(q, ev)
  PROVE  OneIn(queue', ev)
<1>1. CASE Len(q) < QueueSize
  <2>1. queue' = Append(q, n)
    BY <1>1, Zenon DEF PostTo
  <2> QED
    BY <2>1 DEF OneIn, Has
<1>2. CASE ~(Len(q) < QueueSize)
  BY <1>2, Zenon DEF PostTo
<1> QED
  BY <1>1, <1>2

LEMMA TakeOne ==
  ASSUME queue \in Seq(Messages), queue # <<>>, NEW ev, OneIn(queue, ev)
  PROVE  /\ OneIn(Tail(queue), ev)
         /\ Head(queue).ev = ev => ~Has(Tail(queue), ev)
<1>1. \A i \in DOMAIN Tail(queue) :
        /\ i \in Nat /\ i # 0
        /\ i + 1 \in DOMAIN queue /\ queue[i + 1] = Tail(queue)[i]
  OBVIOUS
<1>2. 1 \in DOMAIN queue /\ queue[1] = Head(queue)
  OBVIOUS
<1>3. OneIn(Tail(queue), ev)
  BY <1>1 DEF OneIn
<1>4. Head(queue).ev = ev => ~Has(Tail(queue), ev)
  BY <1>1, <1>2 DEF OneIn, Has
<1> QED
  BY <1>3, <1>4

\* Without a call out a call is entered by EV_TALK_CALLIN, and the handlers
\* that set the line idle stand in rows that leave a call.
LEMMA LineRows ==
  ASSUME NEW r \in state_table,
         r.cur \notin {"ST_TALK_CALLOUT", "ST_TALK_CALLOUTALL"}
  PROVE  /\ r.next \in InCall => r.cur \in InCall \/ r.msg = "EV_TALK_CALLIN"
         /\ r.run = "DO_TALK_HANGUP" => r.cur \in InCall /\ r.next \notin InCall
         /\ r.run # "DO_TALK_HANGUPALL"
         /\ r.cur \in InCall => r.msg # "EV_TALK_CALLIN"
BY DEF state_table, Row, InCall

LEMMA LineHandlers ==
  ASSUME NEW run, NEW q, NEW m, Do(run, q, m),
         run \notin {"DO_TALK_HANGUP", "DO_TALK_HANGUPALL", "DO_TALK_CALLOUT"}
  PROVE  UNCHANGED busy
BY DEF Do, DoNothing, DoFaceOn, DoFaceOff, DoTalkCallin, DoTalkAnswer,
       DoRecordStart, DoRecordStop

LEMMA AsideKeepsLineInv ==
  ASSUME TypeOK, CloudCallsOnly, LineInv, Aside
  PROVE  LineInv'
<1>1. UNCHANGED cur_state /\ (busy => busy')
  BY DEF Aside
<1>2. CASE UNCHANGED stm
  BY <1>1, <1>2 DEF LineInv, stm
<1>3. ASSUME NEW n \in Messages, Post(n), n.ev # "EV_TALK_CALLIN"
      PROVE  LineInv'
  <2>1. PostTo(queue, n) /\ queue \in Seq(Messages)
    BY <1>3 DEF Post, TypeOK
  <2>2. Has(queue', "EV_TALK_CALLIN") => Has(queue, "EV_TALK_CALLIN")
    BY <1>3, <2>1, PostAdds
  <2>3. OneIn(queue', "EV_TALK_CALLIN")
    BY <1>3, <2>1, PostOne DEF LineInv
  <2> QED
    BY <1>1, <2>2, <2>3, Zenon DEF LineInv
<1>4. ASSUME NEW n \in Messages, Post(n), ~busy, busy'
      PROVE  LineInv'
  <2>1. PostTo(queue, n) /\ queue \in Seq(Messages)
    BY <1>4 DEF Post, TypeOK
  <2>2. cur_state \notin InCall /\ ~Has(queue, "EV_TALK_CALLIN")
    BY <1>4, Zenon DEF LineInv
  <2>3. OneIn(queue', "EV_TALK_CALLIN")
    BY <2>1, <2>2, PostOne DEF LineInv
  <2> QED
    BY <1>1, <1>4, <2>2, <2>3, Zenon DEF LineInv
<1> QED
  BY <1>2, <1>3, <1>4 DEF Aside, CloudCallsOnly

LEMMA StmStepKeepsLineInv ==
  ASSUME TypeOK, NoCallOut, LineInv, StmStep
  PROVE  LineInv'
<1> DEFINE m == Head(queue)
           q == Tail(queue)
           in == "EV_TALK_CALLIN"
<1>1. m \in Messages /\ q \in Seq(Messages) /\ queue \in Seq(Messages)
      /\ queue # <<>>
  BY TakenTypes DEF StmStep, TypeOK
<1>2. m.ev \notin CallingOut
  <2>1. 1 \in DOMAIN queue /\ queue[1] = m
    BY <1>1
  <2> QED
    BY <2>1 DEF NoCallOut, Has
<1>3. /\ OneIn(q, in)
      /\ m.ev = in => ~Has(q, in)
  BY <1>1, TakeOne DEF LineInv
<1>4. Has(q, in) => Has(queue, in)
  BY <1>1, TakeAddsNothing
<1>5. m.ev = in => Has(queue, in)
  <2>1. 1 \in DOMAIN queue /\ queue[1] = m
    BY <1>1
  <2> QED
    BY <2>1 DEF Has
<1> HIDE DEF m, q
<1>6. ASSUME DoNothing(q), UNCHANGED <<cur_state, dialers>>
      PROVE  LineInv'
  BY <1>3, <1>4, <1>6 DEF LineInv, DoNothing, TakenFrom
<1>7. ASSUME NEW r \in RowsFor(m.ev)
      PROVE  /\ r \in state_table /\ r.cur = cur_state /\ r.msg = m.ev
             /\ r.cur \notin {"ST_TALK_CALLOUT", "ST_TALK_CALLOUTALL"}
             /\ r.run \notin {"DO_TALK_CALLOUT", "DO_TALK_CALLOUTALL"}
  BY <1>2, CallOutRows DEF RowsFor, NoCallOut
<1>8. ASSUME NEW r \in RowsFor(m.ev), cur_state' = r.next, Do(r.run, q, m)
      PROVE  LineInv'
  <2>1. Has(queue', in) => Has(q, in)
    BY <1>1, <1>8, HandlersAskNoCall
  <2>2. OneIn(queue', in)
    <3>1. TakenFrom(q) \/ \E n \in Messages : PostTo(q, n) /\ n.ev # in
      BY <1>1, <1>8, HandlersCallNobody
    <3> QED
      BY <1>1, <1>3, <3>1, PostOne DEF TakenFrom
  <2>3. CASE r.run = "DO_TALK_HANGUP"
    <3>1. cur_state \in InCall /\ cur_state' \notin InCall
      BY <1>7, <1>8, <2>3, LineRows
    <3>2. ~Has(queue', in)
      BY <1>4, <2>1, <3>1, Zenon DEF LineInv
    <3> QED
      BY <2>2, <3>1, <3>2, Zenon DEF LineInv
  <2>4. CASE r.run # "DO_TALK_HANGUP"
    <3>1. UNCHANGED busy
      BY <1>7, <1>8, <2>4, LineRows, LineHandlers
    <3>2. cur_state' \in InCall => busy
      BY <1>5, <1>7, <1>8, LineRows DEF LineInv
    <3>3. Has(queue', in) => cur_state' \notin InCall
      BY <1>3, <1>4, <1>7, <1>8, <2>1, LineRows DEF LineInv
    <3>4. Has(queue', in) => busy
      BY <1>4, <2>1, Zenon DEF LineInv
    <3> QED
      BY <2>2, <3>1, <3>2, <3>3, <3>4, Zenon DEF LineInv
  <2> QED
    BY <2>3, <2>4
<1> QED
  BY <1>6, <1>7, <1>8 DEF StmStep, m, q

\* Of a device that only takes calls of the cloud, the LAN line is busy as long
\* as one of them rings or is talked: the hangup that sets it idle is of the call
\* that set it busy, whatever the two threads do in which order
\* (protocol_talk.c:134, 246-258).
THEOREM LineHeld ==
  ASSUME CallsInOnly, CloudCallsOnly PROVE Spec => []CloudCallHoldsLine
<1>1. Init => EncInv /\ LineInv
  BY DEF Init, EncInv, NoCallOut, EncoderOnlyWhenUsed, LineInv, InCall, OneIn,
         Has
<1>2. TypeOK /\ StmInv /\ EncInv /\ LineInv /\ [Next]_vars => EncInv' /\ LineInv'
  BY StmStepKeepsEncInv, AsideKeepsEncInv, OtherThreads, StmStepKeepsLineInv,
     AsideKeepsLineInv
  DEF EncInv
<1>3. LineInv => CloudCallHoldsLine
  BY DEF LineInv, InCall, CloudCallHoldsLine
<1> QED
  BY <1>1, <1>2, <1>3, StmInvariant, PTL DEF Spec
=============================================================================
