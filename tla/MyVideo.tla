------------------------------ MODULE MyVideo ------------------------------
(***************************************************************************)
(* The video state machine of src/src/app/my_video.c: face recognition,    *)
(* calls and recordings share one camera, and one thread takes the events  *)
(* from a queue, looks up a row of state_table and runs its handler.       *)
(*                                                                         *)
(* Around that thread run, without any lock on what they share with it:    *)
(*   - threadVideoTimer, which counts calls and recordings down;           *)
(*   - one threadCallOutAll per doorbell call, which dials the household's *)
(*     phones one after the other;                                         *)
(*   - the thread of the cloud call SDK (UCS), whose callbacks run         *)
(*     protocol_talk.c and dialCallBack;                                   *)
(*   - the user interface and the other callers of my_video->...;          *)
(*   - the encoder thread and the thread that switches the display.        *)
(*                                                                         *)
(* A handler runs as a whole in the step that takes its event.  The calls  *)
(* modelled are those of the cloud line (protocol_talk->type is            *)
(* PROTOCOL_TALK_CLOUD).  Seconds are the steps of the timer thread, so    *)
(* the time a step of another thread takes is arbitrary.                   *)
(***************************************************************************)
EXTENDS Integers, Sequences, FiniteSets

CONSTANTS
  QueueSize,     \* slots of the event queue, 32 in the code
  TIME_CALLING,  \* seconds a call rings, 30 in the code
  TIME_TALKING,  \* seconds a call lasts, 180 in the code
  RecordTime,    \* seconds a recording lasts (g_config)
  NumApps,       \* household phones threadCallOutAll dials
  Dialers,       \* threads that may run threadCallOutAll (bound)
  Callers,       \* kinds of users that call in
  Callees,       \* kinds of users the user interface calls
  Requests,      \* messages the callers of my_video post
  Features,      \* which of the other inputs happen
  ResetTimes,    \* arguments of resetCallTime
  Reloads,       \* the build loads a counter again to decrement it (-O0)
  MaxInputs      \* bound: inputs from outside in a behaviour

\* What is known of a user id: not in the data base, or the kind of device.
Users     == {"unknown", "app", "entrance"}
PeerTypes == {"undefined", "app", "entrance"}

HangupTypes == {"BUTTON", "OVERTIME_ANSWER", "OVERTIME_UNANSWER", "PEER"}

States == {"ST_IDLE", "ST_FACE", "ST_FACEOFF_RECORD", "ST_TALK_CALLOUT",
           "ST_TALK_CALLOUTALL", "ST_TALK_CALLIN", "ST_TALK_TALKING",
           "ST_RECORDING", "ST_RECORD_STOPPING", "ST_UPDATE"}

Events == {"EV_FACE_ON", "EV_FACE_OFF_FINISH", "EV_FACE_REGIST",
           "EV_FACE_RECOGNIZER", "EV_TALK_CALLOUT", "EV_TALK_CALLOUTALL",
           "EV_TALK_CALLOUTOK", "EV_TALK_CALLIN", "EV_TALK_ANSWER",
           "EV_TALK_HANGUP", "EV_TALK_HANGUPALL", "EV_CAPTURE",
           "EV_RECORD_START", "EV_RECORD_STOP", "EV_RECORD_STOP_FINISHED",
           "EV_DELAY_SLEEP", "EV_UPDATE", "EV_UPDATE_FINISH"}

Messages == [ev : Events, usr : Users, hang : HangupTypes]

\* StmData as calloc leaves it, and a NULL pointer: no handler reads the data
\* of an event that is posted with NULL.
Msg(ev)          == [ev |-> ev, usr |-> "unknown", hang |-> "BUTTON"]
CallMsg(ev, u)   == [Msg(ev) EXCEPT !.usr = u]
HangupMsg(type)  == [Msg("EV_TALK_HANGUP") EXCEPT !.hang = type]

ASSUME MyVideoAssumption ==
  /\ QueueSize \in Nat \ {0}
  /\ TIME_CALLING \in Nat \ {0} /\ TIME_TALKING \in Nat \ {0}
  /\ RecordTime \in Nat \ {0}
  /\ NumApps \in Nat
  /\ MaxInputs \in Nat
  /\ Callers \subseteq Users /\ Callees \subseteq Users
  /\ Requests \subseteq Messages
  /\ ResetTimes \subseteq Int
  /\ Reloads \in BOOLEAN

Row(msg, cur, next, run) == [msg |-> msg, cur |-> cur, next |-> next, run |-> run]

state_table == {
  Row("EV_FACE_ON", "ST_IDLE", "ST_FACE", "DO_FACE_ON"),
  Row("EV_FACE_REGIST", "ST_FACE", "ST_FACE", "DO_FACE_REGIST"),
  Row("EV_FACE_RECOGNIZER", "ST_FACE", "ST_FACE", "DO_FACE_RECOGNIZER"),

  Row("EV_FACE_OFF_FINISH", "ST_TALK_CALLOUT", "ST_TALK_CALLOUT", "DO_TALK_CALLOUT"),
  Row("EV_FACE_OFF_FINISH", "ST_TALK_CALLOUTALL", "ST_TALK_CALLOUTALL", "DO_TALK_CALLOUTALL"),
  Row("EV_FACE_OFF_FINISH", "ST_TALK_CALLIN", "ST_TALK_CALLIN", "DO_TALK_CALLIN"),
  Row("EV_FACE_OFF_FINISH", "ST_FACEOFF_RECORD", "ST_RECORDING", "DO_RECORD_START"),
  Row("EV_FACE_OFF_FINISH", "ST_UPDATE", "ST_UPDATE", "DO_UPDATE"),

  Row("EV_TALK_CALLOUT", "ST_IDLE", "ST_TALK_CALLOUT", "DO_TALK_CALLOUT"),
  Row("EV_TALK_CALLOUT", "ST_FACE", "ST_TALK_CALLOUT", "DO_FACE_OFF"),
  Row("EV_TALK_CALLOUT", "ST_TALK_CALLOUTALL", "ST_TALK_CALLOUTALL", "DO_TALK_CALLOUT"),

  Row("EV_TALK_CALLOUTALL", "ST_IDLE", "ST_TALK_CALLOUTALL", "DO_TALK_CALLOUTALL"),
  Row("EV_TALK_CALLOUTALL", "ST_FACE", "ST_TALK_CALLOUTALL", "DO_FACE_OFF"),

  Row("EV_TALK_CALLOUTOK", "ST_TALK_CALLOUTALL", "ST_TALK_CALLOUT", "DO_NOTHING"),

  Row("EV_TALK_CALLIN", "ST_IDLE", "ST_TALK_CALLIN", "DO_TALK_CALLIN"),
  Row("EV_TALK_CALLIN", "ST_FACE", "ST_TALK_CALLIN", "DO_FACE_OFF"),

  Row("EV_TALK_ANSWER", "ST_TALK_CALLIN", "ST_TALK_TALKING", "DO_TALK_ANSWER"),
  Row("EV_TALK_ANSWER", "ST_TALK_CALLOUT", "ST_TALK_TALKING", "DO_TALK_ANSWER"),
  Row("EV_TALK_ANSWER", "ST_TALK_CALLOUTALL", "ST_TALK_TALKING", "DO_TALK_ANSWER"),

  Row("EV_TALK_HANGUP", "ST_TALK_CALLOUT", "ST_IDLE", "DO_TALK_HANGUP"),
  Row("EV_TALK_HANGUP", "ST_TALK_CALLIN", "ST_IDLE", "DO_TALK_HANGUP"),
  Row("EV_TALK_HANGUP", "ST_TALK_TALKING", "ST_IDLE", "DO_TALK_HANGUP"),
  Row("EV_TALK_HANGUP", "ST_TALK_CALLOUTALL", "ST_TALK_CALLOUTALL", "DO_TALK_HANGUPALL"),

  Row("EV_TALK_HANGUPALL", "ST_TALK_CALLOUTALL", "ST_IDLE", "DO_TALK_HANGUP"),

  Row("EV_RECORD_START", "ST_IDLE", "ST_RECORDING", "DO_RECORD_START"),
  Row("EV_RECORD_START", "ST_FACE", "ST_FACEOFF_RECORD", "DO_FACE_OFF"),
  Row("EV_RECORD_START", "ST_TALK_CALLIN", "ST_TALK_CALLIN", "DO_RECORD_START"),
  Row("EV_RECORD_START", "ST_TALK_CALLOUT", "ST_TALK_CALLOUT", "DO_RECORD_START"),
  Row("EV_RECORD_START", "ST_TALK_TALKING", "ST_TALK_TALKING", "DO_RECORD_START"),

  Row("EV_RECORD_STOP", "ST_RECORDING", "ST_RECORD_STOPPING", "DO_RECORD_STOP"),
  Row("EV_RECORD_STOP", "ST_TALK_CALLIN", "ST_TALK_CALLIN", "DO_RECORD_STOP"),
  Row("EV_RECORD_STOP", "ST_TALK_CALLOUT", "ST_TALK_CALLOUT", "DO_RECORD_STOP"),
  Row("EV_RECORD_STOP", "ST_TALK_TALKING", "ST_TALK_TALKING", "DO_RECORD_STOP"),

  Row("EV_RECORD_STOP_FINISHED", "ST_RECORD_STOPPING", "ST_FACE", "DO_FACE_ON"),

  Row("EV_CAPTURE", "ST_IDLE", "ST_IDLE", "DO_CAPTURE"),
  Row("EV_CAPTURE", "ST_FACE", "ST_FACE", "DO_CAPTURE"),
  Row("EV_CAPTURE", "ST_TALK_TALKING", "ST_TALK_TALKING", "DO_CAPTURE_NO_UI"),
  Row("EV_CAPTURE", "ST_TALK_CALLOUT", "ST_TALK_CALLOUT", "DO_CAPTURE_NO_UI"),
  Row("EV_CAPTURE", "ST_TALK_CALLOUTALL", "ST_TALK_CALLOUTALL", "DO_CAPTURE_NO_UI"),
  Row("EV_CAPTURE", "ST_TALK_CALLIN", "ST_TALK_CALLIN", "DO_CAPTURE_NO_UI"),

  Row("EV_DELAY_SLEEP", "ST_IDLE", "ST_IDLE", "DO_DELAY_SLEEP"),
  Row("EV_DELAY_SLEEP", "ST_FACE", "ST_FACE", "DO_DELAY_SLEEP"),

  Row("EV_UPDATE", "ST_FACE", "ST_UPDATE", "DO_FACE_OFF"),
  Row("EV_UPDATE", "ST_IDLE", "ST_UPDATE", "DO_UPDATE")}

-----------------------------------------------------------------------------
VARIABLES
  queue,            \* events posted and not yet handled
  overflowed,       \* a post found the queue full (history)
  cur_state,
  face_state,       \* RKVideo: frames go to the face detector
  h264enc,          \* RKVideo: "off", or on with or without a call to feed
  start_record,     \* H264Encoder: frames go to the recording as well
  display_state,    \* RKVideo: "local", "peer" or "off"
  record_state,
  record_time,
  avi,              \* file: "none", open until a key frame comes, or written
  peer_type,        \* talk_peer_dev.type
  call_out_result,
  call_time,
  answered,         \* talk_data.answered
  timer_pc, tested, \* threadVideoTimer, and the count it tested last
  dialer, user_num, \* threadCallOutAll: where each is, phones still to dial
  ui_pc,            \* the user interface thread inside videoCallOut
  connect_state,    \* ucpaas.c: logged in to the cloud
  call_status,      \* ucpaas.c: there is a call to hang up
  dialCallBack,     \* protocol_talk.c: the callback is set
  busy,             \* protocol_video is set busy for a cloud call
  ucs_call,         \* the SDK's call
  ucs_hungup,       \* the SDK has still to report a hangup of ours
  ucs_pc,           \* the SDK's thread inside a callback
  inputs            \* inputs so far

stm      == <<queue, overflowed, cur_state>>
face     == face_state
recorder == <<h264enc, start_record, record_state, record_time, avi>>
talk     == <<peer_type, call_out_result, call_time, answered>>
timer    == <<timer_pc, tested>>
dialers  == <<dialer, user_num>>
ucs      == <<connect_state, call_status, dialCallBack, ucs_call, ucs_hungup,
              ucs_pc>>
vars     == <<stm, face, recorder, display_state, talk, timer, dialers, ui_pc,
              ucs, busy, inputs>>

Init ==
  /\ queue = <<>>
  /\ overflowed = FALSE
  /\ cur_state = "ST_IDLE"
  /\ face_state = FALSE
  /\ h264enc = "off"
  /\ start_record = FALSE
  /\ display_state = "off"
  /\ record_state = 0
  /\ record_time = 0
  /\ avi = "none"
  /\ peer_type = "undefined"
  /\ call_out_result = "NO"
  /\ call_time = 0
  /\ answered = 0
  /\ timer_pc = "call"
  /\ tested = 0
  /\ dialer = [d \in Dialers |-> "none"]
  /\ user_num = [d \in Dialers |-> 0]
  /\ ui_pc = "idle"
  /\ connect_state = 1
  /\ call_status = 0
  /\ dialCallBack = FALSE
  /\ busy = FALSE
  /\ ucs_call = "none"
  /\ ucs_hungup = FALSE
  /\ ucs_pc = "idle"
  /\ inputs = 0

-----------------------------------------------------------------------------
(* Posting, and what handlers and other threads call.                      *)

\* Mutant of PostTo: the length is not tested.
PostToAlways(q, m) == queue' = Append(q, m) /\ UNCHANGED overflowed

\* queuePost drops the message when the queue is full.
PostTo(q, m) ==
  /\ queue' = IF Len(q) < QueueSize THEN Append(q, m) ELSE q
  /\ overflowed' = IF Len(q) < QueueSize THEN overflowed ELSE TRUE

\* A thread other than the machine's posts an event.
Post(m) == PostTo(queue, m) /\ UNCHANGED cur_state

\* The handler posts nothing: the event is gone.
TakenFrom(q) == queue' = q /\ UNCHANGED overflowed

\* rkH264EncOn: an encoder that is on keeps the callback it has.
EncOn(callback) ==
  h264enc' = IF h264enc = "off" THEN callback ELSE h264enc

\* Stopping a recording closes its file and clears record_state through the
\* stop callback; without a running recorder nothing happens.
RecorderStopped ==
  /\ start_record' = FALSE
  /\ avi' = IF start_record THEN "none" ELSE avi

\* Mutant of EncOff: the recording is not stopped.
EncOffOnly ==
  /\ h264enc' = "off"
  /\ UNCHANGED <<start_record, avi, record_state>>

\* rkH264EncOff: an encoder that is on stops its recording with it.
EncOff ==
  /\ h264enc' = "off"
  /\ IF h264enc = "off"
     THEN UNCHANGED <<start_record, avi, record_state>>
     ELSE /\ RecorderStopped
          /\ record_state' = IF start_record THEN 0 ELSE record_state

\* ucsHangup: the SDK reports the hangup later (UCS_CallHangUp is external).
UcsHangup ==
  IF connect_state = 1 /\ call_status = 1
  THEN /\ ucs_call' = "none"
       /\ ucs_hungup' = (ucs_hungup \/ ucs_call # "none")
  ELSE UNCHANGED <<ucs_call, ucs_hungup>>

\* ucsDial: silently does nothing when the cloud is not connected.
UcsDial ==
  IF connect_state = 1
  THEN ucs_call' = "dialing" /\ call_status' = 1
  ELSE UNCHANGED <<ucs_call, call_status>>

\* sqlGetUserInfoUseUserId
TypeOf(u) == IF u = "unknown" THEN "undefined" ELSE u

IsEntrance(type) == type = "entrance"

-----------------------------------------------------------------------------
(* The handlers: q is the queue without the event, m the event.            *)

\* DO_FAIL, DO_NOTHING, and the handlers that touch none of this state: face
\* registration and recognition, captures, the sleep timer, the update.
DoNothing(q) ==
  /\ TakenFrom(q)
  /\ UNCHANGED <<face, recorder, talk, ucs, busy>>

DoFaceOn(q) ==
  /\ face_state' = TRUE
  /\ TakenFrom(q)
  /\ UNCHANGED <<recorder, talk, ucs, busy>>

\* Mutant of DoFaceOff: the detector is left connected.
DoFaceOffPost(q, m) ==
  /\ PostTo(q, [m EXCEPT !.ev = "EV_FACE_OFF_FINISH"])
  /\ UNCHANGED <<face, recorder, talk, ucs, busy>>

\* The data of the event that closes the camera's face mode travels on with
\* EV_FACE_OFF_FINISH, behind whatever has been posted meanwhile.
DoFaceOff(q, m) ==
  /\ face_state' = FALSE
  /\ PostTo(q, [m EXCEPT !.ev = "EV_FACE_OFF_FINISH"])
  /\ UNCHANGED <<recorder, talk, ucs, busy>>

\* stmDoTalkCallout and dial.
DoTalkCallout(q, m) ==
  /\ IF m.usr = "unknown"
     THEN /\ PostTo(q, HangupMsg("BUTTON"))
          /\ UNCHANGED <<talk, ucs, busy>>
     ELSE /\ TakenFrom(q)
          /\ peer_type' = TypeOf(m.usr)
          /\ call_time' = TIME_CALLING
          /\ busy' = TRUE
          /\ UcsDial
          /\ dialCallBack' = TRUE
          /\ UNCHANGED <<call_out_result, answered, connect_state, ucs_hungup,
                         ucs_pc>>
  /\ UNCHANGED <<face, recorder>>

\* stmDoTalkCalloutAll: createThread(threadCallOutAll).
DoTalkCalloutAll(q) ==
  /\ TakenFrom(q)
  /\ \E d \in Dialers :
        /\ dialer[d] = "none"
        /\ dialer' = [dialer EXCEPT ![d] = "next"]
        /\ user_num' = [user_num EXCEPT ![d] = NumApps]
  /\ UNCHANGED <<face, recorder, talk, ucs, busy>>

\* Mutant of DoTalkCallin: the count is not started.
DoTalkCallinUntimed(q, m) ==
  /\ peer_type' = TypeOf(m.usr)
  /\ IF m.usr = "app" THEN PostTo(q, Msg("EV_TALK_ANSWER")) ELSE TakenFrom(q)
  /\ UNCHANGED <<face, recorder, call_out_result, call_time, answered, ucs,
                 busy>>

\* A household phone is answered at once.
DoTalkCallin(q, m) ==
  /\ peer_type' = TypeOf(m.usr)
  /\ call_time' = TIME_CALLING
  /\ IF m.usr = "app" THEN PostTo(q, Msg("EV_TALK_ANSWER")) ELSE TakenFrom(q)
  /\ UNCHANGED <<face, recorder, call_out_result, answered, ucs, busy>>

\* stmDoTalkAnswer; ucsAnswer accepts a call that rings here.
DoTalkAnswer(q) ==
  /\ TakenFrom(q)
  /\ IF IsEntrance(peer_type) THEN UNCHANGED h264enc ELSE EncOn("talk")
  /\ ucs_call' = IF connect_state = 1 /\ ucs_call = "incoming" THEN "talking"
                 ELSE ucs_call
  /\ call_time' = TIME_TALKING
  /\ answered' = 1
  /\ UNCHANGED <<face, start_record, record_state, record_time, avi, peer_type,
                 call_out_result, connect_state, call_status, dialCallBack,
                 ucs_hungup, ucs_pc, busy>>

\* stmDoTalkHangupAll: protocol_talk->hangup(0) only.
DoTalkHangupAll(q) ==
  /\ TakenFrom(q)
  /\ UcsHangup
  /\ busy' = FALSE
  /\ UNCHANGED <<face, recorder, talk, connect_state, call_status,
                 dialCallBack, ucs_pc>>

\* Mutant of DoTalkHangup: talk_data is not wiped.
DoTalkHangupKeep(q) ==
  /\ TakenFrom(q)
  /\ EncOff
  /\ record_time' = 0
  /\ UcsHangup
  /\ busy' = FALSE
  /\ peer_type' = "undefined"
  /\ call_out_result' = "NO"
  /\ call_time' = 0
  /\ UNCHANGED <<answered, face, connect_state, call_status, dialCallBack,
                 ucs_pc>>

\* stmDoTalkHangup: the record of the call is reported, then talk_data and
\* talk_peer_dev are wiped.
DoTalkHangup(q) ==
  /\ TakenFrom(q)
  /\ EncOff
  /\ record_time' = 0
  /\ UcsHangup
  /\ busy' = FALSE
  /\ peer_type' = "undefined"
  /\ call_out_result' = "NO"
  /\ call_time' = 0
  /\ answered' = 0
  /\ UNCHANGED <<face, connect_state, call_status, dialCallBack, ucs_pc>>

\* Mutant of DoRecordStart: record_state is set only with a recorder.
DoRecordStartSeen(q) ==
  /\ TakenFrom(q)
  /\ IF record_state = 1
     THEN UNCHANGED recorder
     ELSE /\ record_time' = RecordTime
          /\ avi' = IF avi = "none" THEN "open" ELSE avi
          /\ IF display_state = "local"
             THEN EncOn("record") /\ start_record' = TRUE /\ record_state' = 1
             ELSE UNCHANGED <<h264enc, start_record, record_state>>
  /\ UNCHANGED <<face, talk, ucs, busy>>

\* stmDoRecordStart and RKVideo::recordStart: a file is opened in any case, a
\* recorder is started only while the camera is on the display.
DoRecordStart(q) ==
  /\ TakenFrom(q)
  /\ IF record_state = 1
     THEN UNCHANGED recorder
     ELSE /\ record_state' = 1
          /\ record_time' = RecordTime
          /\ avi' = IF avi = "none" THEN "open" ELSE avi
          /\ IF display_state = "local"
             THEN EncOn("record") /\ start_record' = TRUE
             ELSE UNCHANGED <<h264enc, start_record>>
  /\ UNCHANGED <<face, talk, ucs, busy>>

\* Mutant of DoRecordStop: the test is on the recorder, not on the flag.
DoRecordStopIfSeen(q) ==
  /\ IF ~start_record
     THEN TakenFrom(q) /\ UNCHANGED recorder
     ELSE /\ record_state' = 0
          /\ record_time' = 0
          /\ RecorderStopped
          /\ h264enc' = IF cur_state' = "ST_RECORD_STOPPING" THEN "off"
                        ELSE h264enc
          /\ PostTo(q, Msg("EV_RECORD_STOP_FINISHED"))
  /\ UNCHANGED <<face, talk, ucs, busy>>

\* Mutant of DoRecordStop: the encoder goes off in the state it was in before.
DoRecordStopLate(q) ==
  /\ IF record_state = 0
     THEN TakenFrom(q) /\ UNCHANGED recorder
     ELSE /\ record_state' = 0
          /\ record_time' = 0
          /\ RecorderStopped
          /\ h264enc' = IF cur_state = "ST_RECORD_STOPPING" THEN "off"
                        ELSE h264enc
          /\ PostTo(q, Msg("EV_RECORD_STOP_FINISHED"))
  /\ UNCHANGED <<face, talk, ucs, busy>>

\* stmDoRecordStop: the encoder of a call stays on.
DoRecordStop(q) ==
  /\ IF record_state = 0
     THEN TakenFrom(q) /\ UNCHANGED recorder
     ELSE /\ record_state' = 0
          /\ record_time' = 0
          /\ RecorderStopped
          /\ h264enc' = IF cur_state' = "ST_RECORD_STOPPING" THEN "off"
                        ELSE h264enc
          /\ PostTo(q, Msg("EV_RECORD_STOP_FINISHED"))
  /\ UNCHANGED <<face, talk, ucs, busy>>

\* stm_do
Do(run, q, m) ==
  \/ run = "DO_FACE_ON" /\ DoFaceOn(q)
  \/ run = "DO_FACE_OFF" /\ DoFaceOff(q, m)
  \/ run = "DO_TALK_CALLOUT" /\ DoTalkCallout(q, m)
  \/ run = "DO_TALK_CALLIN" /\ DoTalkCallin(q, m)
  \/ run = "DO_TALK_ANSWER" /\ DoTalkAnswer(q)
  \/ run = "DO_TALK_HANGUP" /\ DoTalkHangup(q)
  \/ run = "DO_TALK_HANGUPALL" /\ DoTalkHangupAll(q)
  \/ run = "DO_RECORD_START" /\ DoRecordStart(q)
  \/ run = "DO_RECORD_STOP" /\ DoRecordStop(q)
  \/ /\ run \in {"DO_NOTHING", "DO_FACE_REGIST", "DO_FACE_RECOGNIZER",
                 "DO_CAPTURE", "DO_CAPTURE_NO_UI", "DO_DELAY_SLEEP",
                 "DO_UPDATE"}
     /\ DoNothing(q)

\* The rows for event ev in the current state: there is at most one.
RowsFor(ev) == {r \in state_table : r.msg = ev /\ r.cur = cur_state}

\* stmThread: one event, under the machine's mutex.
StmStep ==
  /\ queue # <<>>
  /\ LET m == Head(queue)
         q == Tail(queue)
     IN \/ \E r \in RowsFor(m.ev) :
             /\ cur_state' = r.next
             /\ \/ Do(r.run, q, m) /\ UNCHANGED dialers
                \/ r.run = "DO_TALK_CALLOUTALL" /\ DoTalkCalloutAll(q)
        \/ /\ RowsFor(m.ev) = {}
           /\ DoNothing(q)
           /\ UNCHANGED <<cur_state, dialers>>
  /\ UNCHANGED <<display_state, timer, ui_pc, inputs>>

-----------------------------------------------------------------------------
(* threadVideoTimer: once a second, first the call, then the recording.    *)

\* Mutant of Down: a turn of the loop takes two seconds off.
DownByTwo(count) == IF count <= 1 THEN -1 ELSE count - 2

\* A count below zero does not come back to zero.
Down(count) == IF count <= 0 THEN -1 ELSE count - 1

\* The counts are not locked.  The decrement starts from the value tested or,
\* in a build that loads it again, from the value at that time, and overwrites
\* what was stored in between.
Loaded(count) == {tested} \cup (IF Reloads THEN {count} ELSE {})

TimerTestCall ==
  /\ timer_pc = "call"
  /\ IF call_time # 0
     THEN timer_pc' = "countCall" /\ tested' = call_time
     ELSE timer_pc' = "record" /\ UNCHANGED tested
  /\ UNCHANGED <<stm, face, recorder, display_state, talk, dialers, ui_pc, ucs,
                 busy, inputs>>

TimerCountCall ==
  /\ timer_pc = "countCall"
  /\ timer_pc' = "record"
  /\ tested' = 0
  /\ \E count \in Loaded(call_time) :
        /\ call_time' = Down(count)
        /\ IF Down(count) = 0
           THEN Post(HangupMsg(IF answered = 1 THEN "OVERTIME_ANSWER"
                               ELSE "OVERTIME_UNANSWER"))
           ELSE UNCHANGED stm
  /\ UNCHANGED <<face, recorder, display_state, peer_type, call_out_result,
                 answered, dialers, ui_pc, ucs, busy, inputs>>

\* A recording counts from its first key frame on.
TimerTestRecord ==
  /\ timer_pc = "record"
  /\ IF avi = "written" /\ record_time # 0
     THEN timer_pc' = "countRecord" /\ tested' = record_time
     ELSE timer_pc' = "call" /\ UNCHANGED tested
  /\ UNCHANGED <<stm, face, recorder, display_state, talk, dialers, ui_pc, ucs,
                 busy, inputs>>

TimerCountRecord ==
  /\ timer_pc = "countRecord"
  /\ timer_pc' = "call"
  /\ tested' = 0
  /\ \E count \in Loaded(record_time) :
        /\ record_time' = Down(count)
        /\ IF Down(count) = 0 THEN Post(Msg("EV_RECORD_STOP"))
           ELSE UNCHANGED stm
  /\ UNCHANGED <<face, h264enc, start_record, record_state, avi, display_state,
                 talk, dialers, ui_pc, ucs, busy, inputs>>

Timer == TimerTestCall \/ TimerCountCall \/ TimerTestRecord \/ TimerCountRecord

-----------------------------------------------------------------------------
(* threadCallOutAll                                                        *)

DialerAt(d, from, to) == dialer[d] = from /\ dialer' = [dialer EXCEPT ![d] = to]

\* Hang up what the line still has before the next phone is dialled.
DialerHangup(d) ==
  /\ DialerAt(d, "next", "post")
  /\ user_num[d] > 0
  /\ connect_state = 1
  /\ UcsHangup
  /\ UNCHANGED <<stm, face, recorder, display_state, talk, timer, user_num,
                 ui_pc, connect_state, call_status, dialCallBack, ucs_pc, busy,
                 inputs>>

\* Mutant of DialerGivesUp: the thread returns and reports nothing.
DialerReturns(d) ==
  /\ DialerAt(d, "next", "none")
  /\ user_num[d] > 0
  /\ connect_state = 0
  /\ UNCHANGED <<stm, face, recorder, display_state, talk, timer, user_num,
                 ui_pc, ucs, busy, inputs>>

\* After ten seconds without the cloud no phone is dialled any more.
DialerGivesUp(d) ==
  /\ dialer[d] = "next"
  /\ user_num[d] > 0
  /\ connect_state = 0
  /\ user_num' = [user_num EXCEPT ![d] = 0]
  /\ UNCHANGED <<stm, face, recorder, display_state, talk, timer, dialer, ui_pc,
                 ucs, busy, inputs>>

\* videoCallOut posts, then forgets the last call's result.
DialerPost(d) ==
  /\ DialerAt(d, "post", "clear")
  /\ Post(CallMsg("EV_TALK_CALLOUT", "app"))
  /\ UNCHANGED <<face, recorder, display_state, talk, timer, user_num, ui_pc,
                 ucs, busy, inputs>>

ForgetResult ==
  /\ call_out_result' = "NO"
  /\ UNCHANGED <<peer_type, call_time, answered>>

DialerClear(d) ==
  /\ DialerAt(d, "clear", "wait")
  /\ ForgetResult
  /\ UNCHANGED <<stm, face, recorder, display_state, timer, user_num, ui_pc,
                 ucs, busy, inputs>>

\* No result for thirty seconds, or a failure: on to the next phone.
DialerNextUser(d) ==
  /\ DialerAt(d, "wait", "next")
  /\ call_out_result \in {"NO", "FAIL"}
  /\ ForgetResult
  /\ user_num' = [user_num EXCEPT ![d] = @ - 1]
  /\ UNCHANGED <<stm, face, recorder, display_state, timer, ui_pc, ucs, busy,
                 inputs>>

\* A phone rings: the thread ends.
DialerSuccess(d) ==
  /\ DialerAt(d, "wait", "none")
  /\ call_out_result = "SUCCESS"
  /\ ForgetResult
  /\ UNCHANGED <<stm, face, recorder, display_state, timer, user_num, ui_pc,
                 ucs, busy, inputs>>

\* No phone is left.
DialerFinish(d) ==
  /\ DialerAt(d, "next", "none")
  /\ user_num[d] = 0
  /\ Post(Msg("EV_TALK_HANGUPALL"))
  /\ UNCHANGED <<face, recorder, display_state, talk, timer, user_num, ui_pc,
                 ucs, busy, inputs>>

Dialer(d) ==
  \/ DialerHangup(d) \/ DialerGivesUp(d) \/ DialerPost(d) \/ DialerClear(d)
  \/ DialerNextUser(d) \/ DialerSuccess(d) \/ DialerFinish(d)

-----------------------------------------------------------------------------
(* The callbacks of the SDK, one at a time.                                *)

Callback(from, to) ==
  /\ ucs_pc = "idle"
  /\ ucs_call \in from
  /\ ucs_call' = to

\* dial_failed_cb, cbDialFail and dialCallBack(0) up to the post.
UcsDialFailed ==
  /\ Callback({"dialing"}, "none")
  /\ IF dialCallBack
     THEN ucs_pc' = "fail" /\ call_out_result' = "FAIL" /\ UNCHANGED call_status
     ELSE call_status' = 0 /\ UNCHANGED <<ucs_pc, call_out_result>>
  /\ UNCHANGED <<stm, face, recorder, display_state, peer_type, call_time,
                 answered, timer, dialers, ui_pc, connect_state, dialCallBack,
                 ucs_hungup, busy, inputs>>

UcsFailPost ==
  /\ ucs_pc = "fail"
  /\ ucs_pc' = "idle"
  /\ Post(HangupMsg("PEER"))
  /\ call_status' = 0
  /\ UNCHANGED <<face, recorder, display_state, talk, timer, dialers, ui_pc,
                 connect_state, dialCallBack, ucs_call, ucs_hungup, busy, inputs>>

\* on_alerting_cb, cbDialRet and dialCallBack(1) up to the post.
UcsAlerting ==
  /\ Callback({"dialing"}, "alerting")
  /\ IF dialCallBack
     THEN ucs_pc' = "ok" /\ call_out_result' = "SUCCESS"
     ELSE UNCHANGED <<ucs_pc, call_out_result>>
  /\ UNCHANGED <<stm, face, recorder, display_state, peer_type, call_time,
                 answered, timer, dialers, ui_pc, connect_state, call_status,
                 dialCallBack, ucs_hungup, busy, inputs>>

UcsOkPost ==
  /\ ucs_pc = "ok"
  /\ ucs_pc' = "enc"
  /\ Post(Msg("EV_TALK_CALLOUTOK"))
  /\ UNCHANGED <<face, recorder, display_state, talk, timer, dialers, ui_pc,
                 connect_state, call_status, dialCallBack, ucs_call, ucs_hungup,
                 busy, inputs>>

UcsEncOn ==
  /\ ucs_pc = "enc"
  /\ ucs_pc' = "idle"
  /\ IF IsEntrance(peer_type) THEN UNCHANGED h264enc ELSE EncOn("talk")
  /\ UNCHANGED <<stm, face, start_record, record_state, record_time, avi,
                 display_state, talk, timer, dialers, ui_pc, connect_state,
                 call_status, dialCallBack, ucs_call, ucs_hungup, busy, inputs>>

\* on_answer_cb, cbAnswer
UcsAnswered ==
  /\ Callback({"alerting"}, "talking")
  /\ Post(Msg("EV_TALK_ANSWER"))
  /\ UNCHANGED <<face, recorder, display_state, talk, timer, dialers, ui_pc,
                 connect_state, call_status, dialCallBack, ucs_hungup, ucs_pc,
                 busy, inputs>>

\* on_hangup_cb, cbHangup: the peer hung up.
UcsPeerHangup ==
  /\ Callback({"alerting", "incoming", "talking"}, "none")
  /\ call_status' = 0
  /\ dialCallBack' = FALSE
  /\ Post(HangupMsg("PEER"))
  /\ UNCHANGED <<face, recorder, display_state, talk, timer, dialers, ui_pc,
                 connect_state, ucs_hungup, ucs_pc, busy, inputs>>

\* on_hangup_cb for any other reason, which cbHangup ignores.
UcsCallLost ==
  /\ Callback({"alerting", "incoming", "talking"}, "none")
  /\ call_status' = 0
  /\ UNCHANGED <<stm, face, recorder, display_state, talk, timer, dialers,
                 ui_pc, connect_state, dialCallBack, ucs_hungup, ucs_pc, busy,
                 inputs>>

\* on_hangup_cb, cbHangup: the report of a hangup of ours, which may come
\* after the next dial.
UcsOwnHangup ==
  /\ ucs_pc = "idle"
  /\ ucs_hungup
  /\ ucs_hungup' = FALSE
  /\ call_status' = 0
  /\ dialCallBack' = FALSE
  /\ Post(HangupMsg("BUTTON"))
  /\ UNCHANGED <<face, recorder, display_state, talk, timer, dialers, ui_pc,
                 connect_state, ucs_call, ucs_pc, busy, inputs>>

Input == inputs < MaxInputs /\ inputs' = inputs + 1

\* Mutant of UcsIncoming: the line is not asked whether it is busy.
UcsIncomingAnyway(u) ==
  /\ Input
  /\ connect_state = 1
  /\ Callback({"none"}, "incoming")
  /\ ucs_pc' = "incoming"
  /\ busy' = TRUE
  /\ Post(CallMsg("EV_TALK_CALLIN", u))
  /\ UNCHANGED <<face, recorder, display_state, talk, timer, dialers, ui_pc,
                 connect_state, call_status, dialCallBack, ucs_hungup>>

\* on_incomingcall_cb, cblIncomingCall: a call that finds the line busy is
\* left ringing.  There is something to hang up only after the event is posted.
UcsIncoming(u) ==
  /\ Input
  /\ connect_state = 1
  /\ Callback({"none"}, "incoming")
  /\ ucs_pc' = "incoming"
  /\ IF busy THEN UNCHANGED <<stm, busy>>
     ELSE busy' = TRUE /\ Post(CallMsg("EV_TALK_CALLIN", u))
  /\ UNCHANGED <<face, recorder, display_state, talk, timer, dialers, ui_pc,
                 connect_state, call_status, dialCallBack, ucs_hungup>>

UcsIncomingEnd ==
  /\ ucs_pc = "incoming"
  /\ ucs_pc' = "idle"
  /\ call_status' = 1
  /\ UNCHANGED <<stm, face, recorder, display_state, talk, timer, dialers,
                 ui_pc, connect_state, dialCallBack, ucs_call, ucs_hungup, busy,
                 inputs>>

\* The SDK logs in (connect_event_cb) or is disconnected (ucsDisconnect).
UcsConnection ==
  /\ "Connection" \in Features
  /\ Input
  /\ connect_state' = 1 - connect_state
  /\ UNCHANGED <<stm, face, recorder, display_state, talk, timer, dialers,
                 ui_pc, call_status, dialCallBack, ucs_call, ucs_hungup, ucs_pc,
                 busy>>

\* cbReceivedCmd, MSG_TYPE_RESET_TALK_TIME
ResetCallTime(t) ==
  /\ Input
  /\ ucs_pc = "idle"
  /\ call_time' = t
  /\ UNCHANGED <<stm, face, recorder, display_state, peer_type,
                 call_out_result, answered, timer, dialers, ui_pc, ucs, busy>>

\* What the SDK owes: the report of a hangup, the end of a running callback.
UcsDue ==
  \/ UcsFailPost \/ UcsOkPost \/ UcsEncOn \/ UcsIncomingEnd \/ UcsOwnHangup

\* What the SDK may do.
UcsMay ==
  \/ UcsDialFailed \/ UcsAlerting \/ UcsAnswered \/ UcsPeerHangup
  \/ UcsCallLost
  \/ \E u \in Callers : UcsIncoming(u)
  \/ \E t \in ResetTimes : ResetCallTime(t)
  \/ UcsConnection

-----------------------------------------------------------------------------
(* The other callers of my_video, the encoder and the display.             *)

Request(m) ==
  /\ Input
  /\ Post(m)
  /\ UNCHANGED <<face, recorder, display_state, talk, timer, dialers, ui_pc,
                 ucs, busy>>

\* iconviewNotify calls videoCallOut, which posts and then forgets the
\* result of the last call.
UiCallOut(u) ==
  /\ Input
  /\ ui_pc = "idle"
  /\ ui_pc' = "clear"
  /\ Post(CallMsg("EV_TALK_CALLOUT", u))
  /\ UNCHANGED <<face, recorder, display_state, talk, timer, dialers, ucs, busy>>

UiClear ==
  /\ ui_pc = "clear"
  /\ ui_pc' = "idle"
  /\ ForgetResult
  /\ UNCHANGED <<stm, face, recorder, display_state, timer, dialers, ucs, busy,
                 inputs>>

\* recordVideoCallbackFunc, on the encoder's thread.
KeyFrame ==
  /\ start_record
  /\ avi = "open"
  /\ avi' = "written"
  /\ UNCHANGED <<stm, face, h264enc, start_record, record_state, record_time,
                 display_state, talk, timer, dialers, ui_pc, ucs, busy, inputs>>

\* threadVideoMsgDeal serves the requests of the forms and of showPeerVideo.
Display(d) ==
  /\ d # display_state
  /\ display_state' = d
  /\ UNCHANGED <<stm, face, recorder, talk, timer, dialers, ui_pc, ucs, busy,
                 inputs>>

Displays == IF "Display" \in Features THEN {"off", "local", "peer"} ELSE {"local"}

Ui ==
  \/ \E m \in Requests : Request(m)
  \/ \E u \in Callees : UiCallOut(u)
  \/ \E d \in Displays : Display(d)

-----------------------------------------------------------------------------
Next ==
  \/ StmStep
  \/ Timer
  \/ \E d \in Dialers : Dialer(d)
  \/ UcsDue
  \/ UcsMay
  \/ Ui
  \/ UiClear
  \/ KeyFrame

Spec == Init /\ [][Next]_vars

\* The threads of the program keep running, the camera delivers key frames,
\* and the SDK reports every hangup it was asked for.  Nobody is obliged to
\* call, to answer or to press a button.
Fairness ==
  /\ WF_vars(StmStep)
  /\ WF_vars(Timer)
  /\ \A d \in Dialers : WF_vars(Dialer(d))
  /\ WF_vars(UcsDue)
  /\ WF_vars(UiClear)
  /\ WF_vars(KeyFrame)

FairSpec == Spec /\ Fairness

-----------------------------------------------------------------------------
CallStates == {"ST_TALK_CALLOUT", "ST_TALK_CALLOUTALL", "ST_TALK_CALLIN",
               "ST_TALK_TALKING"}

DialerLabels == {"none", "next", "post", "clear", "wait"}

TypeOK ==
  /\ queue \in Seq(Messages) /\ Len(queue) <= QueueSize
  /\ overflowed \in BOOLEAN
  /\ cur_state \in States
  /\ face_state \in BOOLEAN
  /\ h264enc \in {"off", "record", "talk"}
  /\ start_record \in BOOLEAN
  /\ display_state \in {"local", "peer", "off"}
  /\ record_state \in 0 .. 1
  /\ record_time \in Int
  /\ avi \in {"none", "open", "written"}
  /\ peer_type \in PeerTypes
  /\ call_out_result \in {"NO", "SUCCESS", "FAIL"}
  /\ call_time \in Int
  /\ answered \in 0 .. 1
  /\ timer_pc \in {"call", "countCall", "record", "countRecord"}
  /\ tested \in Int
  /\ dialer \in [Dialers -> DialerLabels]
  /\ user_num \in [Dialers -> Nat]
  /\ ui_pc \in {"idle", "clear"}
  /\ connect_state \in 0 .. 1
  /\ call_status \in 0 .. 1
  /\ dialCallBack \in BOOLEAN
  /\ busy \in BOOLEAN
  /\ ucs_call \in {"none", "dialing", "alerting", "incoming", "talking"}
  /\ ucs_hungup \in BOOLEAN
  /\ ucs_pc \in {"idle", "ok", "enc", "fail", "incoming"}
  /\ inputs \in Nat

Queued(ev) == \E i \in DOMAIN queue : queue[i].ev = ev

\* The two states the machine passes through leave only by an event that the
\* machine posts to itself: while it is in one of them, that event is in the
\* queue, whatever else was posted, unless the queue was full once
\* (my_video.c:346-349, 971-986).
TransientStatesEnd ==
  ~overflowed =>
    /\ cur_state = "ST_FACEOFF_RECORD" => Queued("EV_FACE_OFF_FINISH")
    /\ cur_state = "ST_RECORD_STOPPING" => Queued("EV_RECORD_STOP_FINISHED")

\* Camera frames reach the face detector in ST_FACE and in no other state:
\* every row that leaves ST_FACE closes it first (my_video.c:247-309).
FaceFollowsState == face_state = (cur_state = "ST_FACE")

\* A call is marked answered exactly while the machine is in ST_TALK_TALKING
\* (my_video.c:553-612).
AnsweredIsTalking == (answered = 1) = (cur_state = "ST_TALK_TALKING")

\* ST_RECORDING cannot be left through stmDoRecordStop unless record_state is
\* 1, so it is (my_video.c:905-907, 973-975), although recordings of calls
\* share the flag and stopping the encoder clears it.
RecordingIsOn == cur_state = "ST_RECORDING" => record_state = 1

\* While the encoder feeds a recording, the encoder is on, its file is open
\* and record_state says so (my_video.c:834-855, 901-987).
RecorderWritesFile ==
  start_record => h264enc # "off" /\ avi # "none" /\ record_state = 1

\* The encoder is on only in a call or a recording.
EncoderOnlyWhenUsed ==
  h264enc # "off" => cur_state \in CallStates \cup {"ST_RECORDING"}

\* While a cloud call rings or is talked, the LAN line is busy, so that no LAN
\* caller gets in: the SDK's thread sets it busy with the call, the machine's
\* thread sets it idle with a hangup, and no hangup of an earlier call undoes
\* the one of a later.  It holds where nobody calls out (protocol_talk.c:134,
\* 246-258).
CloudCallHoldsLine ==
  cur_state \in {"ST_TALK_CALLIN", "ST_TALK_TALKING"} => busy

\* A result counts as processed (CALL_RESULT_NO) only once the thread that
\* waits for it has seen it (my_video.c:124).
ResultsAreProcessed ==
  [][call_out_result # "NO" /\ call_out_result' = "NO"
       => \E d \in Dialers : dialer[d] = "wait" /\ dialer'[d] # "wait"]_vars

\* A call that rings or is talked is timed: its count runs, or the event that
\* ends the call, or the one that starts its count, is on its way.  It holds
\* for one call out at a time, of a build that decrements the count it tested
\* (my_video.c:441, 542, 571, 609, 1257-1268).
CallsAreTimed ==
  cur_state \in CallStates \ {"ST_TALK_CALLOUTALL"} =>
    \/ overflowed
    \/ call_time > 0
    \/ Queued("EV_TALK_HANGUP") \/ Queued("EV_FACE_OFF_FINISH")

\* A recording, in a call or not, is timed: its count runs, or the event that
\* stops it is on its way.  A count that a stopped recording left in the timer
\* does not disturb the next one, in a build that decrements the count it tested
\* (my_video.c:901-987, 1270-1276).
RecordingsAreTimed ==
  start_record =>
    \/ overflowed
    \/ record_time > 0
    \/ Queued("EV_RECORD_STOP")

\* ST_TALK_CALLOUTALL is left at the latest when its dialler is through: until
\* then a dialler is at work, or the event that starts one, the one that ends
\* the round or the one that reports its success is on its way
\* (my_video.c:455-513).
CalloutAllIsDialled ==
  cur_state = "ST_TALK_CALLOUTALL" =>
    \/ overflowed
    \/ \E d \in Dialers : dialer[d] # "none"
    \/ Queued("EV_FACE_OFF_FINISH") \/ Queued("EV_TALK_HANGUPALL")
    \/ Queued("EV_TALK_CALLOUTOK") \/ ucs_pc = "ok"

\* Every call ends, by its timeout if by nothing else, unless an event was
\* lost to a full queue.
CallsEnd == cur_state \in CallStates ~> cur_state \notin CallStates \/ overflowed

\* A recording of the local camera ends by itself.
RecordingsEnd ==
  cur_state = "ST_RECORDING" /\ start_record ~>
    cur_state # "ST_RECORDING" \/ overflowed
=============================================================================
