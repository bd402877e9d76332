--------------------------- MODULE TalkProtocol ---------------------------
(***************************************************************************)
(* The LAN intercom machine: src/src/app/udp_talk/udp_talk_protocol.c on   *)
(* the state machine of src/src/app/state_machine.c.                       *)
(*                                                                         *)
(* One thread takes events from a queue, looks up a row for the event and  *)
(* the current state, and runs the row's handler; an event without a row   *)
(* runs the handler of the last row again, with the event's number where   *)
(* the flag is and garbage where the addresses are.  Packets of other      *)
(* devices, the application and the three one-second counts post events;   *)
(* a cloud call writes the state directly (setStatusBusy, setStatusIdle).  *)
(* A handler runs as a whole; the timer's test of time_call and its        *)
(* decrement are two steps, because the machine writes time_call between.  *)
(*                                                                         *)
(* The program creates the machine for the 3000 protocol, has no table of  *)
(* devices (isCenter, isDmk, isHDmk are the defaults, -1) and registers no *)
(* extension, so every caller is of EVENT_TYPE_HM; the rows of the other   *)
(* types, of extensions and of video_st_machine_u9 are never looked up.    *)
(***************************************************************************)
EXTENDS Integers, Sequences, FiniteSets

CONSTANTS
  Devices,     \* addresses of the devices whose machine is modelled
  Others,      \* addresses of other devices
  Nobody,      \* an empty or garbage address
  QueueSize,   \* slots of the event queue, 32 in the code
  COMM_TIME, SHAKE_TIME, TALK_TIME, RING_TIME,
  Reloads,     \* the build loads time_call again to decrement it (-O0)
  MaxSending   \* bound: packets that may still time out

ASSUME TalkAssumption ==
  /\ Nobody \notin Devices \cup Others
  /\ {QueueSize, COMM_TIME, SHAKE_TIME, TALK_TIME, RING_TIME} \subseteq Nat \ {0}
  /\ Reloads \in BOOLEAN
  /\ MaxSending \in Nat

States == {"ST_IDLE", "ST_SHAKEHANDS", "ST_SHAKEHANDS_ASW", "ST_JUDGE_TYPE",
           "ST_RING", "ST_DIAL", "ST_CALL", "ST_TALK"}

Fails == {"DO_FAIL_COMM", "DO_FAIL_SHAKE", "DO_FAIL_BUSY"}
Runs  == {"DO_NO", "DO_SHAKEHANDS", "DO_SHAKEHANDS_ASW", "DO_JUDGE_TYPE",
          "DO_DIAL", "DO_CALL", "DO_TALK", "DO_TALK_EX", "DO_RING",
          "DO_RET_FAIL", "DO_HANGUP"} \cup Fails

\* The events that are posted, with their numbers in the enumeration.
Number == [EVENT_SHAKEHANDS |-> 0, EVENT_SHAKEHANDS_ASW |-> 1,
           EVENT_TYPE_HM |-> 3, EVENT_DIAL |-> 6, EVENT_CALL |-> 7,
           EVENT_TALK |-> 8, EVENT_TALK_EX |-> 9, EVENT_RING |-> 10,
           EVENT_FAIL_COMM |-> 12, EVENT_FAIL_SHAKE |-> 13,
           EVENT_FAIL_BUSY |-> 14, EVENT_HANGUP |-> 16]
Events == DOMAIN Number

Commands == {"CMD_CALL", "CMD_TALK", "CMD_TRANSTALK", "CMD_OVER", "ASW_OK",
             "ASW_FAIL", "CMD_SHAKEHANDS", "CMD_SHAKEHANDS_ASW"}

Peers     == Devices \cup Others
Addresses == Peers \cup {Nobody}
Messages  == [ev : Events, ip : Addresses, flag : 0 .. 16]

Row(ev, cur, next, run) == [ev |-> ev, cur |-> cur, next |-> next, run |-> run]
Stay(ev, states, run) == {Row(ev, s, s, run) : s \in states}
Ends(ev, states, run) == {Row(ev, s, "ST_IDLE", run) : s \in states}

stm_video_state_bz ==
  {Row("EVENT_SHAKEHANDS", "ST_IDLE", "ST_SHAKEHANDS", "DO_SHAKEHANDS"),
   Row("EVENT_SHAKEHANDS_ASW", "ST_IDLE", "ST_SHAKEHANDS_ASW", "DO_SHAKEHANDS_ASW"),
   Row("EVENT_RING", "ST_SHAKEHANDS_ASW", "ST_SHAKEHANDS_ASW", "DO_JUDGE_TYPE"),
   Row("EVENT_TYPE_HM", "ST_SHAKEHANDS_ASW", "ST_RING", "DO_RING"),
   Row("EVENT_DIAL", "ST_SHAKEHANDS", "ST_DIAL", "DO_DIAL"),
   Row("EVENT_TYPE_HM", "ST_JUDGE_TYPE", "ST_IDLE", "DO_NO"),
   Row("EVENT_DIAL", "ST_IDLE", "ST_DIAL", "DO_DIAL"),
   Row("EVENT_RING", "ST_IDLE", "ST_JUDGE_TYPE", "DO_JUDGE_TYPE"),
   Row("EVENT_CALL", "ST_DIAL", "ST_CALL", "DO_CALL"),
   Row("EVENT_TALK", "ST_CALL", "ST_TALK", "DO_TALK"),
   Row("EVENT_TALK", "ST_RING", "ST_TALK", "DO_TALK"),
   Row("EVENT_TALK_EX", "ST_RING", "ST_TALK", "DO_TALK_EX")}
  \cup Stay("EVENT_SHAKEHANDS_ASW",
            {"ST_RING", "ST_JUDGE_TYPE", "ST_DIAL", "ST_CALL", "ST_TALK"},
            "DO_SHAKEHANDS_ASW")
  \cup Stay("EVENT_RING", {"ST_DIAL", "ST_CALL", "ST_TALK", "ST_RING"}, "DO_RET_FAIL")
  \cup Ends("EVENT_FAIL_COMM", {"ST_DIAL", "ST_SHAKEHANDS"}, "DO_FAIL_COMM")
  \cup Ends("EVENT_FAIL_BUSY", {"ST_DIAL"}, "DO_FAIL_BUSY")
  \cup Ends("EVENT_FAIL_SHAKE", {"ST_SHAKEHANDS", "ST_SHAKEHANDS_ASW"}, "DO_FAIL_SHAKE")
  \cup Ends("EVENT_HANGUP", States \ {"ST_IDLE"}, "DO_HANGUP")

-----------------------------------------------------------------------------
VARIABLES
  queue, overflowed,  \* events; a post found the queue full (history)
  cur_state,
  status_run,         \* the handler of the last row that was found
  priv,               \* This->priv: the counts, cPeerIP, PeerPort is set
  timer,              \* videoTimerThread: where it is, the count it tested
  sending,            \* packets with a callback that may still time out
  sent,               \* packets the last step gave to udpSend
  busy,               \* the state was set for a cloud call (history)
  raced               \* a count was decremented after it was cleared (history)

machine == <<queue, overflowed, cur_state, status_run>>
vars    == <<machine, priv, timer, sending, sent, busy, raced>>

Priv(call, comm, shake, ip, port) ==
  [time_call |-> call, time_comm |-> comm, time_shake |-> shake,
   cPeerIP |-> ip, PeerPort |-> port]

Init ==
  /\ queue = [d \in Devices |-> <<>>]
  /\ overflowed = [d \in Devices |-> FALSE]
  /\ cur_state = [d \in Devices |-> "ST_IDLE"]
  /\ status_run = [d \in Devices |-> "DO_NO"]
  /\ priv = [d \in Devices |-> Priv(0, 0, 0, Nobody, FALSE)]
  /\ timer = [d \in Devices |-> [pc |-> "test", tested |-> 0]]
  /\ sending = [d \in Devices |-> 0]
  /\ sent = {}
  /\ busy = [d \in Devices |-> FALSE]
  /\ raced = [d \in Devices |-> FALSE]

-----------------------------------------------------------------------------
Msg(ev, ip, flag) == [ev |-> ev, ip |-> ip, flag |-> flag]

\* Mutant of PostTo: the length is not tested.
PostToAlways(d, q, m) ==
  /\ queue' = [queue EXCEPT ![d] = Append(q, m)]
  /\ UNCHANGED overflowed

\* msgPost drops the event when the queue is full.
PostTo(d, q, m) ==
  /\ queue' = [queue EXCEPT ![d] = IF Len(q) < QueueSize THEN Append(q, m) ELSE q]
  /\ overflowed' = [overflowed EXCEPT ![d] = @ \/ Len(q) >= QueueSize]

\* What is assigned in This->priv: the counts, and whom the call is with.
Assign(d, call, comm, shake, ip, port) ==
  priv' = [priv EXCEPT ![d] = Priv(call, comm, shake, ip, port)]
SetCounts(d, call, comm, shake) ==
  Assign(d, call, comm, shake, priv[d].cPeerIP, priv[d].PeerPort)

\* The handler posts nothing.
TakenFrom(d, q) == queue' = [queue EXCEPT ![d] = q] /\ UNCHANGED overflowed

\* udpSend of a packet without and with a callback; one to an empty or
\* garbage address, or to port 0, goes nowhere.
Packet(d, ip, cmd) ==
  IF ip \in Peers THEN {[from |-> d, to |-> ip, cmd |-> cmd]} ELSE {}
Send(d, ip, cmd) == sent' = Packet(d, ip, cmd) /\ UNCHANGED sending
SendWithCallback(d, ip, cmd) ==
  /\ sent' = Packet(d, ip, cmd)
  /\ sending' = [sending EXCEPT ![d] = IF @ < MaxSending THEN @ + 1 ELSE @]
SendNothing == sent' = {} /\ UNCHANGED sending

\* cPeerIP and PeerPort as the address of a packet.
PeerOf(d) == IF priv[d].PeerPort THEN priv[d].cPeerIP ELSE Nobody

-----------------------------------------------------------------------------
(* The handlers: m is the event, q the queue without it.                   *)

DoNothing(d, q) == TakenFrom(d, q) /\ SendNothing /\ UNCHANGED priv

\* Mutant of ShakeHands: the count is not started.
ShakeHandsUntimed(d, m, q) ==
  /\ Assign(d, priv[d].time_call, priv[d].time_comm, priv[d].time_shake, m.ip,
            priv[d].PeerPort)
  /\ SendWithCallback(d, m.ip, "CMD_SHAKEHANDS")
  /\ TakenFrom(d, q)

ShakeHands(d, m, q) ==
  /\ Assign(d, priv[d].time_call, priv[d].time_comm, SHAKE_TIME, m.ip, priv[d].PeerPort)
  /\ SendWithCallback(d, m.ip, "CMD_SHAKEHANDS")
  /\ TakenFrom(d, q)

ShakeHandsRet(d, m, q) ==
  /\ SetCounts(d, priv[d].time_call, priv[d].time_comm, SHAKE_TIME)
  /\ Send(d, m.ip, "CMD_SHAKEHANDS_ASW")
  /\ TakenFrom(d, q)

\* Every caller is of type HM; its data travels on behind the queue.
JudgeType(d, m, q) ==
  /\ PostTo(d, q, Msg("EVENT_TYPE_HM", m.ip, m.flag))
  /\ SendNothing
  /\ UNCHANGED priv

CallIP(d, m, q) ==
  /\ Assign(d, priv[d].time_call, COMM_TIME, priv[d].time_shake, m.ip, TRUE)
  /\ SendWithCallback(d, m.ip, "CMD_CALL")
  /\ TakenFrom(d, q)

RetCall(d, q) ==
  /\ SetCounts(d, RING_TIME, priv[d].time_comm, priv[d].time_shake)
  /\ SendNothing
  /\ TakenFrom(d, q)

\* Mutant of Ring: time_call is not started.
RingUntimed(d, m, q) ==
  /\ Assign(d, priv[d].time_call, priv[d].time_comm, priv[d].time_shake, m.ip, TRUE)
  /\ Send(d, m.ip, "ASW_OK")
  /\ TakenFrom(d, q)

Ring(d, m, q) ==
  /\ Assign(d, RING_TIME, priv[d].time_comm, priv[d].time_shake, m.ip, TRUE)
  /\ Send(d, m.ip, "ASW_OK")
  /\ TakenFrom(d, q)

StmAnswer(d, q) ==
  /\ Assign(d, TALK_TIME, priv[d].time_comm, priv[d].time_shake, priv[d].cPeerIP, TRUE)
  /\ Send(d, priv[d].cPeerIP, "CMD_TALK")
  /\ TakenFrom(d, q)

\* Mutant of RetFail: the refused caller is taken for the peer.
RetFailTaken(d, m, q) ==
  /\ Assign(d, priv[d].time_call, priv[d].time_comm, priv[d].time_shake, m.ip,
            priv[d].PeerPort)
  /\ Send(d, m.ip, "ASW_FAIL")
  /\ TakenFrom(d, q)

RetFail(d, m, q) == Send(d, m.ip, "ASW_FAIL") /\ TakenFrom(d, q) /\ UNCHANGED priv

\* stmOver: the other side is told unless it was the one that hung up.
StmOver(d, flag, q) ==
  /\ Assign(d, 0, priv[d].time_comm, priv[d].time_shake, Nobody, FALSE)
  /\ IF flag # 0 THEN Send(d, PeerOf(d), "CMD_OVER") ELSE SendNothing
  /\ TakenFrom(d, q)

\* stmFail only shows a message, but for the flag of an aborted call.
Fail(d, m, q) == IF m.flag = 3 THEN StmOver(d, 1, q) ELSE DoNothing(d, q)

\* videoTransSTMHanldeVideo; without a registered extension AnswerEx does
\* nothing.
Handle(d, run, m, q) ==
  \/ run \in {"DO_NO", "DO_TALK_EX"} /\ DoNothing(d, q)
  \/ run = "DO_SHAKEHANDS" /\ ShakeHands(d, m, q)
  \/ run = "DO_SHAKEHANDS_ASW" /\ ShakeHandsRet(d, m, q)
  \/ run = "DO_JUDGE_TYPE" /\ JudgeType(d, m, q)
  \/ run = "DO_DIAL" /\ CallIP(d, m, q)
  \/ run = "DO_CALL" /\ RetCall(d, q)
  \/ run = "DO_TALK" /\ StmAnswer(d, q)
  \/ run = "DO_RING" /\ Ring(d, m, q)
  \/ run \in Fails /\ Fail(d, m, q)
  \/ run = "DO_RET_FAIL" /\ RetFail(d, m, q)
  \/ run = "DO_HANGUP" /\ StmOver(d, m.flag, q)

-----------------------------------------------------------------------------
(* stmThread                                                               *)

\* The row of an event in the state it is handled in.
Found(d, row) == row.ev = Head(queue[d]).ev /\ row.cur = cur_state[d]

\* The state and the handler to run are set before the handler runs.
ExecEntry(d) ==
  /\ queue[d] # <<>>
  /\ \E row \in stm_video_state_bz :
        /\ Found(d, row)
        /\ cur_state' = [cur_state EXCEPT ![d] = row.next]
        /\ status_run' = [status_run EXCEPT ![d] = row.run]
        /\ busy' = [busy EXCEPT ![d] = @ /\ row.next # "ST_IDLE"]
        /\ Handle(d, row.run, Head(queue[d]), Tail(queue[d]))
  /\ UNCHANGED <<timer, raced>>

\* No row: the last handler is given the address of the event's number.
NoEntry(d) ==
  /\ queue[d] # <<>>
  /\ ~\E row \in stm_video_state_bz : Found(d, row)
  /\ LET ev == Head(queue[d]).ev IN
     Handle(d, status_run[d], Msg(ev, Nobody, Number[ev]), Tail(queue[d]))
  /\ UNCHANGED <<cur_state, status_run, timer, busy, raced>>

StmThread(d) == ExecEntry(d) \/ NoEntry(d)

-----------------------------------------------------------------------------
(* videoTransHandleCallTime, in videoTimerThread                           *)

\* Outside of the machine's thread.
Outside == sent' = {} /\ UNCHANGED <<cur_state, status_run, sending, busy>>

\* A tick that finds time_call set goes on to decrement it.
TimerTest(d) ==
  /\ timer[d].pc = "test"
  /\ cur_state[d] # "ST_IDLE"
  /\ priv[d].time_call # 0
  /\ timer' = [timer EXCEPT ![d] = [pc |-> "count", tested |-> priv[d].time_call]]
  /\ Outside
  /\ UNCHANGED <<queue, overflowed, priv, raced>>

\* A count below zero takes 2^32 seconds to come round: kept at -1.
Decrement(n) == IF n > 0 THEN n - 1 ELSE -1

\* The other counts are cleared.  The value decremented is the one tested
\* or, loaded again, what the machine's thread wrote meanwhile.
TimerCount(d) ==
  /\ timer[d].pc = "count"
  /\ \E n \in {timer[d].tested} \cup IF Reloads THEN {priv[d].time_call} ELSE {} :
        /\ SetCounts(d, Decrement(n), 0, 0)
        /\ raced' = [raced EXCEPT ![d] = @ \/ n <= 0]
        /\ IF Decrement(n) = 0
           THEN PostTo(d, queue[d], Msg("EVENT_HANGUP", Nobody, 1))
           ELSE TakenFrom(d, queue[d])
  /\ timer' = [timer EXCEPT ![d] = [pc |-> "test", tested |-> 0]]
  /\ Outside

\* A tick without time_call: time_comm stops time_shake.
TimerComm(d) ==
  /\ timer[d].pc = "test"
  /\ cur_state[d] # "ST_IDLE"
  /\ priv[d].time_call = 0
  /\ priv[d].time_comm > 0
  /\ SetCounts(d, 0, priv[d].time_comm - 1, 0)
  /\ IF priv[d].time_comm = 1
     THEN PostTo(d, queue[d], Msg("EVENT_FAIL_COMM", Nobody, 0))
     ELSE TakenFrom(d, queue[d])
  /\ Outside
  /\ UNCHANGED <<timer, raced>>

TimerShake(d) ==
  /\ timer[d].pc = "test"
  /\ cur_state[d] # "ST_IDLE"
  /\ priv[d].time_call = 0
  /\ priv[d].time_comm = 0
  /\ priv[d].time_shake > 0
  /\ SetCounts(d, 0, 0, priv[d].time_shake - 1)
  /\ IF priv[d].time_shake = 1
     THEN PostTo(d, queue[d], Msg("EVENT_FAIL_SHAKE", Nobody, 1))
     ELSE TakenFrom(d, queue[d])
  /\ Outside
  /\ UNCHANGED <<timer, raced>>

Timer(d) == TimerTest(d) \/ TimerCount(d) \/ TimerComm(d) \/ TimerShake(d)

-----------------------------------------------------------------------------
(* What other threads post and write                                       *)

Post(d, m) ==
  /\ PostTo(d, queue[d], m)
  /\ Outside
  /\ UNCHANGED <<priv, timer, raced>>

Ignore(d) ==
  /\ Outside
  /\ UNCHANGED <<queue, overflowed, priv, timer, raced>>

\* videoCall, videoAnswer and videoHangup, for the application.
Call(d, ip) == Post(d, Msg("EVENT_SHAKEHANDS", ip, 0))
Answer(d)   == Post(d, Msg("EVENT_TALK", Nobody, 0))
Hangup(d)   == Post(d, Msg("EVENT_HANGUP", Nobody, 1))

\* A packet with a callback was sent three times without an answer.
SendTimeout(d) ==
  /\ sending[d] > 0
  /\ sending' = [sending EXCEPT ![d] = @ - 1]
  /\ PostTo(d, queue[d], Msg("EVENT_FAIL_COMM", Nobody, 0))
  /\ sent' = {}
  /\ UNCHANGED <<cur_state, status_run, priv, timer, busy, raced>>

\* udpCallHandle, in the thread that reads the socket.
Receive(d, ip, cmd) ==
  \/ cmd = "CMD_CALL" /\ Post(d, Msg("EVENT_RING", ip, 0))
  \/ cmd = "CMD_TALK" /\ Post(d, Msg("EVENT_TALK", Nobody, 0))
  \/ cmd = "CMD_TRANSTALK" /\ Post(d, Msg("EVENT_TALK_EX", ip, 0))
  \/ /\ cmd = "CMD_OVER"
     /\ Post(d, Msg("EVENT_HANGUP", Nobody, IF ip = priv[d].cPeerIP THEN 0 ELSE 1))
  \/ cmd = "ASW_OK" /\ ip = priv[d].cPeerIP /\ Post(d, Msg("EVENT_CALL", ip, 0))
  \/ cmd = "ASW_OK" /\ ip # priv[d].cPeerIP /\ Ignore(d)
  \/ cmd = "ASW_FAIL" /\ Post(d, Msg("EVENT_FAIL_BUSY", Nobody, 2))
  \/ cmd = "CMD_SHAKEHANDS" /\ Post(d, Msg("EVENT_SHAKEHANDS_ASW", ip, 0))
  \/ cmd = "CMD_SHAKEHANDS_ASW" /\ Post(d, Msg("EVENT_DIAL", ip, 0))

\* setCurrentstate of a cloud call, under no lock.
SetStatus(d, state) ==
  /\ cur_state' = [cur_state EXCEPT ![d] = state]
  /\ busy' = [busy EXCEPT ![d] = state # "ST_IDLE"]
  /\ sent' = {}
  /\ UNCHANGED <<queue, overflowed, status_run, priv, timer, sending, raced>>

SetStatusBusy(d) == SetStatus(d, "ST_TALK")
SetStatusIdle(d) == SetStatus(d, "ST_IDLE")

Application(d) == (\E ip \in Peers \ {d} : Call(d, ip)) \/ Answer(d) \/ Hangup(d)
CloudCall(d)   == SetStatusBusy(d) \/ SetStatusIdle(d)

Threads(d) == StmThread(d) \/ Timer(d)
Input(d) ==
  \/ Application(d) \/ CloudCall(d) \/ SendTimeout(d)
  \/ \E ip \in Peers \ {d}, cmd \in Commands : Receive(d, ip, cmd)

Next == \E d \in Devices : Threads(d) \/ Input(d)

Spec == Init /\ [][Next]_vars

\* Both threads run for ever: one blocks only on the empty queue, the other
\* sleeps a second at a time.
Fairness == \A d \in Devices : WF_vars(StmThread(d)) /\ WF_vars(Timer(d))

-----------------------------------------------------------------------------
(* Properties *)

ValueTypes ==
  /\ queue \in [Devices -> Seq(Messages)]
  /\ \A d \in Devices : Len(queue[d]) <= QueueSize
  /\ cur_state \in [Devices -> States]
  /\ status_run \in [Devices -> Runs]
  /\ priv \in [Devices -> [time_call : Nat \cup {-1}, time_comm : Nat,
                           time_shake : Nat, cPeerIP : Addresses,
                           PeerPort : BOOLEAN]]
  /\ timer \in [Devices -> [pc : {"test", "count"}, tested : Nat \cup {-1}]]
  /\ sending \in [Devices -> 0 .. MaxSending]
  /\ sent \subseteq [from : Devices, to : Peers, cmd : Commands]

FlagTypes ==
  /\ overflowed \in [Devices -> BOOLEAN]
  /\ busy \in [Devices -> BOOLEAN]
  /\ raced \in [Devices -> BOOLEAN]

\* Types; the queue keeps its bound, and a count below zero is a race of the
\* timer with the machine.
TypeOK ==
  /\ ValueTypes /\ FlagTypes
  /\ \A d \in Devices : priv[d].time_call = -1 => raced[d]

Queued(d, events) == \E i \in 1 .. Len(queue[d]) : queue[d][i].ev \in events

\* What gets the machine out of a state without the help of another device.
Counting(d) ==
  \/ priv[d].time_call > 0
  \/ /\ priv[d].time_comm > 0
     /\ cur_state[d] \in {"ST_SHAKEHANDS", "ST_SHAKEHANDS_ASW", "ST_DIAL"}
  \/ /\ priv[d].time_shake > 0
     /\ cur_state[d] \in {"ST_SHAKEHANDS", "ST_SHAKEHANDS_ASW"}

EndEvents == [s \in States |->
  {"EVENT_HANGUP"}
    \cup (IF s \in {"ST_SHAKEHANDS", "ST_SHAKEHANDS_ASW", "ST_DIAL"}
          THEN {"EVENT_FAIL_COMM"} ELSE {})
    \cup (IF s \in {"ST_SHAKEHANDS", "ST_SHAKEHANDS_ASW"}
          THEN {"EVENT_FAIL_SHAKE"} ELSE {})
    \cup (IF s \in {"ST_JUDGE_TYPE", "ST_SHAKEHANDS_ASW"}
          THEN {"EVENT_TYPE_HM"} ELSE {})]

Disturbed(d) == busy[d] \/ raced[d] \/ overflowed[d]

\* The line is never left in a call that nothing will end: in every state
\* but idle a count runs that will end it, or the event that ends it is in
\* the queue, although the three counts clear each other, survive the calls
\* they were set for and an event without a row runs a handler of the past.
\* A cloud call ends by the cloud; a full queue and the timer's race are
\* excepted.
LineTimed ==
  \A d \in Devices :
    cur_state[d] # "ST_IDLE" /\ ~Disturbed(d) =>
      Counting(d) \/ Queued(d, EndEvents[cur_state[d]])

\* A call in progress keeps its peer: other callers, stale answers and
\* events without a row do not change whom CMD_TALK and CMD_OVER go to.
PeerKept ==
  [][\A d \in Devices :
       /\ cur_state[d] \in {"ST_CALL", "ST_TALK"}
       /\ cur_state'[d] # "ST_IDLE" /\ ~busy'[d]
       => priv'[d].cPeerIP = priv[d].cPeerIP]_vars

\* Whatever happened to it, the line becomes idle again when nothing more
\* happens to it, unless a cloud call holds it.
LineEnds == \A d \in Devices : []<>(cur_state[d] = "ST_IDLE" \/ Disturbed(d))
=============================================================================
