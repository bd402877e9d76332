--------------------------- MODULE Intercom_proof ---------------------------
(***************************************************************************)
(* Any number of devices on a network: each does what TalkProtocol lets    *)
(* one device do among others, so that what is proved there of the line    *)
(* holds of all of them.  What has to be shown is that no device ever      *)
(* writes to itself: its addresses come from packets, from the user and    *)
(* from the call before.                                                   *)
(***************************************************************************)
EXTENDS Intercom, TalkProtocol_proof

USE TalkAssumption DEF TalkAssumption

-----------------------------------------------------------------------------
(* A device knows no address that is its own.                              *)

OthersIn(d, q) == \A i \in 1 .. Len(q) : q[i].ip # d

NotSelf(d) == priv[d].cPeerIP # d /\ OthersIn(d, queue[d])

NotSelfInv == \A d \in Devices : NotSelf(d)

\* Packets go from one device to another.
Routed == [from : Devices, to : Devices, cmd : Commands]

NetworkInv == network \subseteq {p \in Routed : p.from # p.to}

IntercomInv == TypeOK /\ NotSelfInv /\ NetworkInv

SentByTo(d) == \A p \in sent' : p.from = d /\ p.to # d

LEMMA PostNotSelf ==
  ASSUME NEW d \in Devices, QueueType, NEW q \in Seq(Messages), OthersIn(d, q),
         TakenFrom(d, q) \/ \E m \in Messages : m.ip # d /\ PostTo(d, q, m)
  PROVE  OthersIn(d, queue'[d])
<1>1. CASE TakenFrom(d, q)
  BY <1>1 DEF TakenFrom, QueueType
<1>2. ASSUME NEW m \in Messages, m.ip # d, PostTo(d, q, m)
      PROVE  OthersIn(d, queue'[d])
  <2>1. queue'[d] = IF Len(q) < QueueSize THEN Append(q, m) ELSE q
    BY <1>2 DEF PostTo, QueueType
  <2>2. CASE Len(q) < QueueSize
    <3>1. queue'[d] = Append(q, m)
      BY <2>1, <2>2
    <3> QED BY <1>2, <3>1 DEF OthersIn
  <2>3. CASE ~(Len(q) < QueueSize)
    BY <2>1, <2>3
  <2> QED BY <2>2, <2>3
<1> QED BY <1>1, <1>2

LEMMA PacketNotSelf ==
  ASSUME NEW d \in Devices, NEW ip, ip # d, NEW cmd, sent' = Packet(d, ip, cmd)
  PROVE  SentByTo(d)
BY DEF Packet, SentByTo

\* A handler whose event, queue and peer are of others.
LEMMA HandleNotSelf ==
  ASSUME NEW d \in Devices, QueueType, PrivType, NEW run, NEW m \in Messages,
         m.ip # d, NEW q \in Seq(Messages), OthersIn(d, q),
         priv[d].cPeerIP # d, Handle(d, run, m, q)
  PROVE  NotSelf(d)' /\ SentByTo(d)
<1>1. TakenFrom(d, q) => OthersIn(d, queue'[d])
  BY PostNotSelf
<1>2. ASSUME NEW call, NEW comm, NEW shake, NEW ip, NEW port, ip # d,
             Assign(d, call, comm, shake, ip, port)
      PROVE  priv'[d].cPeerIP # d
  BY <1>2 DEF Assign, Priv, PrivType
<1>3. ASSUME NEW call, NEW comm, NEW shake, SetCounts(d, call, comm, shake)
      PROVE  priv'[d].cPeerIP # d
  BY <1>2, <1>3 DEF SetCounts
<1>4. ASSUME NEW ip, ip # d, NEW cmd,
             Send(d, ip, cmd) \/ SendWithCallback(d, ip, cmd)
      PROVE  SentByTo(d)
  BY <1>4, PacketNotSelf DEF Send, SendWithCallback
<1>5. SendNothing => SentByTo(d)
  BY DEF SendNothing, SentByTo
<1>6. Nobody # d
  OBVIOUS
<1>7. CASE DoNothing(d, q)
  BY <1>1, <1>5, <1>7 DEF DoNothing, NotSelf
<1>8. CASE ShakeHands(d, m, q)
  BY <1>1, <1>2, <1>4, <1>8 DEF ShakeHands, NotSelf
<1>9. CASE ShakeHandsRet(d, m, q)
  BY <1>1, <1>3, <1>4, <1>9 DEF ShakeHandsRet, NotSelf
<1>10. CASE JudgeType(d, m, q)
  <2>1. Msg("EVENT_TYPE_HM", m.ip, m.flag) \in Messages
        /\ Msg("EVENT_TYPE_HM", m.ip, m.flag).ip # d
    BY NumberType DEF Msg, Messages
  <2>2. OthersIn(d, queue'[d])
    BY <1>10, <2>1, PostNotSelf DEF JudgeType
  <2> QED BY <1>5, <1>10, <2>2 DEF JudgeType, NotSelf
<1>11. CASE CallIP(d, m, q)
  BY <1>1, <1>2, <1>4, <1>11 DEF CallIP, NotSelf
<1>12. CASE RetCall(d, q)
  BY <1>1, <1>3, <1>5, <1>12 DEF RetCall, NotSelf
<1>13. CASE StmAnswer(d, q)
  BY <1>1, <1>2, <1>4, <1>13 DEF StmAnswer, NotSelf
<1>14. CASE Ring(d, m, q)
  BY <1>1, <1>2, <1>4, <1>14 DEF Ring, NotSelf
<1>15. ASSUME NEW flag, StmOver(d, flag, q)
       PROVE  NotSelf(d)' /\ SentByTo(d)
  <2>1. PeerOf(d) # d
    BY <1>6 DEF PeerOf
  <2> QED BY <1>1, <1>2, <1>4, <1>5, <1>6, <1>15, <2>1 DEF StmOver, NotSelf
<1>16. CASE Fail(d, m, q)
  BY <1>7, <1>15, <1>16 DEF Fail
<1>17. CASE RetFail(d, m, q)
  BY <1>1, <1>4, <1>17 DEF RetFail, NotSelf
<1> QED BY <1>7, <1>8, <1>9, <1>10, <1>11, <1>12, <1>13, <1>14, <1>15, <1>16, <1>17
        DEF Handle

LEMMA MachineNotSelf ==
  ASSUME TypeOK, NEW d \in Devices, NotSelf(d), StmThread(d)
  PROVE  NotSelf(d)' /\ SentByTo(d)
<1> DEFINE m == Head(queue[d])
           q == Tail(queue[d])
<1>0. QueueType /\ PrivType
  BY SplitTypes DEF TypeOK
<1>1. queue[d] # <<>>
  BY DEF StmThread, ExecEntry, NoEntry
<1>2. m \in Messages /\ q \in Seq(Messages)
  BY <1>0, <1>1, QueueRest
<1>3. m.ip # d /\ OthersIn(d, q)
  <2>1. /\ m = queue[d][1] /\ Len(queue[d]) > 0 /\ Len(queue[d]) \in Nat
        /\ Len(q) = Len(queue[d]) - 1
        /\ \A i \in 1 .. Len(queue[d]) - 1 : q[i] = queue[d][i + 1]
    BY <1>0, <1>1, QueueRest DEF QueueType
  <2>2. \A i \in 1 .. Len(queue[d]) : queue[d][i].ip # d
    BY DEF NotSelf, OthersIn
  <2> HIDE DEF m, q
  <2>3. m.ip # d
    BY <2>1, <2>2
  <2>4. ASSUME NEW i \in 1 .. Len(q)
        PROVE  q[i].ip # d
    <3>1. i + 1 \in 1 .. Len(queue[d]) /\ i \in 1 .. Len(queue[d]) - 1
      BY <2>1
    <3> QED BY <2>1, <2>2, <3>1
  <2> QED BY <2>3, <2>4 DEF OthersIn
<1>4. priv[d].cPeerIP # d
  BY DEF NotSelf
<1> HIDE DEF m, q
<1>5. CASE ExecEntry(d)
  BY <1>0, <1>2, <1>3, <1>4, <1>5, HandleNotSelf DEF ExecEntry, m, q
<1>6. CASE NoEntry(d)
  <2> DEFINE n == Msg(m.ev, Nobody, Number[m.ev])
  <2>1. Handle(d, status_run[d], n, q)
    BY <1>6 DEF NoEntry, m, q
  <2>2. n \in Messages /\ n.ip # d
    <3>1. m.ev \in Events /\ Nobody \in Addresses
      BY <1>2 DEF Messages, Addresses
    <3>2. n \in Messages
      BY <3>1, MessageType, NumberType
    <3> QED BY <3>2 DEF Msg
  <2> HIDE DEF n
  <2> QED BY <1>0, <1>2, <1>3, <1>4, <2>1, <2>2, HandleNotSelf
<1> QED BY <1>5, <1>6 DEF StmThread

\* A post from outside the machine's thread, or none.
LEMMA OutsideNotSelf ==
  ASSUME TypeOK, NEW d \in Devices, NotSelf(d), sent' = {},
         priv'[d].cPeerIP = priv[d].cPeerIP,
         \/ UNCHANGED queue
         \/ TakenFrom(d, queue[d])
         \/ \E m \in Messages : m.ip # d /\ PostTo(d, queue[d], m)
  PROVE  NotSelf(d)' /\ SentByTo(d)
<1>1. QueueType /\ queue[d] \in Seq(Messages)
  BY SplitTypes DEF TypeOK, QueueType
<1>2. OthersIn(d, queue'[d])
  BY <1>1, PostNotSelf DEF NotSelf
<1> QED BY <1>2 DEF NotSelf, SentByTo

LEMMA TimerNotSelf ==
  ASSUME TypeOK, NEW d \in Devices, NotSelf(d), Timer(d)
  PROVE  NotSelf(d)' /\ SentByTo(d)
<1>1. sent' = {}
  BY DEF Timer, TimerTest, TimerCount, TimerComm, TimerShake, Outside
<1>2. priv'[d].cPeerIP = priv[d].cPeerIP
  <2>1. PrivType
    BY SplitTypes DEF TypeOK
  <2> QED BY <2>1 DEF Timer, TimerTest, TimerCount, TimerComm, TimerShake,
                      SetCounts, Assign, Priv, PrivType
<1>3. \A m \in {Msg("EVENT_HANGUP", Nobody, 1), Msg("EVENT_FAIL_COMM", Nobody, 0),
                Msg("EVENT_FAIL_SHAKE", Nobody, 1)} : m \in Messages /\ m.ip # d
  BY NumberType DEF Msg, Messages, Addresses
<1>4. \/ UNCHANGED queue
      \/ TakenFrom(d, queue[d])
      \/ \E m \in Messages : m.ip # d /\ PostTo(d, queue[d], m)
  <2>1. CASE TimerTest(d)
    BY <2>1 DEF TimerTest
  <2>2. CASE TimerCount(d)
    BY <1>3, <2>2 DEF TimerCount
  <2>3. CASE TimerComm(d) \/ TimerShake(d)
    BY <1>3, <2>3 DEF TimerComm, TimerShake
  <2> QED BY <2>1, <2>2, <2>3 DEF Timer
<1> QED BY <1>1, <1>2, <1>4, OutsideNotSelf

LEMMA InputNotSelf ==
  ASSUME TypeOK, NEW d \in Devices, NotSelf(d), Input(d)
  PROVE  NotSelf(d)' /\ SentByTo(d)
<1>1. sent' = {} /\ UNCHANGED priv
  BY InputShape
<1> DEFINE Goal == \/ UNCHANGED queue
                   \/ \E m \in Messages : m.ip # d /\ PostTo(d, queue[d], m)
<1>2. ASSUME NEW ev \in Events, NEW ip \in Addresses \ {d}, NEW flag \in 0 .. 2
      PROVE  Msg(ev, ip, flag) \in Messages /\ Msg(ev, ip, flag).ip # d
  BY <1>2 DEF Msg, Messages
<1>3. Nobody \in Addresses \ {d} /\ Peers \subseteq Addresses
  BY DEF Addresses
<1>4. ASSUME NEW ip \in Peers \ {d}, NEW cmd \in Commands, Receive(d, ip, cmd)
      PROVE  Goal
  <2>1. ip \in Addresses \ {d}
    BY <1>3
  <2>2. ASSUME NEW m \in Messages, m.ip # d, Post(d, m)
        PROVE  Goal
    BY <2>2 DEF Post
  <2>3. CASE cmd \in {"CMD_CALL", "CMD_TRANSTALK", "CMD_SHAKEHANDS", "CMD_SHAKEHANDS_ASW"}
    BY <1>2, <1>4, <2>1, <2>2, <2>3, NumberType DEF Receive
  <2>4. CASE cmd \in {"CMD_TALK", "CMD_OVER", "ASW_FAIL"}
    BY <1>2, <1>3, <1>4, <2>2, <2>4, NumberType DEF Receive
  <2>5. CASE cmd = "ASW_OK"
    <3>1. Post(d, Msg("EVENT_CALL", ip, 0)) \/ Ignore(d)
      BY <1>4, <2>5 DEF Receive
    <3>2. CASE Post(d, Msg("EVENT_CALL", ip, 0))
      BY <1>2, <2>1, <2>2, <3>2, NumberType
    <3>3. CASE Ignore(d)
      BY <3>3 DEF Ignore
    <3> QED BY <3>1, <3>2, <3>3
  <2> QED BY <2>3, <2>4, <2>5 DEF Commands
<1>5. ASSUME Application(d) PROVE Goal
  BY <1>2, <1>3, <1>5, NumberType DEF Application, Call, Answer, Hangup, Post
<1>6. ASSUME CloudCall(d) PROVE Goal
  BY <1>6 DEF CloudCall, SetStatusBusy, SetStatusIdle, SetStatus
<1>7. ASSUME SendTimeout(d) PROVE Goal
  BY <1>2, <1>3, <1>7, NumberType DEF SendTimeout
<1>8. Goal
  BY <1>4, <1>5, <1>6, <1>7 DEF Input
<1> QED BY <1>1, <1>8, OutsideNotSelf

\* A step of one device, for all of them.
LEMMA StepNotSelf ==
  ASSUME TypeOK, NotSelfInv, NEW d \in Devices, Threads(d) \/ Input(d)
  PROVE  NotSelfInv' /\ SentByTo(d)
<1>1. NotSelf(d)' /\ SentByTo(d)
  BY MachineNotSelf, TimerNotSelf, InputNotSelf DEF NotSelfInv, Threads
<1>2. ASSUME NEW e \in Devices \ {d}
      PROVE  NotSelf(e)'
  <2>1. Held(e)
    BY StepFrame
  <2> QED BY <2>1 DEF Held, NotSelfInv, NotSelf, OthersIn
<1> QED BY <1>1, <1>2 DEF NotSelfInv

-----------------------------------------------------------------------------
(* The devices of the network are devices.                                 *)

\* Which step of one device a step of the network is.
LEMMA IntercomStep ==
  ASSUME IntercomInv, [IntercomNext]_allVars
  PROVE  \/ UNCHANGED vars /\ network' \subseteq network
         \/ \E d \in Devices :
              /\ Threads(d) \/ Input(d)
              /\ network' \subseteq network \cup sent'
<1>1. ASSUME NEW d \in Devices, Run(d)
      PROVE  (Threads(d) \/ Input(d)) /\ network' \subseteq network \cup sent'
  BY <1>1 DEF Run, Input
<1>2. ASSUME NEW d \in Devices, Use(d)
      PROVE  Input(d) /\ network' \subseteq network
  BY <1>2 DEF Use, Input, Application
<1>3. ASSUME NEW p \in network, Arrive(p)
      PROVE  p.to \in Devices /\ Input(p.to) /\ network' \subseteq network
  <2>1. /\ p.to \in Devices /\ p.cmd \in Commands
        /\ p.from \in Peers \ {p.to}
    BY DEF IntercomInv, NetworkInv, Routed, Peers
  <2> QED BY <1>3, <2>1 DEF Arrive, Input
<1>4. ASSUME NEW p \in network, Lose(p)
      PROVE  UNCHANGED vars /\ network' \subseteq network
  BY <1>4 DEF Lose
<1>5. CASE UNCHANGED allVars
  BY <1>5 DEF allVars
<1> QED BY <1>1, <1>2, <1>3, <1>4, <1>5 DEF IntercomNext

LEMMA IntercomInductive ==
  IntercomInv /\ [IntercomNext]_allVars => IntercomInv' /\ [Next]_vars
<1> SUFFICES ASSUME IntercomInv, [IntercomNext]_allVars
             PROVE  IntercomInv' /\ [Next]_vars
  OBVIOUS
<1>1. CASE UNCHANGED vars /\ network' \subseteq network
  <2>1. TypeOK'
    BY <1>1, TypeStep DEF IntercomInv
  <2>2. NotSelfInv'
    BY <1>1 DEF IntercomInv, NotSelfInv, NotSelf, OthersIn, vars, machine
  <2>3. NetworkInv'
    BY <1>1 DEF IntercomInv, NetworkInv
  <2> QED BY <1>1, <2>1, <2>2, <2>3 DEF IntercomInv
<1>2. ASSUME NEW d \in Devices, Threads(d) \/ Input(d),
             network' \subseteq network \cup sent'
      PROVE  IntercomInv' /\ [Next]_vars
  <2>1. Next
    BY <1>2 DEF Next
  <2>2. TypeOK'
    BY <2>1, TypeStep DEF IntercomInv
  <2>3. NotSelfInv' /\ SentByTo(d)
    BY <1>2, StepNotSelf DEF IntercomInv
  <2>4. sent' \subseteq Routed
    <3>1. sent' \subseteq [from : Devices, to : Peers, cmd : Commands]
      BY <2>2 DEF TypeOK, ValueTypes
    <3> QED BY <3>1, IntercomAssumption DEF Routed, Peers, IntercomAssumption
  <2>5. NetworkInv'
    BY <1>2, <2>3, <2>4 DEF IntercomInv, NetworkInv, SentByTo
  <2> QED BY <2>1, <2>2, <2>3, <2>5 DEF IntercomInv
<1> QED BY <1>1, <1>2, IntercomStep

LEMMA IntercomInitial == IntercomInit => IntercomInv
<1> SUFFICES ASSUME IntercomInit PROVE IntercomInv
  OBVIOUS
<1>1. Init /\ network = {}
  BY DEF IntercomInit
<1>2. NotSelfInv
  BY <1>1 DEF Init, NotSelfInv, NotSelf, OthersIn, Priv
<1> QED BY <1>1, <1>2, TypeInit DEF IntercomInv, NetworkInv

\* Every behaviour of the devices and the network is one of TalkProtocol: a
\* packet that arrives is a packet of another device, one that is lost is no
\* step at all.
THEOREM ImplementsTalkCorrect == IntercomSpec => ImplementsTalk
<1>1. IntercomInit => Init
  BY DEF IntercomInit
<1> QED BY <1>1, IntercomInitial, IntercomInductive, PTL
        DEF IntercomSpec, ImplementsTalk, Spec

\* So no device of a network of any size is left in a call that nothing ends,
\* whatever the network loses, reorders or delivers late.
THEOREM IntercomTimed == IntercomSpec => []LineTimed
BY ImplementsTalkCorrect, TimedCorrect DEF ImplementsTalk

\* And the call of one keeps its peer while the others call, answer and hang up.
THEOREM IntercomPeerKept == IntercomSpec => PeerKept
BY ImplementsTalkCorrect, PeerCorrect DEF ImplementsTalk
=============================================================================
