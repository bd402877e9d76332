------------------------------ MODULE Intercom ------------------------------
(***************************************************************************)
(* Devices that run udp_talk_protocol.c, and the network between them.     *)
(*                                                                         *)
(* The UDP server sends a packet up to three times and its receiver drops  *)
(* the repetitions (UdpServer), so a packet is handled at most once, at    *)
(* any time and in any order, or lost.  Packets of the same content that   *)
(* are under way together count as one, as if the others were lost.  The   *)
(* users call, answer and hang up; cloud calls are left to TalkProtocol.   *)
(***************************************************************************)
EXTENDS TalkProtocol

CONSTANTS
  Callers, Answerers, Hangers, \* devices whose users call, answer, hang up
  MaxInputs                    \* bound: what the users do in a behaviour

ASSUME IntercomAssumption == Others = {}   \* all the devices are modelled

VARIABLES
  network,   \* packets under way
  inputs     \* what the users did so far

allVars == <<vars, network, inputs>>

IntercomInit == Init /\ network = {} /\ inputs = 0

\* The threads of a device; SendTimeout is a callback of its UDP server.
Run(d) ==
  /\ Threads(d) \/ SendTimeout(d)
  /\ network' = network \cup sent'
  /\ UNCHANGED inputs

Use(d) ==
  /\ inputs < MaxInputs
  /\ inputs' = inputs + 1
  /\ \/ d \in Callers /\ \E ip \in Peers \ {d} : Call(d, ip)
     \/ d \in Answerers /\ Answer(d)
     \/ d \in Hangers /\ Hangup(d)
  /\ UNCHANGED network

\* Mutant of Arrive: the address that is handed on is the receiver's.
ArriveUnaddressed(p) ==
  /\ Receive(p.to, p.to, p.cmd)
  /\ network' = network \ {p}
  /\ UNCHANGED inputs

\* udpSocketReadThread of the device that a packet arrives at.
Arrive(p) ==
  /\ Receive(p.to, p.from, p.cmd)
  /\ network' = network \ {p}
  /\ UNCHANGED inputs

Lose(p) ==
  /\ network' = network \ {p}
  /\ UNCHANGED <<vars, inputs>>

IntercomNext == \/ \E d \in Devices : Run(d) \/ Use(d)
                \/ \E p \in network : Arrive(p) \/ Lose(p)

\* The threads of the devices run; the network promises nothing.
IntercomSpec == /\ IntercomInit /\ [][IntercomNext]_allVars
                /\ Fairness

-----------------------------------------------------------------------------
(* Properties *)

\* A call that one device has left for good does not stay up on the other,
\* whatever the network lost, reordered or delivered late.
LeftByBoth ==
  \A d, e \in Devices :
    <>[](cur_state[d] = "ST_IDLE") => []<>(cur_state[e] = "ST_IDLE" \/ Disturbed(e))

\* The devices of a network do nothing that one device does not do among
\* others that send any packet, from anyone but itself: what TalkProtocol shows
\* of the line, LineTimed and PeerKept, holds of every device of the network.
\* It depends on whom a device sends to, for it takes those addresses from
\* packets, from the user and from what it kept of a call before
\* (udp_talk_protocol.c:659, 682, 786, 1218-1403).
ImplementsTalk == Spec

\* "In a talk, counting down 180 seconds": a talk does not outlast its count.
TalkEnds == \A d \in Devices : []<>(cur_state[d] = "ST_IDLE" \/ Disturbed(d))
=============================================================================
