--------------------------- MODULE MCTalkProtocol ---------------------------
(* Instances of TalkProtocol with a bounded number of inputs. *)
EXTENDS TalkProtocol

CONSTANT MaxInputs   \* bound: inputs from outside in a behaviour

VARIABLE inputs      \* inputs so far

MCInit == Init /\ inputs = 0

MCNext ==
  \E d \in Devices :
    \/ Threads(d) /\ UNCHANGED inputs
    \/ Input(d) /\ inputs < MaxInputs /\ inputs' = inputs + 1

MCSpec == MCInit /\ [][MCNext]_<<vars, inputs>> /\ Fairness
=============================================================================
