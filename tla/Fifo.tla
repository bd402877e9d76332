-------------------------------- MODULE Fifo --------------------------------
(***************************************************************************)
(* What a command queue promises its callers (src/src/drivers/queue.c as   *)
(* seen through post and get): a channel of bounded capacity.  Messages    *)
(* are numbered in the order in which they are accepted.                   *)
(***************************************************************************)
EXTENDS Naturals, Sequences

CONSTANT Capacity

VARIABLES
  chan,      \* messages accepted and not yet delivered
  accepted,  \* number of the last message accepted
  out,       \* message delivered last, 0 at first
  refused    \* a message has been refused

vars == <<chan, accepted, out, refused>>

Init ==
  /\ chan = <<>>
  /\ accepted = 0
  /\ out = 0
  /\ refused = FALSE

Accept ==
  /\ Len(chan) < Capacity
  /\ chan' = Append(chan, accepted + 1)
  /\ accepted' = accepted + 1
  /\ UNCHANGED <<out, refused>>

Refuse ==
  /\ Len(chan) = Capacity
  /\ refused' = TRUE
  /\ UNCHANGED <<chan, accepted, out>>

Deliver ==
  /\ chan # <<>>
  /\ out' = Head(chan)
  /\ chan' = Tail(chan)
  /\ UNCHANGED <<accepted, refused>>

Next == Accept \/ Refuse \/ Deliver

Spec == Init /\ [][Next]_vars

FairSpec == Spec /\ WF_vars(Deliver)
=============================================================================
