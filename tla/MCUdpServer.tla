---------------------------- MODULE MCUdpServer ----------------------------
(* Small instances of UdpServer for TLC. *)
EXTENDS UdpServer, TLC

CONSTANTS r1, r2, r3

\* r1 and r2 are one command to two devices, sent with one ID.
SharedId == [r \in Requests |-> IF r = r3 THEN 2 ELSE 1]

\* r2 is sent twice, the others once.
FewTimes == [r \in Requests |-> IF r = r2 THEN 2 ELSE 1]

\* Packets of other devices are interchangeable.
Symmetry == Permutations(Commands)
=============================================================================
