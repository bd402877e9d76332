---------------------------- MODULE MCRtpSession ----------------------------
(* RtpSession, followed until two connections meet or the ring is freed    *)
(* under the decoder: from there on its properties claim nothing.          *)
EXTENDS RtpSession

MCSpec == Init /\ [][~Disturbed /\ Next]_vars /\ Fairness
=============================================================================
