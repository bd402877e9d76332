----------------------------- MODULE MCMyVideo -----------------------------
(* Small instances of MyVideo for TLC. *)
EXTENDS MyVideo, TLC

\* What the main form, the video form and the phone of a caller ask for.
RecordRequests ==
  {Msg("EV_FACE_ON"), Msg("EV_RECORD_START"), Msg("EV_RECORD_STOP"),
   Msg("EV_UPDATE")}

CallRequests ==
  {Msg("EV_FACE_ON"), Msg("EV_TALK_ANSWER"), HangupMsg("BUTTON"),
   Msg("EV_RECORD_START")}

CallOutAllRequests ==
  {Msg("EV_FACE_ON"), Msg("EV_TALK_CALLOUTALL"), HangupMsg("BUTTON")}

\* Threads that run threadCallOutAll are interchangeable.
Symmetry == Permutations(Dialers)
=============================================================================
