--------------------------- MODULE MCVoiceGateway ---------------------------
(***************************************************************************)
(* The instances of VoiceGateway that TLC checks.  The run of the          *)
(* connection has every sequence number the same (RtpMod 1), which none of *)
(* its properties tells apart; the run of the RTP state counts four of     *)
(* them and saves every second frame.                                      *)
(***************************************************************************)
EXTENDS VoiceGateway
=============================================================================
