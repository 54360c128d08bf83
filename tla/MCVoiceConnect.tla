--------------------------- MODULE MCVoiceConnect ---------------------------
(***************************************************************************)
(* The instances of VoiceConnect that TLC checks.  Three requests are two  *)
(* that cross and one that ends what they leave, or a leave or a destroy   *)
(* between two updates.  Credentials differ, and one has a bad channel id. *)
(***************************************************************************)
EXTENDS VoiceConnect
=============================================================================
