----------------------------- MODULE MCPlayback -----------------------------
(***************************************************************************)
(* The instance of Playback that TLC checks.  Chunks are shorter and       *)
(* longer than a frame, the channel holds one, so that the decoder blocks  *)
(* on it, and a ramp takes two frames, so that requests meet one that is   *)
(* running.                                                                *)
(***************************************************************************)
EXTENDS Playback
=============================================================================
