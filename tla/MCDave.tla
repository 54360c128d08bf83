------------------------------- MODULE MCDave -------------------------------
(***************************************************************************)
(* The instance of Dave that TLC checks.  A transition besides the initial *)
(* one can be announced, staged and executed around it in any order; two   *)
(* senders replace each other; each buffer holds one message, so that the  *)
(* next one finds it full; two epochs give an old key and a new one.       *)
(***************************************************************************)
EXTENDS Dave
=============================================================================
