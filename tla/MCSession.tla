------------------------------ MODULE MCSession ------------------------------
(***************************************************************************)
(* The instance of Session that TLC checks.  With three connections a      *)
(* session can be opened, resumed and resumed again, so timers of two      *)
(* earlier windows can be asleep while it is served.                       *)
(***************************************************************************)
EXTENDS Session
=============================================================================
