--------------------------- MODULE MCPlayerMotion ---------------------------
(***************************************************************************)
(* PlayerMotion in a game whose frames may be shorter than a fixed step.   *)
(***************************************************************************)
EXTENDS PlayerMotion
=============================================================================
