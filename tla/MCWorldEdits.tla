---------------------------- MODULE MCWorldEdits ----------------------------
(***************************************************************************)
(* WorldEdits alone, to find how an edit is lost on a round trip between   *)
(* bodies: run world_round_trip.                                           *)
(***************************************************************************)
EXTENDS WorldEdits
=============================================================================
