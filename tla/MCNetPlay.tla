------------------------------ MODULE MCNetPlay ------------------------------
(* NetPlay for TLC, with one client: runs net_sessions and net_inputs. *)
EXTENDS NetPlay
=============================================================================
