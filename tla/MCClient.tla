------------------------------ MODULE MCClient ------------------------------
(***************************************************************************)
(* Two machines of the client that share no state: how a player gets into  *)
(* a session, and the worlds that are edited and saved.  A behaviour runs  *)
(* one of them while the other rests in its initial state.                 *)
(***************************************************************************)
EXTENDS WorldEdits, SessionFlow

VARIABLE client_of

client_vars == <<client_of, vars, flow_vars>>

ClientInit == client_of \in {"session", "world"} /\ Init /\ FlowInit

ClientNext ==
    \/ client_of = "session" /\ FlowNext /\ UNCHANGED <<client_of, vars>>
    \/ client_of = "world" /\ Next /\ UNCHANGED <<client_of, flow_vars>>

\* A machine that rests has nothing to do.
ClientSpec ==
    /\ ClientInit
    /\ [][ClientNext]_client_vars
    /\ client_of = "session" => FlowFairness
    /\ client_of = "world" => Fairness
=============================================================================
