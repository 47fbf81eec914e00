----------------------------- MODULE MCThreads -----------------------------
(***************************************************************************)
(* The two places where the client has threads of its own, which share no  *)
(* state: a behaviour runs JobSystem or the page of the browser build.     *)
(***************************************************************************)
EXTENDS JobSystem, WebSession

VARIABLE threads_of

ThreadsInit ==
    /\ threads_of \in {"jobs", "web"}
    /\ Init
    /\ WebInit /\ (threads_of = "jobs" => page = "menu")

ThreadsNext ==
    \/ threads_of = "jobs" /\ Next /\ UNCHANGED <<threads_of, web_vars>>
    \/ threads_of = "web" /\ WebNext /\ UNCHANGED <<threads_of, vars>>

\* Threads that do not run have nothing to do.
ThreadsSpec ==
    /\ ThreadsInit
    /\ [][ThreadsNext]_<<threads_of, vars, web_vars>>
    /\ Fairness
    /\ threads_of = "web" => WebFairness
=============================================================================
