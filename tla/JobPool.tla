------------------------------ MODULE JobPool ------------------------------
(***************************************************************************)
(* What JobSystem promises the threads that use it, without its queue, its *)
(* mutex or its condition variable: a job handed over is run once, and     *)
(* wait_idle returns only when every job handed over before it was called  *)
(* has been run.                                                           *)
(***************************************************************************)
CONSTANTS Jobs, Callers

VARIABLES
    pending,    \* jobs handed over and not run to their end
    finished,   \* jobs run to their end
    owed        \* caller -> the jobs its wait_idle answers for

vars == <<pending, finished, owed>>

Init ==
    /\ pending = {}
    /\ finished = {}
    /\ owed = [c \in Callers |-> {}]

Schedule(j) ==
    /\ j \notin pending \cup finished
    /\ pending' = pending \cup {j}
    /\ UNCHANGED <<finished, owed>>

Run(j) ==
    /\ j \in pending
    /\ pending' = pending \ {j}
    /\ finished' = finished \cup {j}
    /\ UNCHANGED owed

BeginWait(c) ==
    /\ owed' = [owed EXCEPT ![c] = pending]
    /\ UNCHANGED <<pending, finished>>

EndWait(c) ==
    /\ owed[c] \subseteq finished
    /\ owed' = [owed EXCEPT ![c] = {}]
    /\ UNCHANGED <<pending, finished>>

Next ==
    \/ \E j \in Jobs : Schedule(j) \/ Run(j)
    \/ \E c \in Callers : BeginWait(c) \/ EndWait(c)

Spec == Init /\ [][Next]_vars
=============================================================================
