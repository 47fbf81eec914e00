------------------------------ MODULE SaveCell ------------------------------
(***************************************************************************)
(* What saving the game promises, without its files: the saved game        *)
(* changes at one point of a save, from the previous one to the one being  *)
(* saved, and the save reports success exactly when that point was passed. *)
(* A process that dies loses the save it was in, not the saved game.       *)
(***************************************************************************)
CONSTANTS Games, NoGame

VARIABLES
    saved,      \* the game a start would find, or NoGame
    saving,     \* the game being saved, or NoGame
    done        \* the save in progress has replaced the saved game

vars == <<saved, saving, done>>

Init ==
    /\ saved \in Games \cup {NoGame}
    /\ saving = NoGame
    /\ done = FALSE

Begin(g) ==
    /\ saving = NoGame
    /\ saving' = g
    /\ UNCHANGED <<saved, done>>

Commit ==
    /\ saving # NoGame
    /\ ~done
    /\ saved' = saving
    /\ done' = TRUE
    /\ UNCHANGED saving

\* The save returns, with done as its result, or the process dies.
End ==
    /\ saving # NoGame
    /\ saving' = NoGame
    /\ done' = FALSE
    /\ UNCHANGED saved

Next == Commit \/ End \/ \E g \in Games : Begin(g)

Spec == Init /\ [][Next]_vars
=============================================================================
