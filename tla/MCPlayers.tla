----------------------------- MODULE MCPlayers -----------------------------
(***************************************************************************)
(* What players do, and see of each other: the keys and the mouse of a     *)
(* desktop, the fingers on a phone, the steps that answer a press of jump, *)
(* and two players who come and go on one server.                          *)
(*                                                                         *)
(* Each is checked on its own: a behaviour picks one of them and runs only *)
(* that one, while the others rest in their initial states.                *)
(***************************************************************************)
EXTENDS NetPlay, DesktopControls, AndroidApp, PlayerMotion

VARIABLE players_of

\* A 4:3 screen and a wide one; under the stick and the F row of GOD MODE, on its
\* toggle, and on the jump button of the narrow screen, which is the stick's on the wide
TabletScreens == {[width |-> w, height |-> 750] : w \in {1000, 2000}}
TouchedSpots == {[x |-> 460, y |-> 200], [x |-> 900, y |-> 80], [x |-> 900, y |-> 650]}

players_vars == <<players_of, vars, controls_vars, android_vars, motion_vars>>

PlayersInit ==
    /\ players_of \in {"server", "desktop", "phone", "body"}
    /\ Init /\ ControlsInit /\ AndroidInit /\ MotionInit

\* Everything but the part that was picked
OthersRest ==
    /\ UNCHANGED players_of
    /\ IF players_of = "server" THEN TRUE ELSE UNCHANGED vars
    /\ IF players_of = "desktop" THEN TRUE ELSE UNCHANGED controls_vars
    /\ IF players_of = "phone" THEN TRUE ELSE UNCHANGED android_vars
    /\ IF players_of = "body" THEN TRUE ELSE UNCHANGED motion_vars

PlayersNext ==
    \/ players_of = "server" /\ Next /\ OthersRest
    \/ players_of = "desktop" /\ ControlsNext /\ OthersRest
    \/ players_of = "phone" /\ AndroidNext /\ OthersRest
    \/ players_of = "body" /\ MotionNext /\ OthersRest

PlayersSpec == PlayersInit /\ [][PlayersNext]_players_vars
=============================================================================
