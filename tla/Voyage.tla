------------------------------- MODULE Voyage -------------------------------
(***************************************************************************)
(* Travel between the bodies: sky navigation, the assisted flight of a     *)
(* player on foot, the spaceship with its autopilot, its touchdowns and    *)
(* its transfers to another body's frame, and the expedition they serve.   *)
(*                                                                         *)
(* A frame goes through the phases of Engine::tick in their order; the     *)
(* fixed steps of a frame repeat.  Where things are is left open: what the *)
(* cursor hovers, whether the ship is near, whether it touches the ground  *)
(* and in whose sphere of influence it flies.  The spheres of              *)
(* solar_system.cpp are such that a ship on the ground of a body is in     *)
(* that body's.  Terrain runtimes and the saved game are in WorldEdits.    *)
(***************************************************************************)
EXTENDS Integers

CONSTANTS
    Bodies,             \* bodies with a terrain runtime
    Star,               \* the body without one
    Voxov, Aster,
    NoTarget,           \* sky_navigation_target_index_ = -1
    TransferCooldown    \* ship_transfer_cooldown_ after a transfer, in frames

ASSUME VoyageAssumption ==
    /\ {Voxov, Aster} \subseteq Bodies
    /\ Voxov # Aster
    /\ Star \notin Bodies
    /\ NoTarget \notin Bodies \cup {Star}
    /\ TransferCooldown \in Nat

Celestial == Bodies \cup {Star}

\* ExpeditionStage
CollectSample == 0
DeployBeacon == 1
PlotCourse == 2
ReachAster == 3
Complete == 4

VARIABLES
    phase,
    playing,    \* gameplay_started and no menu is open
    navigating, \* sky_navigation_mode_
    locked,     \* sky_navigation_locked_
    target,     \* sky_navigation_target_index_
    active,     \* active_body_index_
    aboard,     \* piloting_ship_
    ship_body,  \* ship_body_index_
    landed,     \* ship_.landed
    cooldown,   \* ship_transfer_cooldown_, in frames
    flying,     \* debug_fly_mode_
    input,      \* the frame's gameplay_input, as far as it decides anything here
    thrust,     \* ship_input_, likewise
    stage       \* of expedition_mission_

course == <<navigating, locked, target>>
ship == <<aboard, ship_body, landed, cooldown, thrust>>
vars == <<phase, playing, course, active, ship, flying, input, stage>>

\* forward is key_w, which no rule ever clears; move stands for the movement,
\* jump and descend controls, interact and click for the press of a button.
Controls == [forward : BOOLEAN, move : BOOLEAN, interact : BOOLEAN, click : BOOLEAN]
Released == [forward |-> FALSE, move |-> FALSE, interact |-> FALSE, click |-> FALSE]

\* lift and power (thrust above what leaves the ground)
Thrusts == [lift : BOOLEAN, power : BOOLEAN]
NoThrust == [lift |-> FALSE, power |-> FALSE]

Phases == {"input", "toggle", "select", "disable", "assist", "ship", "step", "transfer", "blocks"}

TypeOK ==
    /\ phase \in Phases
    /\ {playing, navigating, locked, aboard, landed, flying} \subseteq BOOLEAN
    /\ target \in Celestial \cup {NoTarget}
    /\ {active, ship_body} \subseteq Bodies
    /\ cooldown \in 0..TransferCooldown
    /\ input \in Controls
    /\ thrust \in Thrusts
    /\ stage \in CollectSample..Complete

\* Engine::init, and place_ship_near_player at its end, after the saved game
Init ==
    /\ phase = "input"
    /\ playing = FALSE
    /\ navigating = FALSE /\ locked = FALSE /\ target = NoTarget
    /\ active \in Bodies
    /\ aboard = FALSE /\ ship_body = active /\ landed = TRUE
    /\ cooldown = 0 /\ thrust = NoThrust
    /\ flying = FALSE
    /\ input = Released
    /\ stage \in CollectSample..Complete

At(p) == phase = p
Goto(p) == phase' = p
-----------------------------------------------------------------------------
(* The expedition *)

Advance(expected, next) == IF stage = expected THEN next ELSE stage

OnBlockRemoved == IF active = Voxov THEN Advance(CollectSample, DeployBeacon) ELSE stage
OnBlockPlaced == IF active = Voxov THEN Advance(DeployBeacon, PlotCourse) ELSE stage
OnCourseLocked(b) == IF b = Aster THEN Advance(PlotCourse, ReachAster) ELSE stage
OnLanded(b) == IF b = Aster THEN Advance(ReachAster, Complete) ELSE stage

\* step_ship: flying there counts as plotting the course.
OnShipLanded(b) ==
    IF b = Aster /\ stage \in {PlotCourse, ReachAster} THEN Complete ELSE stage
-----------------------------------------------------------------------------
(* apply_session_input *)

\* The menus open and close between frames; a frame brings its input.
ReadInput ==
    /\ At("input")
    /\ playing' \in BOOLEAN
    /\ input' \in Controls
    /\ Goto("toggle")
    /\ UNCHANGED <<course, active, ship, flying, stage>>

ToggleNavigation ==
    /\ navigating' = ~navigating
    /\ locked' = FALSE
    /\ UNCHANGED target

\* valid_target: on foot anything but the body stood on, the star included; aboard,
\* any body with a surface, and the one flown to once its frame was entered.
ValidTarget(b, lock) ==
    IF aboard THEN b \in Bodies /\ (b # active \/ lock) ELSE b \in Celestial \ {active}

\* What may be selected while nothing is locked: the target that stays, the first
\* valid one instead of an invalid one, or what the cursor hovers
Selectable ==
    LET valid == {b \in Celestial : ValidTarget(b, FALSE)}
    IN  IF valid = {} THEN {NoTarget} ELSE valid

\* The target the frame goes on with, locked or not: one that became invalid is
\* given up together with the lock.
StillLocked == locked /\ ValidTarget(target, locked)

SelectTarget ==
    /\ IF StillLocked THEN target' = target ELSE target' \in Selectable
    /\ \/ locked' = StillLocked /\ UNCHANGED stage
       \/ /\ ValidTarget(target', StillLocked)
          /\ locked' = ~StillLocked
          /\ stage' = IF locked' THEN OnCourseLocked(target') ELSE stage
    /\ UNCHANGED navigating

Toggle ==
    /\ At("toggle")
    /\ \/ playing /\ ToggleNavigation
       \/ UNCHANGED course
    /\ Goto("select")
    /\ UNCHANGED <<playing, active, ship, flying, input, stage>>

Select ==
    /\ At("select")
    /\ IF navigating THEN SelectTarget ELSE UNCHANGED <<course, stage>>
    /\ Goto("disable")
    /\ UNCHANGED <<playing, active, ship, flying, input>>

\* disable_gameplay_actions
Disabled == [Released EXCEPT !.forward = input.forward]

\* The end of apply_session_input, with the key that toggles flying
Disable ==
    /\ At("disable")
    /\ input' = IF navigating \/ ~playing THEN Disabled ELSE input
    /\ flying' \in BOOLEAN
    /\ Goto("assist")
    /\ UNCHANGED <<playing, course, active, ship, stage>>
-----------------------------------------------------------------------------
(* apply_sky_navigation_assist *)

\* mutant: the assist also takes a pilot along
AssistedAnyway == navigating /\ locked /\ input.forward

Assisted == ~aboard /\ navigating /\ locked /\ input.forward

Arrive ==
    /\ At("assist") /\ Assisted
    /\ target \in Bodies
    /\ active' = target
    /\ flying' = FALSE
    /\ locked' = FALSE
    /\ stage' = OnLanded(target)
    /\ Goto("ship")
    /\ UNCHANGED <<playing, navigating, target, ship, input>>

FlyAlong ==
    /\ At("assist") /\ Assisted
    /\ flying' = TRUE
    /\ input' = [input EXCEPT !.move = TRUE]
    /\ Goto("ship")
    /\ UNCHANGED <<playing, course, active, ship, stage>>

Unassisted ==
    /\ At("assist") /\ ~Assisted
    /\ Goto("ship")
    /\ UNCHANGED <<playing, course, active, ship, flying, input, stage>>
-----------------------------------------------------------------------------
(* update_ship_controls *)

Cooled == IF cooldown > 0 THEN cooldown - 1 ELSE 0

\* player_near_ship, of which only the body is known here
MayBoard == ship_body = active

\* The input of the flight before stays in ship_input_ for the first frame.
Board ==
    /\ At("ship") /\ ~aboard
    /\ input.interact /\ MayBoard
    /\ aboard' = TRUE
    /\ input' = [input EXCEPT !.interact = FALSE]
    /\ cooldown' = Cooled
    /\ Goto("step")
    /\ UNCHANGED <<playing, course, active, ship_body, landed, thrust, flying, stage>>

StayOut ==
    /\ At("ship") /\ ~aboard
    /\ cooldown' = Cooled
    /\ Goto("step")
    /\ UNCHANGED <<playing, course, active, aboard, ship_body, landed, thrust, flying,
                   input, stage>>

\* On the ground, or low and slow
Leave ==
    /\ At("ship") /\ aboard
    /\ input.interact
    /\ aboard' = FALSE
    /\ input' = [input EXCEPT !.interact = FALSE]
    /\ cooldown' = Cooled
    /\ Goto("step")
    /\ UNCHANGED <<playing, course, active, ship_body, landed, thrust, flying, stage>>

Autopiloted == navigating /\ locked /\ input.forward /\ playing /\ target \in Bodies

\* autopilot_input: it lifts off, climbs away from a body it leaves, and settles on
\* the one it has reached.
AutopilotInput ==
    {t \in Thrusts : t.lift => landed \/ target # active} \cup {NoThrust}

ManualInput == IF input.move THEN Thrusts ELSE {NoThrust}

Pilot ==
    /\ At("ship") /\ aboard
    /\ ~(input.interact /\ landed)
    /\ thrust' \in IF Autopiloted THEN AutopilotInput ELSE ManualInput
    /\ input' = Disabled
    /\ cooldown' = Cooled
    /\ Goto("step")
    /\ UNCHANGED <<playing, course, active, aboard, ship_body, landed, flying, stage>>
-----------------------------------------------------------------------------
(* The fixed steps, the transfer and the blocks *)

\* integrate_spaceship: a ship on the ground stays there unless it is told to leave;
\* one that touches the ground stays when it is slow and not lifting.
StaysDown == landed /\ ~thrust.lift /\ ~thrust.power
MayTouchDown == ~thrust.lift

\* mutant: a touchdown leaves the course locked
TouchdownKeepingLock ==
    /\ UNCHANGED locked
    /\ stage' = OnShipLanded(active)

Touchdown ==
    /\ locked' = (locked /\ ~(navigating /\ target = active))
    /\ stage' = OnShipLanded(active)

StepShip ==
    /\ At("step") /\ aboard
    /\ landed' \in IF StaysDown THEN {TRUE} ELSE {FALSE, MayTouchDown}
    /\ IF landed' /\ ~landed THEN Touchdown ELSE UNCHANGED <<locked, stage>>
    /\ UNCHANGED <<phase, playing, navigating, target, active, aboard, ship_body,
                   cooldown, thrust, flying, input>>

EndSteps ==
    /\ At("step")
    /\ Goto("transfer")
    /\ UNCHANGED <<playing, course, active, ship, flying, input, stage>>

\* A ship on the ground is in the sphere of influence of its body.
Transferred(b) == aboard /\ cooldown = 0 /\ ~landed /\ b # active

TransferShip(b) ==
    /\ At("transfer") /\ Transferred(b)
    /\ active' = b
    /\ ship_body' = b
    /\ cooldown' = TransferCooldown
    /\ Goto("blocks")
    /\ UNCHANGED <<playing, course, aboard, landed, thrust, flying, input, stage>>

StayInFrame ==
    /\ At("transfer")
    /\ Goto("blocks")
    /\ UNCHANGED <<playing, course, active, ship, flying, input, stage>>

\* update_block_interaction: the player may aim at a block, and the pilot at none.
UseBlocks ==
    /\ At("blocks")
    /\ \/ UNCHANGED stage
       \/ ~aboard /\ input.click /\ stage' \in {OnBlockRemoved, OnBlockPlaced}
    /\ input' = Released
    /\ Goto("input")
    /\ UNCHANGED <<playing, course, active, ship, flying>>

Next ==
    \/ ReadInput \/ Toggle \/ Select \/ Disable
    \/ Arrive \/ FlyAlong \/ Unassisted
    \/ Board \/ StayOut \/ Leave \/ Pilot
    \/ StepShip \/ EndSteps
    \/ \E b \in Bodies : TransferShip(b)
    \/ StayInFrame \/ UseBlocks

Spec == Init /\ [][Next]_vars
-----------------------------------------------------------------------------
(* Properties *)

\* Whoever pilots the ship is in the frame of the body the ship is at, however the
\* active body changes: by landing on foot or by a transfer.  About
\* apply_sky_navigation_assist, player_near_ship and transfer_ship_between_bodies.
PilotIsAboard == aboard => ship_body = active

\* A locked course always leads somewhere: it is given up by the player or at its
\* end, and no boarding, transfer or landing turns it into one that the next frame
\* would refuse.  About valid_target, the toggles of apply_session_input, and
\* README.md: "keeps the course locked through the body-frame transfer until
\* touchdown".
CourseStaysValid == locked => navigating /\ ValidTarget(target, TRUE)

\* The ship does not stand on the body it is told to fly to: its touchdown ends the
\* course, and no course to the ground under it can be locked.
CourseEndsAtTouchdown == aboard /\ landed /\ locked => target # active

\* The expedition never waits for a course that is locked already: Aster is locked
\* before the stage asks for it, in vain, only with the blocks out of reach.  About
\* on_course_locked, which ignores a course locked too early, and
\* disable_gameplay_actions, which keeps that stage from being reached meanwhile.
LockedCourseIsPlotted == locked /\ target = Aster => stage # PlotCourse

\* A locked course can be flown, ends at touchdown, and is what the expedition asked for,
\* whatever the player, the landing and the transfer do to the ship meanwhile.
CourseIsSound ==
    /\ CourseStaysValid
    /\ CourseEndsAtTouchdown
    /\ LockedCourseIsPlotted
=============================================================================
