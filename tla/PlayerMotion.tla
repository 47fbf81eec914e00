----------------------------- MODULE PlayerMotion -----------------------------
(***************************************************************************)
(* The player on foot: the fixed steps of a frame, the timers and states   *)
(* of PlayerControllerSystem::simulate_fixed, and the animation events     *)
(* that report its jumps and landings.  Flying and the ship take over, and *)
(* hand back what they find.                                               *)
(*                                                                         *)
(* Times are in fixed steps of 1/60 s, as the float timers count them: a   *)
(* timer of 0.12 s is above zero for seven steps after the one that sets   *)
(* it, one of 0.10 s for six.  Velocities are in units of what gravity     *)
(* takes in a step (0.4 m/s, fractions dropped), and -1 is any fall.  What *)
(* the collision finds is left open.                                       *)
(***************************************************************************)
EXTENDS Integers

CONSTANTS
    MinSteps, MaxSteps      \* fixed steps of a frame

ASSUME PlayerMotionAssumption == {MinSteps, MaxSteps} \subseteq Nat

BufferSteps == 8        \* jump_buffer_time, until the timer shows zero
CoyoteSteps == 7        \* coyote_time, likewise
JumpStartSteps == 6     \* jump_start_duration
SoftSteps == 6          \* 0.10 s of LandSoft
RecoverySteps == 16     \* recovery_duration
JumpVelocity == 22

\* Advances of an animation up to its jump or Landing event: 8% of a cycle at the
\* phase_rate of the state
EventAt == [JumpStart |-> 6, LandSoft |-> 6, LandHard |-> 7]

MaxTimer == RecoverySteps + 1
MaxAdvances == 7

VARIABLES
    motion_phase,               \* "input" or "steps"
    steps,                      \* fixed steps of this frame
    jump_pressed, consumed,     \* jump_pressed of the frame and jump_consumed
    fly_mode,                   \* debug_fly_mode_
    in_ship,                    \* piloting_ship_
    grounded,
    velocity,                   \* vertical_velocity
    locomotion, timer,          \* PlayerLocomotionState and state_timer
    buffer, coyote,             \* jump_buffer_timer and coyote_timer
    advances,   \* of the animation since it entered its state
    stood,      \* ghost: on the ground since the last jump
    owed        \* ghost: a press that finds the player fit to jump, unanswered

motion_frame == <<motion_phase, steps, jump_pressed>>
motion_vars == <<motion_frame, consumed, fly_mode, in_ship, grounded, velocity, locomotion,
                 timer, buffer, coyote, advances, stood, owed>>

\* OnFeet stands for Idle and the states of walking, running and turning.
Airborne == {"JumpStart", "AirborneRise", "AirborneFall"}
States == Airborne \cup {"OnFeet", "LandSoft", "LandHard", "Recovery"}

MotionTypeOK ==
    /\ motion_phase \in {"input", "steps"}
    /\ steps \in 0..MaxSteps
    /\ {jump_pressed, consumed, fly_mode, in_ship, grounded, stood, owed} \subseteq BOOLEAN
    /\ velocity \in -1..JumpVelocity
    /\ locomotion \in States
    /\ timer \in 0..MaxTimer
    /\ buffer \in 0..BufferSteps
    /\ coyote \in 0..CoyoteSteps
    /\ advances \in 0..MaxAdvances

\* Spawned above the ground
MotionInit ==
    /\ motion_phase = "input" /\ steps = 0 /\ jump_pressed = FALSE /\ consumed = FALSE
    /\ fly_mode = FALSE /\ in_ship = FALSE
    /\ grounded = FALSE /\ velocity = 0
    /\ locomotion = "OnFeet" /\ timer = 0 /\ buffer = 0 /\ coyote = 0
    /\ advances = 0
    /\ stood = FALSE /\ owed = FALSE

Less(t) == IF t > 0 THEN t - 1 ELSE 0
More(t, max) == IF t < max THEN t + 1 ELSE max
-----------------------------------------------------------------------------
(* A frame, and who moves the player in it *)

StayAsIs == UNCHANGED <<fly_mode, in_ship, grounded, velocity>>

\* debug_freeze_toggle
ToggleFly ==
    /\ fly_mode' = ~fly_mode
    /\ velocity' = 0
    /\ UNCHANGED <<in_ship, grounded>>

\* The flight assist of sky navigation, and its landing; buttons are disabled.
Assist ==
    /\ ~in_ship /\ ~jump_pressed'
    /\ \/ fly_mode' = TRUE /\ UNCHANGED grounded
       \/ fly_mode' = FALSE /\ grounded' = TRUE
    /\ UNCHANGED <<in_ship, velocity>>

StepAboard ==
    /\ ~in_ship
    /\ in_ship' = TRUE
    /\ UNCHANGED <<fly_mode, grounded, velocity>>

StepOff ==
    /\ in_ship
    /\ in_ship' = FALSE
    /\ velocity' = 0
    /\ UNCHANGED <<fly_mode, grounded>>

BeginMotionFrame ==
    /\ motion_phase = "input"
    /\ motion_phase' = "steps"
    /\ jump_pressed' \in BOOLEAN
    /\ StayAsIs \/ ToggleFly \/ Assist \/ StepAboard \/ StepOff
    /\ stood' = (stood \/ grounded')
    /\ owed' = /\ jump_pressed' /\ ~in_ship' /\ ~fly_mode'
               /\ grounded' \/ coyote > 1
               /\ locomotion # "Recovery"
    /\ UNCHANGED <<steps, consumed, locomotion, timer, buffer, coyote, advances>>

\* RuntimeGameSession::advance has used up the time of the frame; its press is forgotten.
EndMotionFrame ==
    /\ motion_phase = "steps"
    /\ steps >= MinSteps
    /\ motion_phase' = "input" /\ steps' = 0
    /\ jump_pressed' = FALSE /\ consumed' = FALSE
    /\ UNCHANGED <<fly_mode, in_ship, grounded, velocity, locomotion, timer, buffer, coyote,
                   advances, stood, owed>>

\* Every step of the frame, whoever moves the player
FixedStep ==
    /\ motion_phase = "steps"
    /\ steps < MaxSteps
    /\ steps' = steps + 1
    /\ consumed' = (consumed \/ jump_pressed)
    /\ UNCHANGED <<motion_phase, jump_pressed, fly_mode, in_ship>>

\* set_locomotion_state, sync_local_animation_runtime
EnterState(s, enough) ==
    /\ locomotion' = s
    /\ timer' = IF s = locomotion THEN enough ELSE 0
    /\ advances' = IF s = locomotion THEN More(advances, MaxAdvances) ELSE 1

NextTimer == More(timer, MaxTimer)
NextBuffer == IF jump_pressed /\ ~consumed THEN BufferSteps ELSE Less(buffer)
NextCoyote == IF grounded THEN CoyoteSteps ELSE Less(coyote)

\* step_ship: the state stays while the animation goes on.
ShipStep ==
    /\ in_ship
    /\ FixedStep
    /\ grounded' \in BOOLEAN
    /\ stood' = (stood \/ grounded')
    /\ advances' = More(advances, MaxAdvances)
    /\ UNCHANGED <<velocity, locomotion, timer, buffer, coyote, owed>>

\* simulate_fixed with noclip
FlyStep ==
    /\ ~in_ship /\ fly_mode
    /\ FixedStep
    /\ grounded' \in BOOLEAN
    /\ stood' = (stood \/ grounded')
    /\ buffer' = NextBuffer
    /\ coyote' = NextCoyote
    /\ EnterState(IF grounded' THEN "OnFeet" ELSE "AirborneFall", NextTimer)
    /\ UNCHANGED <<velocity, owed>>
-----------------------------------------------------------------------------
(* simulate_fixed on foot *)

\* mutant: no jump out of a landing
CanJumpUnlessLanding ==
    /\ NextBuffer > 0 /\ (grounded \/ NextCoyote > 0)
    /\ locomotion \notin {"Recovery", "LandSoft", "LandHard"}

CanJump ==
    NextBuffer > 0 /\ (grounded \/ NextCoyote > 0) /\ locomotion # "Recovery"

\* Gravity, about doubled on the way up without the button
Fallen == IF velocity > 0 THEN {velocity - 1, velocity - 2} ELSE {-1}

BeforeSolve == IF CanJump THEN {JumpVelocity} ELSE IF grounded THEN {velocity} ELSE Fallen

StateBeforeSolve == IF CanJump THEN "JumpStart" ELSE locomotion

\* The collision, the slope and the snap to a ledge; a jump that rises ignores them.
Touching(v) == IF StateBeforeSolve = "JumpStart" /\ v > 0 THEN {FALSE} ELSE BOOLEAN

\* mutant: 0.08 s of LandSoft
SoftLandingBrief == IF NextTimer >= SoftSteps - 1 THEN "OnFeet" ELSE "LandSoft"

SoftLanding == IF NextTimer >= SoftSteps THEN "OnFeet" ELSE "LandSoft"

OnGround(impact) ==
    LET s == StateBeforeSolve
    IN  CASE ~grounded -> impact
          [] grounded /\ s \in Airborne -> "LandSoft"
          [] grounded /\ s = "LandSoft" -> SoftLanding
          [] grounded /\ s = "LandHard" ->
                 IF NextTimer >= RecoverySteps THEN "Recovery" ELSE "LandHard"
          [] grounded /\ s = "Recovery" ->
                 IF NextTimer >= RecoverySteps THEN "OnFeet" ELSE "Recovery"
          [] OTHER -> "OnFeet"

InAir(v) ==
    LET s == StateBeforeSolve
    IN  IF v <= 0 THEN "AirborneFall"
        ELSE IF s # "JumpStart" /\ NextTimer > JumpStartSteps THEN "AirborneRise"
        ELSE s

CoyoteAfter(jumped) == IF jumped THEN 0 ELSE NextCoyote

FootStep ==
    /\ ~in_ship /\ ~fly_mode
    /\ FixedStep
    /\ \E v \in BeforeSolve : \E touch \in Touching(v), hard \in {FALSE, v < 0} :
         LET \* a press shortly before the landing
             rebound == touch /\ ~grounded /\ ~CanJump /\ NextBuffer > 0
             jumped == CanJump \/ rebound
         IN  /\ grounded' = (touch /\ ~rebound)
             /\ velocity' = IF rebound THEN JumpVelocity ELSE IF touch THEN 0 ELSE v
             /\ EnterState(IF rebound THEN "JumpStart"
                           ELSE IF touch THEN OnGround(IF hard THEN "LandHard" ELSE "LandSoft")
                           ELSE InAir(v), NextTimer)
             /\ buffer' = IF jumped THEN 0 ELSE NextBuffer
             /\ coyote' = CoyoteAfter(jumped)
             /\ stood' = (grounded' \/ (stood /\ ~jumped))
             /\ owed' = (owed /\ ~jumped)

MotionNext == BeginMotionFrame \/ EndMotionFrame \/ ShipStep \/ FlyStep \/ FootStep

MotionSpec == MotionInit /\ [][MotionNext]_motion_vars
-----------------------------------------------------------------------------
(* Properties *)

\* Nobody jumps again in the air: the coyote time runs only for a player who has
\* stood since the last jump, whoever moved the player meanwhile.  About the timers
\* of simulate_fixed, switch_active_planet's landings and leaving the ship.
NoJumpInTheAir == coyote > 0 => stood

\* A jump and a landing that run their course are heard: the state lasts until the
\* animation has reached its event.  About state_timer against phase_rate and
\* normalized_time in player_animation_graph.cpp: a soft landing has no step to spare.
MotionIsHeard ==
    [][/\ ~fly_mode /\ ~in_ship /\ locomotion = "JumpStart" /\ velocity > 0
            /\ locomotion' # locomotion => advances >= EventAt["JumpStart"]
       /\ ~fly_mode /\ locomotion = "LandSoft" /\ locomotion' = "OnFeet" =>
            advances >= EventAt["LandSoft"]
       /\ locomotion = "LandHard" /\ locomotion' = "Recovery" =>
            advances >= EventAt["LandHard"]]_motion_vars

\* A press of the jump button makes a player jump who can, in the frame of the press.
\* About jump_consumed in Engine::simulate_frame and jump_buffer_timer; README.md:
\* "`Space`: jump".  It needs a fixed step in every frame: jump_pressed is dropped at
\* the end of one without.
EveryPressJumps == motion_phase = "input" => ~owed

\* The three together: a press that finds the player fit is answered, nobody jumps in the
\* air, and a jump and a landing reach the event of their animation.
JumpsAreAnsweredAndHeard == [](EveryPressJumps /\ NoJumpInTheAir) /\ MotionIsHeard
=============================================================================
