----------------------------- MODULE AndroidApp -----------------------------
(***************************************************************************)
(* The Android build around GameRuntime: android_main and AndroidHost,     *)
(* which follow the window and the focus of the activity, the multicast    *)
(* lock of discovery, and the buttons and the stick on the touch screen.   *)
(*                                                                         *)
(* A step is one event of the looper or one pass of the main loop after    *)
(* it; the system may take or give the window and the focus in any order.  *)
(* The threads of the VM can always be attached, as that of the main loop  *)
(* is for as long as it runs.  What a tap does besides holding a control   *)
(* is left out, but for GOD MODE, which moves the zones of the screen.     *)
(***************************************************************************)
EXTENDS Integers, FiniteSets, FiniteSetsExt, Functions

CONSTANTS
    Fingers,        \* ids of pointers
    Screens,        \* the sizes a surface may have, in pixels
    Spots,          \* the points of the screen that are touched
    MaxPointers     \* size of pointers_

Buttons == {"Jump", "Sprint", "Crouch"}
Zones == Buttons \cup {"Move", "Look", "Menu", "GodMode", "GodF"}
EglObjects == {"display", "surface", "context"}

VARIABLES
    loop,           \* "poll", in ALooper_pollOnce, "frame", after it, or "over"
    window,         \* app->window
    egl,            \* the EGL objects that exist
    runtime_ready,
    has_focus,
    multicast,      \* AndroidMulticastLock: "none", created, or "held"
    screen,         \* surface_state.surface: its width and height
    fingers,        \* those on the screen
    pointers,       \* pointers_: id -> where it started
    held_controls,  \* jump_held_, sprint_held_, crouch_held_, and move_ if not zero
    godmode_expanded,
    zones,          \* history: id in pointers_ -> the zones its start has been in since
    stranded        \* history: what is held from a zone that was left before its finger
                    \* was lifted

app == <<window, egl, runtime_ready, has_focus, multicast>>
touch == <<fingers, pointers, held_controls, godmode_expanded>>
android_vars == <<loop, app, screen, touch, zones, stranded>>

Nobody == [f \in {} |-> {}]

\* RenderSurface{}
NoScreen == [width |-> 1, height |-> 1]

AndroidTypeOK ==
    /\ loop \in {"poll", "frame", "over"}
    /\ {window, runtime_ready, has_focus, godmode_expanded} \subseteq BOOLEAN
    /\ egl \subseteq EglObjects
    /\ multicast \in {"none", "created", "held"}
    /\ screen \in Screens \cup {NoScreen}
    /\ fingers \subseteq Fingers
    /\ DOMAIN pointers \subseteq fingers
    /\ pointers \in [DOMAIN pointers -> Spots]
    /\ zones \in [DOMAIN pointers -> SUBSET Zones]
    /\ held_controls \subseteq Buttons \cup {"Move"}
    /\ stranded \subseteq Buttons \cup {"Move"}

AndroidInit ==
    /\ loop = "poll"
    /\ window = FALSE /\ egl = {} /\ runtime_ready = FALSE
    /\ has_focus = FALSE /\ multicast = "none"
    /\ screen = NoScreen
    /\ fingers = {} /\ pointers = Nobody /\ zones = Nobody
    /\ held_controls = {} /\ godmode_expanded = FALSE /\ stranded = {}

CanRender == runtime_ready /\ egl = EglObjects
-----------------------------------------------------------------------------
(* AndroidRuntimeInputAdapter::classify *)

\* In thousandths of a pixel.  The buttons are squares from the right edge, those of
\* GOD MODE on top, a gap apart; the rest is the stick's on the left, for looking
\* around on the right.  The keys GodF1 to GodF4 are one zone.
Classify(size, expanded, spot) ==
    LET edge == Min({size.width, size.height})
        button == Max({72000, 160 * edge})
        gap == Max({14000, 25 * edge})
        right == 1000 * size.width - gap
        bottom == 1000 * size.height - gap
        x == 1000 * spot.x
        y == 1000 * spot.y
        Box(left, top, width) == x \in left..(left + width) /\ y \in top..(top + button)
        wide == (6 * button) \div 5
        Column(i) == right - i * button - (i - 1) * gap
        Row(i) == bottom - i * button - (i - 1) * gap
    IN  IF 20 * x < 27 * button /\ y < button THEN "Menu"
        ELSE IF Box(right - wide, gap, wide) THEN "GodMode"
        ELSE IF expanded /\ \E i \in 1..4 : Box(Column(i), (3 * gap) \div 2 + button, button)
             THEN "GodF"
        ELSE IF Box(Column(1), Row(1), button) THEN "Jump"
        ELSE IF Box(Column(2), Row(1), button) THEN "Sprint"
        ELSE IF Box(Column(1), Row(2), button) THEN "Crouch"
        ELSE IF 2 * x < 1000 * size.width THEN "Move" ELSE "Look"

\* The zone of each point, for each size and with the keys of GOD MODE shown or not
ZoneOf ==
    [size \in Screens \cup {NoScreen} |->
       [expanded \in BOOLEAN |-> [spot \in Spots |-> Classify(size, expanded, spot)]]]

\* As the screen is now
ZoneNow(spot) == ZoneOf[screen][godmode_expanded][spot]

\* Of the history
NoteZones ==
    zones' = [f \in (DOMAIN pointers)' |->
                {ZoneNow(pointers[f])'} \cup (IF f \in DOMAIN pointers THEN zones[f] ELSE {})]

FingersStay == UNCHANGED <<touch, stranded>> /\ NoteZones
-----------------------------------------------------------------------------
(* AndroidHost *)

\* update_surface: the system may have changed the size of the surface.
UpdateSurface ==
    IF {"display", "surface"} \subseteq egl THEN screen' \in Screens ELSE UNCHANGED screen

Shutdown ==
    /\ runtime_ready' = FALSE
    /\ multicast' = "none"
    /\ egl' = {}
    /\ screen' = NoScreen

\* initialize(): every step after eglGetDisplay that fails shuts down what there is,
\* and with it the multicast lock.
Initialize ==
    \/ /\ egl' = EglObjects /\ runtime_ready' = TRUE
       /\ screen' \in Screens
       /\ UNCHANGED multicast
    \/ UNCHANGED <<egl, runtime_ready, multicast, screen>>      \* no display
    \/ Shutdown

\* An event of the looper was handled; the frame comes next if there is a screen for it.
Polled == loop' = IF CanRender' THEN "frame" ELSE "poll"

InitWindow ==
    /\ loop = "poll"
    /\ ~window /\ window' = TRUE
    /\ IF CanRender THEN UNCHANGED <<egl, runtime_ready, multicast, screen>> ELSE Initialize
    /\ UNCHANGED has_focus
    /\ FingersStay
    /\ Polled

TermWindow ==
    /\ loop = "poll"
    /\ window /\ window' = FALSE
    /\ Shutdown
    /\ UNCHANGED has_focus
    /\ FingersStay
    /\ Polled

\* The system may refuse to create the lock, or to acquire it.
GainedFocus ==
    /\ loop = "poll"
    /\ ~has_focus /\ has_focus' = TRUE
    /\ multicast' \in {"held", "created", multicast}
    /\ UNCHANGED <<window, egl, runtime_ready, screen, touch, zones, stranded>>
    /\ Polled

LostFocus ==
    /\ loop = "poll"
    /\ has_focus /\ has_focus' = FALSE
    /\ multicast' = IF multicast = "held" THEN "created" ELSE multicast
    /\ UNCHANGED <<window, egl, runtime_ready, screen, touch, zones, stranded>>
    /\ Polled

ConfigChanged ==
    /\ loop = "poll"
    /\ UpdateSurface
    /\ UNCHANGED app
    /\ FingersStay
    /\ Polled

\* ALooper_pollOnce returns without an event: at once, or because it was woken.
PollEnds ==
    /\ loop = "poll"
    /\ loop' = "frame"
    /\ UNCHANGED <<app, screen, touch, zones, stranded>>

\* destroyRequested: android_main returns.
Destroyed ==
    /\ loop = "poll"
    /\ loop' = "over"
    /\ Shutdown
    /\ UNCHANGED <<window, has_focus>>
    /\ FingersStay

\* The rest of the main loop: once more an initialization if need be, then the frame,
\* which measures the surface and takes the controls as they are.
Frame ==
    /\ loop = "frame"
    /\ loop' = "poll"
    /\ IF CanRender THEN UpdateSurface /\ UNCHANGED <<egl, runtime_ready, multicast>>
       ELSE IF window THEN Initialize
       ELSE UNCHANGED <<egl, runtime_ready, multicast, screen>>
    /\ UNCHANGED <<window, has_focus>>
    /\ FingersStay
-----------------------------------------------------------------------------
(* AndroidRuntimeInputAdapter::handle_input *)

Touch == loop = "poll" /\ UNCHANGED <<app, screen>> /\ Polled /\ NoteZones

\* press_pointer: a finger more than pointers_ holds is not followed.
FingerDown(f, spot) ==
    /\ f \notin fingers
    /\ fingers' = fingers \cup {f}
    /\ IF Cardinality(DOMAIN pointers) < MaxPointers
       THEN /\ pointers' = [g \in DOMAIN pointers \cup {f} |-> IF g = f THEN spot ELSE pointers[g]]
            /\ held_controls' = held_controls \cup ({ZoneNow(spot)} \cap Buttons)
            /\ godmode_expanded' = (godmode_expanded # (ZoneNow(spot) = "GodMode"))
       ELSE UNCHANGED <<pointers, held_controls, godmode_expanded>>
    /\ UNCHANGED stranded
    /\ Touch

\* mutant: the zone the finger was lifted in, once it slid off
ZoneSlidOffTo(f) == "Look"

\* The zone the finger started in, as the screen is now
ZoneToRelease(f) == ZoneNow(pointers[f])

\* release_pointer
FingerUp(f) ==
    /\ f \in fingers
    /\ fingers' = fingers \ {f}
    /\ IF f \in DOMAIN pointers
       THEN /\ held_controls' = held_controls \ ({ZoneToRelease(f)} \cap (Buttons \cup {"Move"}))
            /\ pointers' = Restrict(pointers, DOMAIN pointers \ {f})
            /\ stranded' =
                  held_controls' \cap (stranded \cup (zones[f] \ {ZoneNow(pointers[f])}))
       ELSE UNCHANGED <<held_controls, pointers, stranded>>
    /\ UNCHANGED godmode_expanded
    /\ Touch

\* update_pointer: the stick is at rest or not.
FingersMove ==
    /\ \E f \in DOMAIN pointers : ZoneNow(pointers[f]) = "Move"
    /\ held_controls' \in {held_controls \cup {"Move"}, held_controls \ {"Move"}}
    /\ stranded' = stranded \cap held_controls'
    /\ UNCHANGED <<fingers, pointers, godmode_expanded>>
    /\ Touch

\* AMOTION_EVENT_ACTION_CANCEL
TouchCancelled ==
    /\ fingers # {}
    /\ fingers' = {} /\ pointers' = Nobody
    /\ held_controls' = {} /\ stranded' = {}
    /\ UNCHANGED godmode_expanded
    /\ Touch
-----------------------------------------------------------------------------
AndroidNext ==
    \/ InitWindow \/ TermWindow \/ GainedFocus \/ LostFocus \/ ConfigChanged
    \/ PollEnds \/ Destroyed \/ Frame
    \/ \E f \in Fingers : FingerUp(f) \/ \E spot \in Spots : FingerDown(f, spot)
    \/ FingersMove \/ TouchCancelled

AndroidSpec == AndroidInit /\ [][AndroidNext]_android_vars
-----------------------------------------------------------------------------
(* Properties *)

\* The game runs only while there is a window, with all of EGL or none, whichever step
\* of an initialization failed before; and other apps do not pay for the multicast lock:
\* CROSS_PLATFORM_PLAY.md:78, "only while foregrounded".  About initialize, shutdown and
\* the commands that race them.
GameHasItsWindow ==
    /\ runtime_ready => window
    /\ egl = IF runtime_ready THEN EglObjects ELSE {}
    /\ multicast = "held" => has_focus

\* A control is held by a finger that is followed and went down on it: none is stuck
\* after the fingers are gone, however many there were.  Only one whose zone was moved
\* away from the start of its finger, by GOD MODE or the size of the screen, and not
\* back before the finger was lifted, may be.  About press_pointer and release_pointer,
\* which classify a finger twice.
ControlsHaveFingers ==
    \A control \in held_controls \ stranded :
        \E f \in fingers \cap DOMAIN pointers : control \in zones[f]

\* The two together: the game runs only on a whole screen, and holds the multicast lock
\* only in the foreground; what is held on the screen has a finger on it.
AppIsInTouch == GameHasItsWindow /\ ControlsHaveFingers
=============================================================================
