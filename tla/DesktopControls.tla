--------------------------- MODULE DesktopControls ---------------------------
(***************************************************************************)
(* The controls of the desktop: the keys and the mouse as the events of    *)
(* the window leave them, the input a frame makes of them and its cursor   *)
(* policy, the menus, and what Engine::apply_session_input does with the   *)
(* keys of sky navigation.                                                 *)
(*                                                                         *)
(* Sky navigation is remembered twice, by DesktopInputBackend and by       *)
(* Engine; the menus are the third one that has a say in a key.  Events    *)
(* arrive between frames.  gameplay_started is never reset, and left out;  *)
(* so are the settings, what the session flow does with a choice, and the  *)
(* course that is locked in the overlay, which is Voyage's.                *)
(***************************************************************************)
EXTENDS Integers, Sequences, FiniteSets

CONSTANT
    MaxHeld         \* keys held at once

Keys == {"F6", "Escape", "Enter", "Up", "Down", "Mouse"}

VARIABLES
    controls_phase, \* "events", then the frame: "poll", "menu", "engine"
    held,           \* keys_down and mouse_down
    focused,
    prev,           \* the prev_ flags of DesktopInputBackend
    cursor_ui,      \* its sky_navigation_mode
    capture,        \* its look_capture_enabled
    pointer_locked,
    pressed,        \* the edges of the frame's InputState, gone with the frame
    clicked,        \* left_click_pressed or right_click_pressed
    menu,           \* GuiMenu: is_open, page, selected_item
    overlay,        \* sky_navigation_mode_ of Engine
    apart           \* history: F6 was pressed in open menus an odd number of times

window_input == <<held, focused>>
backend == <<prev, cursor_ui, capture, pointer_locked, pressed, clicked>>
sky == <<overlay, apart>>
controls_vars == <<controls_phase, window_input, backend, menu, sky>>

\* What each item of a page opens; it stays for an item that opens nothing.
Close == "close"
Stay == "stay"

Items ==
    [Main |-> <<Close, "CharacterSelect", "Multiplayer", "Settings", Close>>,
     Multiplayer |-> <<Close, Close, Close, Stay, "MultiplayerGuide", "Main">>,
     Settings |-> <<Stay, Stay, Stay, Stay, Stay, Stay, "Main">>,
     MultiplayerGuide |-> <<"Multiplayer">>,
     CharacterSelect |-> <<"Main", "Main", "Main", "Main">>]

ItemCount(page) == Len(Items[page])

ControlsTypeOK ==
    /\ controls_phase \in {"events", "poll", "menu", "engine"}
    /\ held \subseteq Keys /\ prev \subseteq Keys /\ pressed \subseteq Keys
    /\ {focused, cursor_ui, capture, pointer_locked, clicked} \subseteq BOOLEAN
    /\ {overlay, apart} \subseteq BOOLEAN
    /\ menu.open \in BOOLEAN
    /\ menu.page \in DOMAIN Items
    /\ menu.item \in Nat

FirstItem(page) == [open |-> TRUE, page |-> page, item |-> 0]

ControlsInit ==
    /\ controls_phase = "events"
    /\ held = {} /\ focused = TRUE
    /\ prev = {} /\ pressed = {} /\ clicked = FALSE
    /\ cursor_ui = FALSE /\ capture = TRUE /\ pointer_locked = FALSE
    /\ menu = [FirstItem("Main") EXCEPT !.open = FALSE]
    /\ overlay = FALSE /\ apart = FALSE
-----------------------------------------------------------------------------
(* DesktopPlatform::process_event *)

\* Without the focus the window learns neither of a key nor of its release.
KeyDown(k) ==
    /\ controls_phase = "events" /\ focused
    /\ Cardinality(held) < MaxHeld
    /\ held' = held \cup {k}
    /\ UNCHANGED <<controls_phase, focused, backend, menu, sky>>

KeyUp(k) ==
    /\ controls_phase = "events" /\ focused
    /\ held' = held \ {k}
    /\ UNCHANGED <<controls_phase, focused, backend, menu, sky>>

Focus ==
    /\ controls_phase = "events"
    /\ focused' = ~focused
    /\ UNCHANGED <<controls_phase, held, backend, menu, sky>>

BeginFrame ==
    /\ controls_phase = "events"
    /\ controls_phase' = "poll"
    /\ UNCHANGED <<window_input, backend, menu, sky>>
-----------------------------------------------------------------------------
(* DesktopInputBackend::poll *)

Edges == held \ prev

\* mutant: a held F6 toggles in every frame
CursorUiAfterHeld == IF "F6" \in held THEN ~cursor_ui ELSE cursor_ui

CursorUiAfter == IF "F6" \in Edges THEN ~cursor_ui ELSE cursor_ui

\* look_capture_enabled as the toggle leaves it: clicks_reach_gameplay
StillCaptured == capture /\ ~("F6" \in Edges /\ CursorUiAfter)

Captured == StillCaptured \/ (~CursorUiAfter /\ "Mouse" \in held)

Poll ==
    /\ controls_phase = "poll"
    /\ prev' = held
    /\ pressed' = Edges
    /\ cursor_ui' = CursorUiAfter
    /\ clicked' = ("Mouse" \in Edges /\ StillCaptured)
    /\ capture' = (Captured /\ "Escape" \notin Edges)
    /\ pointer_locked' = (focused /\ capture' /\ ~CursorUiAfter)
    /\ controls_phase' = "menu"
    /\ UNCHANGED <<window_input, menu, sky>>
-----------------------------------------------------------------------------
(* GuiMenu::handle_input *)

Toggled(m) ==
    IF "Escape" \notin pressed THEN m
    ELSE IF m.open THEN [m EXCEPT !.open = FALSE] ELSE FirstItem("Main")

Move == (IF "Down" \in pressed THEN 1 ELSE 0) - (IF "Up" \in pressed THEN 1 ELSE 0)

Moved(m) ==
    IF m.open THEN [m EXCEPT !.item = (@ + Move) % ItemCount(m.page)] ELSE m

\* activate_index
Chosen(m) ==
    LET opened == Items[m.page][m.item + 1]
    IN  IF opened = Close THEN [m EXCEPT !.open = FALSE]
        ELSE IF opened = Stay THEN m
        ELSE FirstItem(opened)

HandleInput ==
    LET moved == Moved(Toggled(menu))
    IN  /\ controls_phase = "menu"
        /\ menu' = IF moved.open /\ "Enter" \in pressed THEN Chosen(moved) ELSE moved
        /\ controls_phase' = "engine"
        /\ UNCHANGED <<window_input, backend, sky>>
-----------------------------------------------------------------------------
(* Engine::apply_session_input *)

OverlayToggled == "F6" \in pressed /\ ~menu.open

ApplySessionInput ==
    /\ controls_phase = "engine"
    /\ overlay' = IF OverlayToggled THEN ~overlay ELSE overlay
    /\ apart' = IF "F6" \in pressed /\ menu.open THEN ~apart ELSE apart
    /\ pressed' = {}
    /\ controls_phase' = "events"
    /\ UNCHANGED <<window_input, prev, cursor_ui, capture, pointer_locked, clicked, menu>>

ControlsNext ==
    \/ \E k \in Keys : KeyDown(k) \/ KeyUp(k)
    \/ Focus \/ BeginFrame \/ Poll \/ HandleInput \/ ApplySessionInput

ControlsSpec == ControlsInit /\ [][ControlsNext]_controls_vars
-----------------------------------------------------------------------------
(* Properties *)

\* Between frames the cursor policy of the platform is the one the overlay of the
\* engine needs, unless F6 was pressed an odd number of times with a menu open, and
\* then it is the opposite one; where they agree an open overlay has its cursor, free
\* of the pointer lock, and no click under it reaches the game.  However keys are held,
\* missed without the focus or pressed together.  About sky_navigation_mode of
\* DesktopInputBackend, which reads every F6, and of Engine, which ignores it in a menu.
CursorPolicyFollowsOverlay ==
    controls_phase = "events" =>
        /\ cursor_ui <=> (overlay # apart)
        /\ overlay /\ ~apart => ~pointer_locked /\ ~clicked

\* An open overlay, with no menu over it, has its cursor: the pointer is not locked.
\* What input_desktop.cpp says of the toggle: "Sky navigation is a cursor UI, not a
\* first-person look mode."
OverlayHasCursor ==
    controls_phase = "events" /\ overlay /\ ~menu.open => ~pointer_locked
=============================================================================
