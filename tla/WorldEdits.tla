----------------------------- MODULE WorldEdits -----------------------------
(***************************************************************************)
(* The worlds of Engine: the terrain runtimes of the bodies, one active    *)
(* and the others parked, the blocks the player breaks and places, the     *)
(* expedition's stage, and the saved game they are written to.             *)
(*                                                                         *)
(* A frame goes through the phases of Engine::tick that touch this state,  *)
(* in their order.  The process may be closed between two frames and may   *)
(* die anywhere.  Writing the saved game is one step here; SaveFile shows  *)
(* that its files allow no other outcome.                                  *)
(*                                                                         *)
(* A body has a few chunks, with one block each that the player can reach. *)
(* Which chunks are near the player, what the player aims at, and when a   *)
(* body is reached is left open.                                           *)
(***************************************************************************)
EXTENDS Integers, FiniteSets

CONSTANTS
    Bodies,         \* bodies with a terrain runtime
    Star,           \* the body without one
    Voxov, Aster,
    Chunks,         \* chunks of a body
    Hotbar,         \* materials of kBlockHotbar
    Air, Ground,    \* a block removed, and one as it was generated
    Absent,         \* content of a chunk that is not resident
    NoEdit,
    NoSave,         \* there is no saved game
    Damaged,        \* there is one that cannot be decoded
    SaveDebounce,   \* kSaveDebounceSeconds, in frames
    MaxBlockEdits   \* kMaxBlockEdits

ASSUME WorldEditsAssumption ==
    /\ {Voxov, Aster} \subseteq Bodies
    /\ Voxov # Aster
    /\ Star \notin Bodies
    /\ IsFiniteSet(Bodies) /\ IsFiniteSet(Chunks)
    /\ SaveDebounce \in Nat /\ MaxBlockEdits \in Nat
    /\ Air # Ground /\ {Air, Ground} \cap Hotbar = {}
    /\ {Absent, NoEdit} \cap (Hotbar \cup {Air, Ground}) = {}

Materials == Hotbar \cup {Air}
Edits == [Bodies \X Chunks -> Materials \cup {NoEdit}]
NoEdits == [block \in Bodies \X Chunks |-> NoEdit]

\* ExpeditionStage
CollectSample == 0
DeployBeacon == 1
PlotCourse == 2
ReachAster == 3
Complete == 4
Stages == CollectSample..Complete

\* PlanetTerrainRuntime: the body it was built for and its chunks
Runtime == [body : Bodies, chunks : [Chunks -> Materials \cup {Ground, Absent}]]
NewRuntime(b) == [body |-> b, chunks |-> [c \in Chunks |-> Absent]]

\* PersistentGameState
SavedGame == [stage : Stages, active : Bodies, edits : Edits]

ASSUME SavedGameAssumption == {NoSave, Damaged} \cap SavedGame = {}

VARIABLES
    pc,             \* the phase of the frame, or "off"
    active,         \* active_body_index_
    world,          \* block_world_
    parked,         \* parked_planets_
    edits,          \* persistent_block_edits_
    stage,          \* of expedition_mission_
    dirty,          \* persistence_dirty_
    since_save,     \* seconds_since_save_, in frames
    disk            \* what load_persistent_game_state would find

terrain == <<active, world, parked>>
journal == <<edits, stage, dirty, since_save>>
vars == <<pc, terrain, journal, disk>>

Phases == {"session", "assist", "simulate", "transfer", "blocks", "flush", "stream"}

TypeOK ==
    /\ pc \in Phases \cup {"off"}
    /\ active \in Bodies
    /\ world \in Runtime
    /\ DOMAIN parked \subseteq Bodies
    /\ \A b \in DOMAIN parked : parked[b] \in Runtime
    /\ edits \in Edits
    /\ stage \in Stages
    /\ dirty \in BOOLEAN
    /\ since_save \in 0..SaveDebounce
    /\ disk \in SavedGame \cup {NoSave, Damaged}

Init ==
    /\ pc = "off"
    /\ active = Voxov
    /\ world = NewRuntime(Voxov)
    /\ parked = [b \in {} |-> NewRuntime(b)]
    /\ edits = NoEdits
    /\ stage = CollectSample
    /\ dirty = FALSE
    /\ since_save = 0
    /\ disk = NoSave

Phase(p) == pc = p
Goto(p) == pc' = p
-----------------------------------------------------------------------------
(* Terrain runtimes *)

\* parked_planets_ when b has become the active body
ParkedAfterSwitch(b) ==
    [c \in (DOMAIN parked \ {b}) \cup {active} |->
        IF c = active THEN world ELSE parked[c]]

ParkedRuntime(b) == IF b \in DOMAIN parked THEN parked[b] ELSE NewRuntime(b)

SwitchActivePlanet(b) ==
    IF b = active \/ b \notin Bodies
    THEN UNCHANGED terrain
    ELSE /\ active' = b
         /\ world' = ParkedRuntime(b)
         /\ parked' = ParkedAfterSwitch(b)

\* The runtime of a body that is active or parked, or would be created for it
WorldForBody(b) == IF b = active THEN world ELSE ParkedRuntime(b)
-----------------------------------------------------------------------------
(* The expedition *)

Advance(s, expected, next) == IF s = expected THEN next ELSE s

OnBlockRemoved(s, b) == IF b = Voxov THEN Advance(s, CollectSample, DeployBeacon) ELSE s
OnBlockPlaced(s, b) == IF b = Voxov THEN Advance(s, DeployBeacon, PlotCourse) ELSE s
OnCourseLocked(s, b) == IF b = Aster THEN Advance(s, PlotCourse, ReachAster) ELSE s
OnLanded(s, b) == IF b = Aster THEN Advance(s, ReachAster, Complete) ELSE s
-----------------------------------------------------------------------------
(* The saved game *)

\* encode_persistent_game_state accepts that many edits.
Encodable(game) ==
    Cardinality({block \in Bodies \X Chunks : game.edits[block] # NoEdit}) <= MaxBlockEdits

\* save_persistent_game, with its result
SavePersistentGame(game, ok) ==
    /\ ok => Encodable(game)
    /\ disk' = IF ok THEN game ELSE disk

\* The runtimes of a fresh engine after the saved edits were applied to them
Restored(b, saved) ==
    [body |-> b,
     chunks |-> [c \in Chunks |-> IF saved.edits[<<b, c>>] = NoEdit THEN Absent
                                                               ELSE saved.edits[<<b, c>>]]]

\* mutant: the edits of other bodies are not applied
RestoredBodiesWithoutParked(saved) == {Voxov, saved.active}

\* Bodies whose runtime exists once the saved edits were applied and the body that
\* was active has been switched to
RestoredBodies(saved) ==
    {Voxov, saved.active} \cup
        {b \in Bodies : \E c \in Chunks : saved.edits[<<b, c>>] # NoEdit}

\* mutant: the expedition starts over
LoadWithoutExpedition(saved) ==
    /\ active' = saved.active
    /\ world' = Restored(saved.active, saved)
    /\ parked' = [b \in RestoredBodies(saved) \ {saved.active} |-> Restored(b, saved)]
    /\ edits' = saved.edits
    /\ stage' = CollectSample

Load(saved) ==
    /\ active' = saved.active
    /\ world' = Restored(saved.active, saved)
    /\ parked' = [b \in RestoredBodies(saved) \ {saved.active} |-> Restored(b, saved)]
    /\ edits' = saved.edits
    /\ stage' = saved.stage

\* Engine::init, which ends with load_persistent_game: a saved game that cannot be
\* decoded is treated like none.
Start ==
    /\ Phase("off")
    /\ IF disk \in {NoSave, Damaged} THEN UNCHANGED <<terrain, edits, stage>>
                                     ELSE Load(disk)
    /\ Goto("session")
    /\ UNCHANGED <<dirty, since_save, disk>>

\* The process ends, and with it the Engine.
Discard ==
    /\ active' = Voxov
    /\ world' = NewRuntime(Voxov)
    /\ parked' = [b \in {} |-> NewRuntime(b)]
    /\ edits' = NoEdits
    /\ stage' = CollectSample
    /\ dirty' = FALSE
    /\ since_save' = 0
    /\ Goto("off")

\* Engine::shutdown, between two frames
Shutdown ==
    /\ Phase("session")
    /\ \E ok \in BOOLEAN :
        SavePersistentGame([stage |-> stage, active |-> active, edits |-> edits], ok)
    /\ Discard

Crash ==
    /\ ~Phase("off")
    /\ Discard
    /\ UNCHANGED disk

\* While the game is not running its file is damaged, or becomes one of another
\* format or generator version.
Damage ==
    /\ Phase("off")
    /\ disk # NoSave
    /\ disk' = Damaged
    /\ UNCHANGED <<pc, terrain, journal>>
-----------------------------------------------------------------------------
(* The phases of a frame *)

\* A phase in which nothing of this happens
Skip(p, q) ==
    /\ Phase(p)
    /\ Goto(q)
    /\ UNCHANGED <<terrain, journal, disk>>

\* apply_session_input: the player locks the course to b, which is saved at once.
LockCourse(b) ==
    /\ Phase("session")
    /\ b # active
    /\ stage' = OnCourseLocked(stage, b)
    /\ \E ok \in BOOLEAN :
        SavePersistentGame([stage |-> stage', active |-> active, edits |-> edits], ok)
    /\ Goto("assist")
    /\ UNCHANGED <<terrain, edits, dirty, since_save>>

\* apply_sky_navigation_assist: the player on foot arrives at b.
LandByAssist(b) ==
    /\ Phase("assist")
    /\ b # active
    /\ SwitchActivePlanet(b)
    /\ stage' = OnLanded(stage, b)
    /\ \E ok \in BOOLEAN :
        SavePersistentGame([stage |-> stage', active |-> b, edits |-> edits], ok)
    /\ Goto("simulate")
    /\ UNCHANGED <<edits, dirty, since_save>>

\* step_ship: the ship touches down.
Touchdown ==
    /\ Phase("simulate")
    /\ stage' = OnLanded(OnCourseLocked(stage, active), active)
    /\ dirty' = TRUE
    /\ Goto("transfer")
    /\ UNCHANGED <<terrain, edits, since_save, disk>>

\* transfer_ship_between_bodies
TransferShip(b) ==
    /\ Phase("transfer")
    /\ b # active
    /\ SwitchActivePlanet(b)
    /\ Goto("blocks")
    /\ UNCHANGED <<journal, disk>>

\* mutant: edits are recorded for the body the game starts on
RecordedForVoxov(c, material) == [edits EXCEPT ![<<Voxov, c>>] = material]

\* record_block_edit: one entry per block
RecordBlockEdit(c, material) == [edits EXCEPT ![<<active, c>>] = material]

SetBlock(c, material) ==
    /\ world' = [world EXCEPT !.chunks[c] = material]
    /\ edits' = RecordBlockEdit(c, material)
    /\ dirty' = TRUE
    /\ Goto("flush")
    /\ UNCHANGED <<active, parked, since_save, disk>>

\* update_block_interaction, left click: the ray hits only what is resident.
BreakBlock(c) ==
    /\ Phase("blocks")
    /\ world.chunks[c] \notin {Absent, Air}
    /\ SetBlock(c, Air)
    /\ stage' = OnBlockRemoved(stage, active)

\* update_block_interaction, right click
PlaceBlock(c, material) ==
    /\ Phase("blocks")
    /\ world.chunks[c] = Air
    /\ SetBlock(c, material)
    /\ stage' = OnBlockPlaced(stage, active)

Snapshot == [stage |-> stage, active |-> active, edits |-> edits]

\* flush_pending_save
FlushTick == IF since_save < SaveDebounce THEN since_save + 1 ELSE SaveDebounce

SaveIsDue == dirty /\ FlushTick = SaveDebounce

FlushWaits ==
    /\ Phase("flush")
    /\ ~SaveIsDue
    /\ since_save' = FlushTick
    /\ Goto("stream")
    /\ UNCHANGED <<terrain, edits, stage, dirty, disk>>

\* mutant: a save that failed is not tried again
FlushesOnce(ok) ==
    /\ Phase("flush")
    /\ SaveIsDue
    /\ SavePersistentGame(Snapshot, ok)
    /\ dirty' = FALSE
    /\ since_save' = 0
    /\ Goto("stream")
    /\ UNCHANGED <<terrain, edits, stage>>

FlushSaves(ok) ==
    /\ Phase("flush")
    /\ SaveIsDue
    /\ SavePersistentGame(Snapshot, ok)
    /\ dirty' = ~ok
    /\ since_save' = 0
    /\ Goto("stream")
    /\ UNCHANGED <<terrain, edits, stage>>

\* stream_block_terrain: chunks out of the guard band are evicted, unless the player
\* stayed in the same chunk, and missing ones generated within the budget of the
\* frame; at altitude no chunk is kept.
StreamTerrain(keep, generate) ==
    /\ Phase("stream")
    /\ generate \subseteq {c \in keep : world.chunks[c] = Absent}
    /\ world' = [world EXCEPT !.chunks = [c \in Chunks |->
                    IF c \notin keep THEN Absent
                    ELSE IF c \in generate THEN Ground ELSE world.chunks[c]]]
    /\ Goto("session")
    /\ UNCHANGED <<active, parked, journal, disk>>

Frame ==
    \/ \E b \in Bodies \cup {Star} : LockCourse(b)
    \/ Skip("session", "assist")
    \/ \E b \in Bodies : LandByAssist(b)
    \/ Skip("assist", "simulate")
    \/ Touchdown
    \/ Skip("simulate", "transfer")
    \/ \E b \in Bodies : TransferShip(b)
    \/ Skip("transfer", "blocks")
    \/ \E c \in Chunks : BreakBlock(c)
    \/ \E c \in Chunks, m \in Hotbar : PlaceBlock(c, m)
    \/ Skip("blocks", "flush")
    \/ FlushWaits
    \/ \E ok \in BOOLEAN : FlushSaves(ok)
    \/ \E keep \in SUBSET Chunks : \E generate \in SUBSET keep :
           StreamTerrain(keep, generate)

Next == Start \/ Frame \/ Shutdown \/ Crash \/ Damage

Spec == Init /\ [][Next]_vars

\* A frame that has begun goes on, and a save that is tried again and again
\* succeeds in the end.
Fairness == WF_vars(Frame) /\ SF_vars(FlushSaves(TRUE))

FairSpec == Spec /\ Fairness
-----------------------------------------------------------------------------
(* Properties *)

\* However often the player goes from body to body, each runtime stays with the body
\* it was generated for, and the active one is not parked as well.  About
\* switch_active_planet and parked_runtime.
RuntimesAreOfTheirBodies ==
    /\ world.body = active
    /\ active \notin DOMAIN parked
    /\ \A b \in DOMAIN parked : parked[b].body = b

\* A block that differs from the generated terrain, on any body, is recorded as
\* edited, with the same material, so that it can be saved.  About
\* record_block_edit, switch_active_planet and load_persistent_game.
ChangedBlocksAreRecorded ==
    \A b \in Bodies, c \in Chunks :
        WorldForBody(b).chunks[c] \in {Absent, Ground, edits[<<b, c>>]}

\* The expedition gets past its first stage only with a block of Voxov, and the two
\* stay together in memory and on the disk, whatever was saved or lost in between.
\* About ExpeditionMission and the order of its calls and save_persistent_game.
Earned(game) ==
    game.stage # CollectSample => \E c \in Chunks : game.edits[<<Voxov, c>>] # NoEdit

StageIsEarned == Earned(Snapshot) /\ (disk \in SavedGame => Earned(disk))

\* game holds what an earlier one held: no edited block is forgotten and the
\* expedition does not go back.
Covers(game, earlier) ==
    /\ game.stage >= earlier.stage
    /\ \A block \in Bodies \X Chunks :
          earlier.edits[block] # NoEdit => game.edits[block] # NoEdit

\* While the game runs, it holds what a start would find.  About
\* load_persistent_game, which must take over everything it is to save again.
MemoryCoversDisk ==
    ~Phase("off") /\ disk \in SavedGame => Covers(Snapshot, disk)

\* Runtimes, journal, expedition and saved game agree: the four together.
WorldIsSound ==
    /\ RuntimesAreOfTheirBodies
    /\ ChangedBlocksAreRecorded
    /\ StageIsEarned
    /\ MemoryCoversDisk

\* What a saved game holds, no later saved game lacks, over saves that fail, crashes
\* and restarts, as long as the file can be decoded.  About load_persistent_game and
\* save_persistent_game.
SavedProgressIsKept ==
    [][{disk, disk'} \subseteq SavedGame => Covers(disk', disk)]_vars

\* A start shows every block that was saved as edited, on the body it was edited on.
\* About load_persistent_game, which applies edits before it knows the active body.
ReloadShowsEveryEdit ==
    [][Phase("off") /\ Phase("session")' =>
          \A b \in Bodies, c \in Chunks :
              edits'[<<b, c>>] # NoEdit => WorldForBody(b)'.chunks[c] = edits'[<<b, c>>]]_vars

\* An edit is on the disk in the end, unless the process ends first or there are more
\* edits than a saved game takes.  About flush_pending_save, after saves that fail.
EditsReachTheDisk ==
    dirty ~> \/ disk \in SavedGame /\ disk.edits = edits
             \/ Phase("off")
             \/ ~Encodable(Snapshot)

\* Edits and resident chunks survive round trips between bodies, says the comment on
\* parked_planets_: a chunk that is resident shows its edit.
EditsSurviveRoundTrips ==
    \A b \in Bodies, c \in Chunks :
        edits[<<b, c>>] # NoEdit => WorldForBody(b).chunks[c] \in {Absent, edits[<<b, c>>]}
=============================================================================
