---------------------------- MODULE TerrainScene ----------------------------
(***************************************************************************)
(* From blocks to pixels: the chunks Engine::stream_block_terrain loads    *)
(* around the player, the meshes it builds from them under two budgets a   *)
(* frame, the globes that cover the view behind them, and the copies that  *)
(* SokolRenderer keeps on the GPU under the meshes' stable ids.            *)
(*                                                                         *)
(* The chunks of the surface shell are a ring of columns, the slice of the *)
(* cube sphere along the player's way; a chunk has a block on each side    *)
(* that meets the next column.  A chunk's terrain and grass meshes are     *)
(* built, replaced and dropped together and are one here.  The level of    *)
(* detail of a chunk's mesh is left out.                                   *)
(***************************************************************************)
EXTENDS Integers, FiniteSets

CONSTANTS
    Bodies,             \* bodies with a terrain runtime
    Home,               \* the one the game starts on
    NumColumns,         \* columns around a body
    AirOnly,            \* columns whose generated chunk has no face to draw
    StreamReach,        \* columns wanted around a position: chunk_radius + 1
    ResidentSlack,      \* further columns kept
    GenerationBudget, MeshBudget,   \* per frame
    Grids,              \* subdivisions of a globe
    MaxMoves, MaxEdits, \* bounds of a run
    Absent, NoMesh

Columns == 0..NumColumns - 1

ASSUME TerrainSceneAssumption ==
    /\ Home \in Bodies
    /\ NumColumns \in Nat \ {0}
    /\ AirOnly \subseteq Columns
    /\ {StreamReach, ResidentSlack, MaxMoves, MaxEdits} \subseteq Nat
    /\ {GenerationBudget, MeshBudget} \subseteq Nat \ {0}
    /\ Grids # {}

\* A block, as generated or changed; a chunk's blocks beside the next columns
Blocks == [west : BOOLEAN, east : BOOLEAN]
Generated == [west |-> FALSE, east |-> FALSE]
Sides == {"west", "east"}

\* The mesh of a chunk: the blocks it was built from, its own and the facing ones
Mesh == [body : Bodies, blocks : Blocks, beyond : Blocks]
Globe == [body : Bodies, grid : Grids]

ASSUME MarkerAssumption == Absent \notin Blocks /\ NoMesh \notin Mesh \cup Globe \cup Grids

VARIABLES
    pc,             \* the part of the frame: "play", "stream" or "upload"
    active,         \* active_body_index_
    view,           \* where the player is, where the player will be, and how high
    chunks,         \* chunks_ of each body's BlockWorld
    last_center,    \* last_chunk_center_hash_
    snap_dirty,     \* snap_origin_dirty_
    globe,          \* global_planet_surface_mesh_
    scene,          \* scene.opaque_meshes
    gpu,            \* cached_meshes_ of the renderer
    moves, changes, \* made so far
    lost            \* an eviction dropped a changed chunk

vars == <<pc, active, view, chunks, last_center, snap_dirty, globe, scene, gpu,
          moves, changes, lost>>

Views == [at : Columns, ahead : Columns, high : BOOLEAN]

\* The meshes with a stable id: by column, the active globe, the other bodies' globes
Scenes == [terrain : [Columns -> Mesh \cup {NoMesh}],
           globe : Globe \cup {NoMesh},
           far : [Bodies -> Grids \cup {NoMesh}]]

NoTerrain == [c \in Columns |-> NoMesh]
EmptyScene == [terrain |-> NoTerrain, globe |-> NoMesh, far |-> [b \in Bodies |-> NoMesh]]

TypeOK ==
    /\ pc \in {"play", "stream", "upload"}
    /\ active \in Bodies
    /\ view \in Views
    /\ chunks \in [Bodies -> [Columns -> Blocks \cup {Absent}]]
    /\ last_center \in Columns
    /\ snap_dirty \in BOOLEAN
    /\ globe \in Globe
    /\ scene \in Scenes /\ gpu \in Scenes
    /\ moves \in 0..MaxMoves /\ changes \in 0..MaxEdits
    /\ lost \in BOOLEAN

Init ==
    /\ pc = "play"
    /\ active = Home
    /\ view = [at |-> 0, ahead |-> 0, high |-> FALSE]
    /\ chunks = [b \in Bodies |-> [c \in Columns |-> Absent]]
    /\ last_center = 0
    /\ snap_dirty = TRUE
    /\ globe \in [body : {Home}, grid : Grids]
    /\ scene = EmptyScene /\ gpu = EmptyScene
    /\ moves = 0 /\ changes = 0
    /\ lost = FALSE
-----------------------------------------------------------------------------
(* Columns *)

\* offset_chunk_address along the ring
Beside(c, offset) == (c + offset) % NumColumns

CollectStreamChunks(c, reach) == {Beside(c, d) : d \in -reach..reach}

Desired == CollectStreamChunks(view.at, StreamReach)
           \cup CollectStreamChunks(view.ahead, StreamReach)
Resident == CollectStreamChunks(view.at, StreamReach + ResidentSlack)
            \cup CollectStreamChunks(view.ahead, StreamReach + ResidentSlack)

Neighbour(c, side) == IF side = "west" THEN Beside(c, -1) ELSE Beside(c, 1)
Opposite(side) == IF side = "west" THEN "east" ELSE "west"

\* The hash of a center: that of the first chunk of the first face is the 0 that
\* also stands for no center.
CenterHash(c) == c

\* solid_at: a chunk that is not loaded is as it was generated.
Facing(loaded, c, side) ==
    LET other == Neighbour(c, side)
    IN  IF loaded[other] = Absent THEN FALSE ELSE loaded[other][Opposite(side)]

BuildChunkMesh(loaded, c) ==
    [body |-> active, blocks |-> loaded[c],
     beyond |-> [side \in Sides |-> Facing(loaded, c, side)]]
-----------------------------------------------------------------------------
(* What happens before the terrain is streamed: the player moves or stays, flies
   up or comes down, arrives at another body, or changes a block *)

Unmoved == UNCHANGED <<active, view, last_center, snap_dirty, globe, moves>>

Stay ==
    /\ pc = "play"
    /\ pc' = "stream"
    /\ Unmoved
    /\ UNCHANGED <<chunks, scene, gpu, changes, lost>>

Move(c, ahead, high) ==
    /\ pc = "play"
    /\ moves < MaxMoves
    /\ view' = [at |-> c, ahead |-> ahead, high |-> high]
    /\ view' # view
    /\ moves' = moves + 1
    /\ pc' = "stream"
    /\ UNCHANGED <<active, chunks, last_center, snap_dirty, globe, scene, gpu, changes, lost>>

\* mutant: the scene keeps the globe of the body that was left
RebuildKeepingScene(b, grid) ==
    /\ globe' = [body |-> b, grid |-> grid]
    /\ UNCHANGED scene

\* rebuild_global_planet_surface
RebuildGlobe(b, grid) ==
    /\ globe' = [body |-> b, grid |-> grid]
    /\ scene' = [scene EXCEPT !.globe = NoMesh]

\* mutant: the meshes of the body that was left are kept
SwitchWithoutReset(b, c, grid) ==
    /\ pc = "play"
    /\ b # active
    /\ moves < MaxMoves
    /\ active' = b
    /\ view' = [at |-> c, ahead |-> c, high |-> view.high]
    /\ RebuildGlobe(b, grid)
    /\ last_center' = 0
    /\ moves' = moves + 1
    /\ pc' = "stream"
    /\ UNCHANGED <<chunks, snap_dirty, gpu, changes, lost>>

\* switch_active_planet: the chunks of both bodies are kept.
SwitchActivePlanet(b, c, grid) ==
    /\ pc = "play"
    /\ b # active
    /\ moves < MaxMoves
    /\ active' = b
    /\ view' = [at |-> c, ahead |-> c, high |-> view.high]
    /\ RebuildGlobe(b, grid)
    /\ last_center' = 0
    /\ snap_dirty' = TRUE
    /\ moves' = moves + 1
    /\ pc' = "stream"
    /\ UNCHANGED <<chunks, gpu, changes, lost>>

\* mutant: only the chunk the block is in
TouchingOwnChunk(c, side) == {c}

\* chunks_touching_block
ChunksTouchingBlock(c, side) == {c, Neighbour(c, side)}

\* The blocks of a chunk after one of them is dug away or placed
Changed(blocks, side) == [blocks EXCEPT ![side] = ~@]

\* update_block_interaction: the player aims at a block that is loaded and in reach.
ChangeBlock(c, side) ==
    /\ pc = "play"
    /\ changes < MaxEdits
    /\ c \in CollectStreamChunks(view.at, 1)
    /\ chunks[active][c] # Absent
    /\ chunks' = [chunks EXCEPT ![active][c] = Changed(@, side)]
    /\ scene' = [scene EXCEPT !.terrain =
                    [d \in Columns |-> IF d \in ChunksTouchingBlock(c, side) THEN NoMesh ELSE @[d]]]
    /\ changes' = changes + 1
    /\ pc' = "stream"
    /\ Unmoved
    /\ UNCHANGED <<gpu, lost>>
-----------------------------------------------------------------------------
(* stream_block_terrain *)

\* Steps from one column to another, and chunk_dist_sq of a column, times four
Steps(c, d) == IF Beside(c, -d) < Beside(d, -c) THEN Beside(c, -d) ELSE Beside(d, -c)
DistSq(c) ==
    LET current == 3 * Steps(c, view.at) * Steps(c, view.at)
        predicted == 4 * Steps(c, view.ahead) * Steps(c, view.ahead)
    IN  IF current < predicted THEN current ELSE predicted

\* What a budget is spent on: the nearest of the work, as far as there is any
Nearest(budget, work) ==
    {S \in SUBSET work :
        /\ Cardinality(S) = IF Cardinality(work) < budget THEN Cardinality(work) ELSE budget
        /\ \A c \in S, d \in work \ S : DistSq(c) <= DistSq(d)}

EvictExcept(loaded, kept) == [c \in Columns |-> IF c \in kept THEN loaded[c] ELSE Absent]

DropsChanges(loaded, kept) == \E c \in Columns \ kept : loaded[c] \notin {Generated, Absent}

\* collect_remesh_targets
RemeshTargets(new) ==
    new \cup {c \in Desired : \E n \in new : c \in CollectStreamChunks(n, 1)}

HasFaces(mesh, c) == c \notin AirOnly \/ mesh.blocks # Generated

\* mutant: a mesh without faces is not kept
UpsertVisible(mesh, c) == IF HasFaces(mesh, c) THEN mesh ELSE NoMesh

\* upsert_opaque_mesh: also an empty mesh, which marks the chunk as meshed
Upsert(mesh, c) == mesh

\* The meshes after a frame: those of the chunks worked on are built, those of the
\* chunks that went are dropped.
Remeshed(kept, loaded, meshed, moved) ==
    [c \in Columns |->
        CASE moved /\ (c \notin Resident \/ loaded[c] = Absent) -> NoMesh
          [] c \in meshed -> Upsert(BuildChunkMesh(loaded, c), c)
          [] OTHER -> kept[c]]

StreamDetail ==
    /\ pc = "stream"
    /\ ~view.high
    /\ LET moved == CenterHash(view.at) # last_center
           kept == IF moved THEN EvictExcept(chunks[active], Resident) ELSE chunks[active]
           shown == IF snap_dirty THEN EmptyScene ELSE scene
       IN  \E new \in Nearest(GenerationBudget, {c \in Desired : kept[c] = Absent}) :
            LET loaded == [c \in Columns |-> IF c \in new THEN Generated ELSE kept[c]]
                work == {c \in Desired : /\ loaded[c] # Absent
                                         /\ \/ shown.terrain[c] = NoMesh
                                            \/ c \in RemeshTargets(new)}
            IN  \E meshed \in Nearest(MeshBudget, work) :
                    /\ chunks' = [chunks EXCEPT ![active] = loaded]
                    /\ scene' = [shown EXCEPT !.terrain =
                                    Remeshed(shown.terrain, loaded, meshed, moved)]
                    /\ last_center' = IF moved THEN CenterHash(view.at) ELSE last_center
                    /\ lost' = (lost \/ (moved /\ DropsChanges(chunks[active], Resident)))
    /\ snap_dirty' = FALSE
    /\ pc' = "upload"
    /\ UNCHANGED <<active, view, globe, gpu, moves, changes>>

\* The globe owns the view at altitude.
StreamNothing ==
    /\ pc = "stream"
    /\ view.high
    /\ chunks' = [chunks EXCEPT ![active] = EvictExcept(@, {})]
    /\ lost' = (lost \/ DropsChanges(chunks[active], {}))
    /\ scene' = [scene EXCEPT !.terrain = NoTerrain]
    /\ snap_dirty' = FALSE
    /\ last_center' = 0
    /\ pc' = "upload"
    /\ UNCHANGED <<active, view, globe, gpu, moves, changes>>
-----------------------------------------------------------------------------
(* append_celestial_meshes, then upload_scene *)

\* The globe of the active body with the grid of its distance, and those of the others
WithGlobes(grid, grids) ==
    [scene EXCEPT
        !.globe = IF @ = NoMesh \/ grid # globe.grid THEN [body |-> globe.body, grid |-> grid]
                                                     ELSE @,
        !.far = [b \in Bodies |-> IF b = active THEN NoMesh ELSE grids[b]]]

NumFaces(mesh) == Cardinality({side \in Sides : mesh.blocks[side] # mesh.beyond[side]})

\* content_hash, which covers everything that is drawn
ContentHash(mesh) == mesh

\* upload_scene: a cached mesh of the same size and content is kept.
Uploaded(cached, mesh) ==
    IF mesh # NoMesh /\ cached # NoMesh /\ NumFaces(cached) = NumFaces(mesh)
            /\ ContentHash(cached) = ContentHash(mesh)
    THEN cached
    ELSE mesh

Upload(grid, grids) ==
    /\ pc = "upload"
    /\ globe' = [globe EXCEPT !.grid = grid]
    /\ scene' = WithGlobes(grid, grids)
    /\ gpu' = [scene' EXCEPT !.terrain =
                    [c \in Columns |-> Uploaded(gpu.terrain[c], scene.terrain[c])]]
    /\ pc' = "play"
    /\ UNCHANGED <<active, view, chunks, last_center, snap_dirty, moves, changes, lost>>
-----------------------------------------------------------------------------
Frame ==
    \/ Stay
    \/ \E c \in Columns, ahead \in Columns, high \in BOOLEAN :
        /\ ahead \in CollectStreamChunks(c, 1)
        /\ Move(c, ahead, high)
    \/ \E b \in Bodies, c \in Columns, grid \in Grids : SwitchActivePlanet(b, c, grid)
    \/ \E c \in Columns, side \in Sides : ChangeBlock(c, side)
    \/ StreamDetail
    \/ StreamNothing
    \/ \E grid \in Grids, grids \in [Bodies -> Grids] : Upload(grid, grids)

Spec == Init /\ [][Frame]_vars

\* Frames follow one another.
FairSpec == Spec /\ WF_vars(Frame)
-----------------------------------------------------------------------------
Drawn(c) == pc = "play" /\ gpu.terrain[c] # NoMesh

\* What is drawn of a chunk are its blocks as they are, and the chunk is one of the
\* active body: no change, eviction or arrival at another body leaves an old mesh
\* in the scene or an old copy on the GPU under the same id.
DrawnBlocksAreCurrent ==
    \A c \in Columns : Drawn(c) =>
        /\ gpu.terrain[c].body = active
        /\ chunks[active][c] # Absent
        /\ gpu.terrain[c].blocks = chunks[active][c]

\* The faces of a drawn chunk agree with the blocks beside it, those of chunks that
\* were not loaded when it was meshed included, until an eviction loses a change.
FacesMatchNeighbours ==
    \A c \in Columns : Drawn(c) /\ ~lost =>
        \A side \in Sides : gpu.terrain[c].beyond[side] = Facing(chunks[active], c, side)

\* Behind the chunks there is always the globe of the body the player is at, and
\* never a second one around it.
GlobeIsOfActiveBody ==
    pc = "play" /\ gpu # EmptyScene =>
        /\ gpu.globe # NoMesh
        /\ gpu.globe.body = active
        /\ \A b \in Bodies : gpu.far[b] = NoMesh <=> b = active

\* The two together: what is drawn of chunks and globes are the blocks as they are,
\* and the body the player is at.
SceneIsCurrent == DrawnBlocksAreCurrent /\ GlobeIsOfActiveBody

\* A player who stays near the ground sees all of it in the end, however small the
\* budgets.
GroundAppears ==
    <>[](~view.high => \A c \in Desired : gpu.terrain[c] # NoMesh)
=============================================================================
