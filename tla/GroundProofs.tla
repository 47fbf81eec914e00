---------------------------- MODULE GroundProofs ----------------------------
(***************************************************************************)
(* Proofs about the ground of the planets, for any number of columns, any  *)
(* reach, any budgets and any bodies: TerrainScene never draws a block     *)
(* that is gone, a body that was left or a face against ground that        *)
(* changed.  What is cached three times over, in chunks, in the scene and  *)
(* on the GPU, is dropped or rebuilt wherever what it shows changes.       *)
(* PlanetStreamer's quadtree draws no part of a planet twice and opens no  *)
(* hole, ChunkMesh draws all of natural ground that can be seen,           *)
(* GlobeDetail does not rebuild the globe of a distant body again and      *)
(* again around a camera that rests, and the cube of CubeNet is one        *)
(* closed surface, however fine its grids are.                             *)
(***************************************************************************)
EXTENDS TerrainScene, CubeNet, PlanetStreamer, ChunkMesh, GlobeDetail, FiniteSetTheorems, WellFoundedInduction, TLAPS

-----------------------------------------------------------------------------
(* Columns *)

LEMMA ModInRange ==
    ASSUME NEW m \in Nat \ {0}, NEW a \in Int
    PROVE  a % m \in 0..(m - 1)
  BY SMT

\* Walking along the ring stays on it.
LEMMA BesideInColumns ==
    ASSUME NEW c \in Int, NEW d \in Int PROVE Beside(c, d) \in Columns
  <1>1. (c + d) % NumColumns \in 0..(NumColumns - 1)
    BY ModInRange, TerrainSceneAssumption
  <1> QED
    BY <1>1 DEF Beside, Columns

LEMMA NeighbourInColumns ==
    ASSUME NEW c \in Columns, NEW side PROVE Neighbour(c, side) \in Columns
  <1>1. c \in Int /\ -1 \in Int /\ 1 \in Int
    BY TerrainSceneAssumption DEF Columns
  <1> QED
    BY <1>1, BesideInColumns DEF Neighbour

\* One step along the ring and one back
LEMMA OneStep ==
    ASSUME NEW c \in Columns
    PROVE  /\ Beside(c, 1) = IF c = NumColumns - 1 THEN 0 ELSE c + 1
           /\ Beside(c, -1) = IF c = 0 THEN NumColumns - 1 ELSE c - 1
  <1>1. NumColumns \in Nat \ {0} /\ c \in 0..(NumColumns - 1)
    BY TerrainSceneAssumption DEF Columns
  <1>2. Beside(c, 1) = IF c = NumColumns - 1 THEN 0 ELSE c + 1
    <2>1. c = NumColumns - 1 => (c + 1) % NumColumns = 0
      BY <1>1
    <2>2. c # NumColumns - 1 => c + 1 \in 0..(NumColumns - 1)
      BY <1>1
    <2>3. c # NumColumns - 1 => (c + 1) % NumColumns = c + 1
      BY <1>1, <2>2
    <2> QED
      BY <2>1, <2>3 DEF Beside
  <1>3. Beside(c, -1) = IF c = 0 THEN NumColumns - 1 ELSE c - 1
    <2>1. c = 0 => (c + -1) % NumColumns = NumColumns - 1
      BY <1>1
    <2>2. c # 0 => c + -1 \in 0..(NumColumns - 1) /\ c + -1 = c - 1
      BY <1>1
    <2>3. c # 0 => (c + -1) % NumColumns = c - 1
      BY <1>1, <2>2
    <2> QED
      BY <2>1, <2>3 DEF Beside
  <1> QED
    BY <1>2, <1>3

\* A column is the neighbour of its neighbour.
LEMMA NeighbourBack ==
    ASSUME NEW c \in Columns, NEW side \in Sides
    PROVE  Neighbour(Neighbour(c, side), Opposite(side)) = c
  <1>1. NumColumns \in Nat \ {0} /\ c \in 0..(NumColumns - 1)
    BY TerrainSceneAssumption DEF Columns
  <1>2. Beside(c, 1) \in Columns /\ Beside(c, -1) \in Columns
    BY <1>1, BesideInColumns
  <1>3. Beside(Beside(c, 1), -1) = c
    BY <1>1, <1>2, OneStep
  <1>4. Beside(Beside(c, -1), 1) = c
    BY <1>1, <1>2, OneStep
  <1> QED
    BY <1>3, <1>4 DEF Neighbour, Opposite, Sides

\* The columns that are wanted are kept.
LEMMA DesiredIsResident == TypeOK => Desired \subseteq Resident /\ Desired \subseteq Columns
  <1> SUFFICES ASSUME TypeOK PROVE Desired \subseteq Resident /\ Desired \subseteq Columns
    OBVIOUS
  <1>1. StreamReach \in Nat /\ ResidentSlack \in Nat
    BY TerrainSceneAssumption
  <1>2. view.at \in Columns /\ view.ahead \in Columns /\ Columns \subseteq Int
    BY TerrainSceneAssumption DEF TypeOK, Views, Columns
  <1>3. -StreamReach..StreamReach \subseteq
          -(StreamReach + ResidentSlack)..(StreamReach + ResidentSlack)
    BY <1>1
  <1>4. ASSUME NEW c \in Columns
        PROVE  /\ CollectStreamChunks(c, StreamReach)
                    \subseteq CollectStreamChunks(c, StreamReach + ResidentSlack)
               /\ CollectStreamChunks(c, StreamReach) \subseteq Columns
    <2>1. \A d \in -StreamReach..StreamReach : d \in Int /\ c \in Int
      BY <1>1, <1>2
    <2> QED
      BY <1>3, <2>1, BesideInColumns DEF CollectStreamChunks
  <1> QED
    BY <1>2, <1>4 DEF Desired, Resident

-----------------------------------------------------------------------------
(* Types *)

\* What the frame builds and uploads has its type.
LEMMA MeshType ==
    ASSUME TypeOK, NEW loaded \in [Columns -> Blocks \cup {Absent}],
           NEW c \in Columns, loaded[c] # Absent
    PROVE  BuildChunkMesh(loaded, c) \in Mesh
  <1>1. \A side \in Sides : Facing(loaded, c, side) \in BOOLEAN
    <2> SUFFICES ASSUME NEW side \in Sides PROVE Facing(loaded, c, side) \in BOOLEAN
      OBVIOUS
    <2> DEFINE other == Neighbour(c, side)
    <2>1. loaded[other] \in Blocks \cup {Absent} /\ Opposite(side) \in {"west", "east"}
      BY NeighbourInColumns DEF Opposite
    <2>2. \A x \in Blocks : x["west"] \in BOOLEAN /\ x["east"] \in BOOLEAN
      BY Zenon DEF Blocks
    <2>3. loaded[other] # Absent => loaded[other][Opposite(side)] \in BOOLEAN
      BY <2>1, <2>2, Zenon
    <2> QED
      BY <2>3, Zenon DEF Facing
  <1>2. [side \in Sides |-> Facing(loaded, c, side)] \in Blocks
    BY <1>1, Zenon DEF Sides, Blocks
  <1>3. active \in Bodies /\ loaded[c] \in Blocks
    BY DEF TypeOK
  <1> QED
    BY <1>2, <1>3, Zenon DEF BuildChunkMesh, Mesh

\* A changed block is a block.
LEMMA ChangedType ==
    ASSUME NEW blocks \in Blocks, NEW side \in Sides
    PROVE  Changed(blocks, side) \in Blocks
  <1>1. \A x \in BOOLEAN : (~x) \in BOOLEAN
    OBVIOUS
  <1>2. CASE side = "west"
    BY <1>1, <1>2, Zenon DEF Changed, Blocks
  <1>3. CASE side = "east"
    BY <1>1, <1>3, Zenon DEF Changed, Blocks
  <1> QED
    BY <1>2, <1>3 DEF Sides

\* The steps before the terrain is streamed keep the types.
LEMMA PlayTyped ==
    ASSUME TypeOK,
           \/ Stay
           \/ \E c \in Columns, ahead \in Columns, high \in BOOLEAN : Move(c, ahead, high)
           \/ \E b \in Bodies, c \in Columns, grid \in Grids : SwitchActivePlanet(b, c, grid)
           \/ \E c \in Columns, side \in Sides : ChangeBlock(c, side)
    PROVE  TypeOK'
  <1>1. CASE Stay
    BY <1>1, Zenon DEF Stay, Unmoved, TypeOK
  <1>2. ASSUME NEW c \in Columns, NEW ahead \in Columns, NEW high \in BOOLEAN,
               Move(c, ahead, high)
        PROVE  TypeOK'
    <2>1. view' \in Views
      BY <1>2, Zenon DEF Move, Views
    <2>2. moves' \in 0..MaxMoves
      BY <1>2, TerrainSceneAssumption DEF Move, TypeOK
    <2> QED
      BY <1>2, <2>1, <2>2, Zenon DEF Move, TypeOK
  <1>3. ASSUME NEW b \in Bodies, NEW c \in Columns, NEW grid \in Grids,
               SwitchActivePlanet(b, c, grid)
        PROVE  TypeOK'
    <2>1. view.high \in BOOLEAN
      BY Zenon DEF TypeOK, Views
    <2>2. view' \in Views
      BY <1>3, <2>1, Zenon DEF SwitchActivePlanet, Views
    <2>3. moves' \in 0..MaxMoves
      BY <1>3, TerrainSceneAssumption DEF SwitchActivePlanet, TypeOK
    <2>4. globe' \in Globe
      BY <1>3 DEF SwitchActivePlanet, RebuildGlobe, Globe
    <2>5. scene' \in Scenes
      BY <1>3 DEF SwitchActivePlanet, RebuildGlobe, Scenes, TypeOK
    <2>6. 0 \in Columns
      BY TerrainSceneAssumption DEF Columns
    <2> QED
      BY <1>3, <2>2, <2>3, <2>4, <2>5, <2>6, Zenon DEF SwitchActivePlanet, TypeOK
  <1>4. ASSUME NEW c \in Columns, NEW side \in Sides, ChangeBlock(c, side)
        PROVE  TypeOK'
    <2>1. chunks[active][c] \in Blocks
      BY <1>4 DEF ChangeBlock, TypeOK
    <2>2. Changed(chunks[active][c], side) \in Blocks
      BY <2>1, ChangedType
    <2>3. chunks' = [chunks EXCEPT ![active][c] = Changed(@, side)]
      BY <1>4 DEF ChangeBlock
    <2>4. chunks' \in [Bodies -> [Columns -> Blocks \cup {Absent}]]
      BY <2>2, <2>3 DEF TypeOK
    <2>5. scene' \in Scenes
      BY <1>4 DEF ChangeBlock, TypeOK, Scenes
    <2>6. changes' \in 0..MaxEdits
      BY <1>4, TerrainSceneAssumption DEF ChangeBlock, TypeOK
    <2> QED
      BY <1>4, <2>4, <2>5, <2>6, Zenon DEF ChangeBlock, Unmoved, TypeOK
  <1> QED
    BY <1>1, <1>2, <1>3, <1>4

\* What stream_block_terrain does to the chunks near the ground: those that stay are
\* as they were, new ones are as generated, and only loaded ones are meshed.
LEMMA StreamDetailChunks ==
    ASSUME TypeOK, StreamDetail
    PROVE  LET moved == CenterHash(view.at) # last_center
               shown == IF snap_dirty THEN EmptyScene ELSE scene
           IN  \E loaded \in [Columns -> Blocks \cup {Absent}], meshed \in SUBSET Desired :
                 /\ \A c \in Columns : chunks[active][c] # Absent /\ (moved => c \in Resident)
                        => loaded[c] = chunks[active][c]
                 /\ \A c \in Columns : chunks[active][c] = Absent
                        => loaded[c] \in {Absent, Generated}
                 /\ \A c \in Columns : moved /\ c \notin Resident => loaded[c] = Absent
                 /\ \A c \in meshed : loaded[c] # Absent
                 /\ chunks' = [chunks EXCEPT ![active] = loaded]
                 /\ scene' = [shown EXCEPT !.terrain =
                                 Remeshed(shown.terrain, loaded, meshed, moved)]
                 /\ lost' = (lost \/ (moved /\ DropsChanges(chunks[active], Resident)))
  <1> DEFINE moved == CenterHash(view.at) # last_center
             shown == IF snap_dirty THEN EmptyScene ELSE scene
             kept == IF moved THEN EvictExcept(chunks[active], Resident) ELSE chunks[active]
             missing == {c \in Desired : kept[c] = Absent}
             Filled(new) == [c \in Columns |-> IF c \in new THEN Generated ELSE kept[c]]
             Work(new) == {c \in Desired : /\ Filled(new)[c] # Absent
                                           /\ \/ shown.terrain[c] = NoMesh
                                              \/ c \in RemeshTargets(new)}
  <1>1. PICK new \in Nearest(GenerationBudget, missing) :
            \E meshed \in Nearest(MeshBudget, Work(new)) :
                /\ chunks' = [chunks EXCEPT ![active] = Filled(new)]
                /\ scene' = [shown EXCEPT !.terrain =
                                Remeshed(shown.terrain, Filled(new), meshed, moved)]
                /\ lost' = (lost \/ (moved /\ DropsChanges(chunks[active], Resident)))
    BY Zenon DEF StreamDetail
  <1>2. PICK meshed \in Nearest(MeshBudget, Work(new)) :
                /\ chunks' = [chunks EXCEPT ![active] = Filled(new)]
                /\ scene' = [shown EXCEPT !.terrain =
                                Remeshed(shown.terrain, Filled(new), meshed, moved)]
                /\ lost' = (lost \/ (moved /\ DropsChanges(chunks[active], Resident)))
    BY <1>1
  <1> DEFINE loaded == Filled(new)
  <1>3. new \subseteq missing /\ meshed \subseteq Work(new)
    BY DEF Nearest
  <1>4. chunks[active] \in [Columns -> Blocks \cup {Absent}] /\ Desired \subseteq Resident
        /\ Desired \subseteq Columns
    BY DesiredIsResident DEF TypeOK
  <1>5. Generated \in Blocks /\ Absent \notin Blocks
    BY MarkerAssumption DEF Generated, Blocks
  <1> HIDE DEF moved
  <1>6. kept \in [Columns -> Blocks \cup {Absent}]
    BY <1>4 DEF EvictExcept
  <1>7. \A c \in Columns : kept[c] = IF moved /\ c \notin Resident THEN Absent ELSE chunks[active][c]
    BY <1>4 DEF EvictExcept
  <1> HIDE DEF kept
  <1>8. loaded \in [Columns -> Blocks \cup {Absent}]
        /\ \A c \in Columns : loaded[c] = IF c \in new THEN Generated ELSE kept[c]
    BY <1>5, <1>6
  <1>9. \A c \in new : c \in Desired /\ kept[c] = Absent
    BY <1>3
  <1>10. \A c \in meshed : c \in Desired /\ loaded[c] # Absent
    BY <1>3
  <1> HIDE DEF loaded, missing, Work, Filled
  <1>11. \A c \in Columns : chunks[active][c] # Absent /\ (moved => c \in Resident)
                => loaded[c] = chunks[active][c]
    BY <1>7, <1>8, <1>9
  <1>12. \A c \in Columns : chunks[active][c] = Absent => loaded[c] \in {Absent, Generated}
    BY <1>7, <1>8
  <1>13. \A c \in Columns : moved /\ c \notin Resident => loaded[c] = Absent
    BY <1>4, <1>7, <1>8, <1>9
  <1>14. meshed \in SUBSET Desired
    BY <1>10
  <1> QED
    BY <1>2, <1>8, <1>10, <1>11, <1>12, <1>13, <1>14, Zenon DEF moved, loaded

\* The meshes of a frame are made of what is loaded, and those that are kept belong to
\* chunks that stay.
LEMMA RemeshedColumns ==
    ASSUME TypeOK, NEW kept, NEW loaded, NEW meshed \in SUBSET Desired, NEW moved,
           \A c \in meshed : loaded[c] # Absent,
           NEW c \in Columns
    PROVE  LET mesh == Remeshed(kept, loaded, meshed, moved)[c]
           IN  \/ mesh = NoMesh
               \/ c \in meshed /\ mesh = BuildChunkMesh(loaded, c)
               \/ /\ mesh = kept[c] /\ c \notin meshed
                  /\ moved => c \in Resident /\ loaded[c] # Absent
  <1>1. c \in meshed => ~(moved /\ (c \notin Resident \/ loaded[c] = Absent))
    BY DesiredIsResident
  <1> QED
    BY <1>1 DEF Remeshed, Upsert

\* Streaming and uploading keep the types.
LEMMA StreamTyped ==
    ASSUME TypeOK, StreamDetail \/ StreamNothing
    PROVE  TypeOK'
  <1>1. EmptyScene \in Scenes /\ NoTerrain \in [Columns -> Mesh \cup {NoMesh}]
    BY DEF EmptyScene, NoTerrain, Scenes
  <1>2. CASE StreamDetail
    <2> DEFINE moved == CenterHash(view.at) # last_center
               shown == IF snap_dirty THEN EmptyScene ELSE scene
    <2>1. PICK loaded \in [Columns -> Blocks \cup {Absent}], meshed \in SUBSET Desired :
            /\ \A c \in meshed : loaded[c] # Absent
            /\ chunks' = [chunks EXCEPT ![active] = loaded]
            /\ scene' = [shown EXCEPT !.terrain = Remeshed(shown.terrain, loaded, meshed, moved)]
            /\ lost' = (lost \/ (moved /\ DropsChanges(chunks[active], Resident)))
      BY <1>2, StreamDetailChunks
    <2>2. shown \in Scenes
      BY <1>1 DEF TypeOK
    <2>3. shown.terrain \in [Columns -> Mesh \cup {NoMesh}]
      BY <2>2 DEF Scenes
    <2> HIDE DEF shown, moved
    <2> DEFINE meshes == Remeshed(shown.terrain, loaded, meshed, moved)
    <2>4. ASSUME NEW c \in Columns
          PROVE  meshes[c] \in Mesh \cup {NoMesh}
      <3>1. c \in meshed => BuildChunkMesh(loaded, c) \in Mesh
        BY <2>1, MeshType
      <3> QED
        BY <2>1, <2>3, <3>1, RemeshedColumns
    <2>5. meshes \in [Columns -> Mesh \cup {NoMesh}]
      BY <2>4 DEF Remeshed
    <2> HIDE DEF meshes
    <2>6. scene' \in Scenes
      BY <2>1, <2>2, <2>5 DEF Scenes, meshes
    <2>7. chunks' \in [Bodies -> [Columns -> Blocks \cup {Absent}]]
      BY <2>1 DEF TypeOK
    <2>8. lost' \in BOOLEAN
      BY <2>1, Zenon DEF TypeOK
    <2>9. last_center' \in Columns
      BY <1>2 DEF StreamDetail, CenterHash, TypeOK, Views
    <2>10. snap_dirty' \in BOOLEAN /\ pc' = "upload"
           /\ UNCHANGED <<active, view, globe, gpu, moves, changes>>
      BY <1>2, Zenon DEF StreamDetail
    <2> QED
      BY <2>6, <2>7, <2>8, <2>9, <2>10, Zenon DEF TypeOK
  <1>3. CASE StreamNothing
    <2>1. scene' \in Scenes
      BY <1>1, <1>3 DEF StreamNothing, TypeOK, Scenes
    <2>2. chunks' \in [Bodies -> [Columns -> Blocks \cup {Absent}]]
      BY <1>3 DEF StreamNothing, EvictExcept, TypeOK
    <2>3. lost' \in BOOLEAN
      BY <1>3, Zenon DEF StreamNothing, TypeOK
    <2>4. 0 \in Columns
      BY TerrainSceneAssumption DEF Columns
    <2> QED
      BY <1>3, <2>1, <2>2, <2>3, <2>4, Zenon DEF StreamNothing, TypeOK
  <1> QED
    BY <1>2, <1>3

\* Uploading changes no mesh: a cached one is kept only where it is the same.
LEMMA UploadedIsTheMesh ==
    ASSUME NEW cached, NEW mesh PROVE Uploaded(cached, mesh) = mesh
  BY DEF Uploaded, ContentHash

\* What is uploaded: the terrain of the scene behind the globes of this distance
LEMMA UploadScene ==
    ASSUME TypeOK, NEW grid \in Grids, NEW grids \in [Bodies -> Grids], Upload(grid, grids)
    PROVE  /\ scene' \in Scenes /\ gpu' = scene'
           /\ scene'.terrain = scene.terrain
           /\ scene'.globe = IF scene.globe = NoMesh \/ grid # globe.grid
                             THEN [body |-> globe.body, grid |-> grid] ELSE scene.globe
           /\ scene'.far = [b \in Bodies |-> IF b = active THEN NoMesh ELSE grids[b]]
  <1> DEFINE front == IF scene.globe = NoMesh \/ grid # globe.grid
                      THEN [body |-> globe.body, grid |-> grid] ELSE scene.globe
             far == [b \in Bodies |-> IF b = active THEN NoMesh ELSE grids[b]]
             copied == [c \in Columns |-> Uploaded(gpu.terrain[c], scene.terrain[c])]
  <1>1. scene \in Scenes /\ scene.terrain \in [Columns -> Mesh \cup {NoMesh}]
        /\ globe.body \in Bodies
    BY DEF TypeOK, Scenes, Globe
  <1>2. scene' = [scene EXCEPT !.globe = front, !.far = far]
    BY DEF Upload, WithGlobes
  <1>3. gpu' = [scene' EXCEPT !.terrain = copied]
    BY DEF Upload
  <1>4. front \in Globe \cup {NoMesh} /\ far \in [Bodies -> Grids \cup {NoMesh}]
    BY <1>1 DEF Scenes, Globe
  <1>5. copied = scene.terrain
    BY <1>1, UploadedIsTheMesh
  <1> HIDE DEF front, far, copied
  <1>6. scene' \in Scenes /\ scene'.globe = front /\ scene'.far = far
        /\ scene'.terrain = scene.terrain
    BY <1>1, <1>2, <1>4 DEF Scenes
  <1>7. gpu' = scene'
    BY <1>3, <1>5, <1>6 DEF Scenes
  <1> QED
    BY <1>6, <1>7 DEF front, far

LEMMA StepTyped == TypeOK /\ [Frame]_vars => TypeOK'
  <1> SUFFICES ASSUME TypeOK, [Frame]_vars PROVE TypeOK'
    OBVIOUS
  <1>1. CASE UNCHANGED vars
    BY <1>1, Zenon DEF vars, TypeOK
  <1>2. ASSUME NEW grid \in Grids, NEW grids \in [Bodies -> Grids], Upload(grid, grids)
        PROVE  TypeOK'
    <2>1. scene' \in Scenes /\ gpu' \in Scenes
      BY <1>2, UploadScene
    <2>2. globe' \in Globe
      BY <1>2 DEF Upload, TypeOK, Globe
    <2> QED
      BY <1>2, <2>1, <2>2, Zenon DEF Upload, TypeOK
  <1> QED
    BY <1>1, <1>2, PlayTyped, StreamTyped, Zenon DEF Frame

\* Every variable keeps its type.
THEOREM SceneTypeCorrect == Spec => []TypeOK
  <1>1. Init => TypeOK
    <2> SUFFICES ASSUME Init PROVE TypeOK
      OBVIOUS
    <2>1. EmptyScene \in Scenes
      BY DEF EmptyScene, NoTerrain, Scenes
    <2>2. 0 \in Columns /\ FALSE \in BOOLEAN /\ TRUE \in BOOLEAN
          /\ 0 \in 0..MaxMoves /\ 0 \in 0..MaxEdits
      BY TerrainSceneAssumption DEF Columns
    <2>3. view \in Views
      BY <2>2, Zenon DEF Init, Views
    <2>4. globe \in Globe /\ active \in Bodies
      BY TerrainSceneAssumption DEF Init, Globe
    <2>5. chunks \in [Bodies -> [Columns -> Blocks \cup {Absent}]]
      BY DEF Init
    <2> QED
      BY <2>1, <2>2, <2>3, <2>4, <2>5, Zenon DEF Init, TypeOK
  <1> QED
    BY <1>1, StepTyped, PTL DEF Spec

-----------------------------------------------------------------------------
(* What the meshes show *)

\* Mesh m of column c is of the active body and of the blocks that are there, and until
\* an eviction loses a change its faces agree with the blocks beside it.
MeshIsCurrent(m, c) ==
    /\ m.body = active
    /\ chunks[active][c] # Absent
    /\ m.blocks = chunks[active][c]
    /\ ~lost => \A side \in Sides : m.beyond[side] = Facing(chunks[active], c, side)

\* Every mesh of the scene is current, except between the arrival at a body and the
\* next streaming, which snap_origin_dirty_ makes drop them all.
MeshesAreCurrent ==
    pc # "stream" \/ ~snap_dirty =>
        \A c \in Columns : scene.terrain[c] # NoMesh => MeshIsCurrent(scene.terrain[c], c)

\* While the player plays, the GPU holds what the last frame put into the scene.
GpuShowsScene == pc = "play" => gpu.terrain = scene.terrain

GlobesAreCurrent ==
    /\ globe.body = active
    /\ scene.globe # NoMesh => scene.globe.body = active
    /\ GlobeIsOfActiveBody

SceneInv == MeshesAreCurrent /\ GpuShowsScene /\ GlobesAreCurrent

\* A step that changes neither the chunks nor the body, and no mesh but by dropping it,
\* leaves the meshes current.
LEMMA MeshesStayCurrent ==
    ASSUME TypeOK, MeshesAreCurrent, pc # "stream", UNCHANGED <<active, chunks, lost>>,
           \A c \in Columns : scene'.terrain[c] \in {NoMesh, scene.terrain[c]}
    PROVE  MeshesAreCurrent'
  <1> SUFFICES ASSUME NEW c \in Columns, scene'.terrain[c] # NoMesh
               PROVE  MeshIsCurrent(scene.terrain[c], c)'
    BY DEF MeshesAreCurrent
  <1>1. MeshIsCurrent(scene.terrain[c], c) /\ scene'.terrain[c] = scene.terrain[c]
    BY DEF MeshesAreCurrent
  <1> QED
    BY <1>1 DEF MeshIsCurrent, Facing

\* What solid_at answers for a block beside a loaded chunk survives loading and, unless
\* a change is lost, eviction: an unloaded chunk is as it was generated.
LEMMA FacingSurvivesStreaming ==
    ASSUME NEW loaded \in [Columns -> Blocks \cup {Absent}],
           NEW after \in [Columns -> Blocks \cup {Absent}], NEW gone,
           \A c \in Columns : loaded[c] # Absent /\ c \notin gone => after[c] = loaded[c],
           \A c \in Columns : loaded[c] = Absent => after[c] \in {Absent, Generated},
           \A c \in Columns : c \in gone => after[c] = Absent,
           \A c \in Columns : c \in gone => loaded[c] \in {Generated, Absent},
           NEW c \in Columns, NEW side \in Sides
    PROVE  Facing(after, c, side) = Facing(loaded, c, side)
  <1> DEFINE other == Neighbour(c, side)
  <1>1. other \in Columns
    BY NeighbourInColumns
  <1>2. Opposite(side) \in {"west", "east"}
    BY DEF Opposite
  <1>3. Generated[Opposite(side)] = FALSE
    BY <1>2, SMT DEF Generated
  <1>4. \/ after[other] = loaded[other]
        \/ after[other] \in {Absent, Generated} /\ loaded[other] \in {Absent, Generated}
    BY <1>1
  <1> HIDE DEF other
  <1>5. CASE after[other] = loaded[other]
    BY <1>5, Zenon DEF Facing, other
  <1>6. CASE after[other] \in {Absent, Generated} /\ loaded[other] \in {Absent, Generated}
    <2>1. Facing(after, c, side) = FALSE
      BY <1>3, <1>6, Zenon DEF Facing, other
    <2>2. Facing(loaded, c, side) = FALSE
      BY <1>3, <1>6, Zenon DEF Facing, other
    <2> QED
      BY <2>1, <2>2
  <1> QED
    BY <1>4, <1>5, <1>6

\* stream_block_terrain leaves current meshes current and builds current ones.
LEMMA StreamKeepsMeshesCurrent ==
    ASSUME TypeOK, MeshesAreCurrent, StreamDetail \/ StreamNothing
    PROVE  MeshesAreCurrent'
  <1>1. CASE StreamDetail
    <2> DEFINE moved == CenterHash(view.at) # last_center
               shown == IF snap_dirty THEN EmptyScene ELSE scene
    <2>1. PICK loaded \in [Columns -> Blocks \cup {Absent}], meshed \in SUBSET Desired :
            /\ \A c \in Columns : chunks[active][c] # Absent /\ (moved => c \in Resident)
                   => loaded[c] = chunks[active][c]
            /\ \A c \in Columns : chunks[active][c] = Absent => loaded[c] \in {Absent, Generated}
            /\ \A c \in Columns : moved /\ c \notin Resident => loaded[c] = Absent
            /\ \A c \in meshed : loaded[c] # Absent
            /\ chunks' = [chunks EXCEPT ![active] = loaded]
            /\ scene' = [shown EXCEPT !.terrain = Remeshed(shown.terrain, loaded, meshed, moved)]
            /\ lost' = (lost \/ (moved /\ DropsChanges(chunks[active], Resident)))
      BY <1>1, StreamDetailChunks
    <2>2. EmptyScene \in Scenes /\ \A c \in Columns : EmptyScene.terrain[c] = NoMesh
      BY DEF EmptyScene, NoTerrain, Scenes
    <2>3. shown \in Scenes /\ scene \in Scenes
      BY <2>2 DEF TypeOK
    <2>4. snap_dirty \in BOOLEAN /\ active \in Bodies /\ active' = active /\ pc = "stream"
      BY <1>1 DEF StreamDetail, TypeOK
    <2>5. \A c \in Columns : shown.terrain[c] # NoMesh =>
              shown.terrain[c] = scene.terrain[c] /\ MeshIsCurrent(scene.terrain[c], c)
      BY <2>2, <2>4 DEF MeshesAreCurrent
    <2> HIDE DEF shown
    <2>6. scene'.terrain = Remeshed(shown.terrain, loaded, meshed, moved)
      BY <2>1, <2>3 DEF Scenes
    <2>7. chunks'[active'] = loaded /\ chunks[active] \in [Columns -> Blocks \cup {Absent}]
      BY <2>1, <2>4 DEF TypeOK
    <2> DEFINE gone == {c \in Columns : moved /\ c \notin Resident}
    <2>8. ASSUME ~lost'
          PROVE  ~lost /\ \A c \in Columns : c \in gone => chunks[active][c] \in {Generated, Absent}
      <3>1. ~lost /\ ~(moved /\ DropsChanges(chunks[active], Resident))
        BY <2>1, <2>8
      <3>2. moved => \A c \in Columns \ Resident : chunks[active][c] \in {Generated, Absent}
        BY <3>1 DEF DropsChanges
      <3> QED
        BY <3>1, <3>2
    <2> HIDE DEF moved
    <2> SUFFICES ASSUME NEW c \in Columns, scene'.terrain[c] # NoMesh
                 PROVE  MeshIsCurrent(scene.terrain[c], c)'
      BY DEF MeshesAreCurrent
    <2> DEFINE m == scene'.terrain[c]
    <2>9. \/ c \in meshed /\ m = BuildChunkMesh(loaded, c)
          \/ /\ m = shown.terrain[c] /\ m # NoMesh
             /\ moved => c \in Resident /\ loaded[c] # Absent
      BY <2>1, <2>6, RemeshedColumns
    <2>10. CASE c \in meshed /\ m = BuildChunkMesh(loaded, c)
      <3>1. m.body = active /\ m.blocks = loaded[c] /\ loaded[c] # Absent
            /\ \A side \in Sides : m.beyond[side] = Facing(loaded, c, side)
        BY <2>1, <2>10 DEF BuildChunkMesh
      <3> QED
        BY <2>4, <2>7, <3>1 DEF MeshIsCurrent
    <2>11. CASE /\ m = shown.terrain[c] /\ m # NoMesh
                /\ moved => c \in Resident /\ loaded[c] # Absent
      <3>1. m = scene.terrain[c] /\ MeshIsCurrent(scene.terrain[c], c)
        BY <2>5, <2>11
      <3>2. loaded[c] = chunks[active][c]
        BY <2>1, <2>11, <3>1 DEF MeshIsCurrent
      <3>3. ASSUME ~lost', NEW side \in Sides
            PROVE  m.beyond[side] = Facing(loaded, c, side)
        <4>1. ~lost /\ \A d \in Columns : d \in gone => chunks[active][d] \in {Generated, Absent}
          BY <2>8, <3>3
        <4>2. \A d \in Columns : d \in gone => loaded[d] = Absent
          BY <2>1
        <4>3. \A d \in Columns : chunks[active][d] # Absent /\ d \notin gone
                                     => loaded[d] = chunks[active][d]
          BY <2>1
        <4>4. Facing(loaded, c, side) = Facing(chunks[active], c, side)
          <5>1. \A d \in Columns : chunks[active][d] = Absent => loaded[d] \in {Absent, Generated}
            BY <2>1
          <5>2. loaded \in [Columns -> Blocks \cup {Absent}]
                /\ chunks[active] \in [Columns -> Blocks \cup {Absent}]
            BY <2>1, <2>7
          <5> HIDE DEF gone
          <5> QED
            BY <4>1, <4>2, <4>3, <5>1, <5>2, FacingSurvivesStreaming
        <4> QED
          BY <3>1, <4>1, <4>4 DEF MeshIsCurrent
      <3> QED
        BY <2>4, <2>7, <3>1, <3>2, <3>3 DEF MeshIsCurrent
    <2> QED
      BY <2>9, <2>10, <2>11
  <1>2. CASE StreamNothing
    <2>1. scene'.terrain = NoTerrain
      BY <1>2 DEF StreamNothing, TypeOK, Scenes
    <2> QED
      BY <2>1 DEF MeshesAreCurrent, NoTerrain
  <1> QED
    BY <1>1, <1>2
\* A dug or placed block changes no mesh but those chunks_touching_block names: the chunk
\* it is in, and the one that has a face against it.
LEMMA ChangeKeepsMeshesCurrent ==
    ASSUME TypeOK, MeshesAreCurrent, NEW c \in Columns, NEW side \in Sides, ChangeBlock(c, side)
    PROVE  MeshesAreCurrent'
  <1>1. active' = active /\ active \in Bodies /\ lost' = lost /\ pc = "play"
    BY Zenon DEF ChangeBlock, Unmoved, TypeOK
  <1>2. chunks[active][c] \in Blocks /\ chunks[active] \in [Columns -> Blocks \cup {Absent}]
    BY DEF ChangeBlock, TypeOK
  <1>3. chunks'[active] = [chunks[active] EXCEPT ![c] = Changed(chunks[active][c], side)]
    <2>1. chunks' = [chunks EXCEPT ![active][c] = Changed(@, side)]
      BY DEF ChangeBlock
    <2> QED
      BY <1>1, <2>1 DEF TypeOK
  <1>4. \A d \in Columns : scene'.terrain[d] = IF d \in ChunksTouchingBlock(c, side)
                                               THEN NoMesh ELSE scene.terrain[d]
    BY DEF ChangeBlock, TypeOK, Scenes
  <1> SUFFICES ASSUME NEW d \in Columns, scene'.terrain[d] # NoMesh
               PROVE  MeshIsCurrent(scene.terrain[d], d)'
    BY DEF MeshesAreCurrent
  <1>5. d # c /\ d # Neighbour(c, side) /\ scene'.terrain[d] = scene.terrain[d]
    BY <1>4 DEF ChunksTouchingBlock
  <1>6. MeshIsCurrent(scene.terrain[d], d)
    BY <1>1, <1>5 DEF MeshesAreCurrent
  <1>7. chunks'[active][d] = chunks[active][d]
    BY <1>2, <1>3, <1>5
  <1>8. ASSUME NEW s \in Sides
        PROVE  Facing(chunks'[active], d, s) = Facing(chunks[active], d, s)
    <2> DEFINE other == Neighbour(d, s)
    <2>1. other \in Columns
      BY NeighbourInColumns
    <2>2. CASE other # c
      <3>1. chunks'[active][other] = chunks[active][other]
        BY <1>2, <1>3, <2>1, <2>2
      <3> QED
        BY <3>1 DEF Facing
    <2>3. CASE other = c
      \* The block is on the other side of its chunk.
      <3>1. Neighbour(c, Opposite(s)) = d
        BY <2>3, NeighbourBack
      <3>2. side # Opposite(s)
        BY <1>5, <3>1
      <3>3. Changed(chunks[active][c], side)[Opposite(s)] = chunks[active][c][Opposite(s)]
        <4>1. Opposite(s) \in {"west", "east"}
          BY DEF Opposite
        <4> QED
          BY <1>2, <3>2, <4>1 DEF Changed, Blocks
      <3>4. chunks'[active][c] = Changed(chunks[active][c], side)
        BY <1>2, <1>3
      <3>5. Changed(chunks[active][c], side) # Absent /\ chunks[active][c] # Absent
        BY <1>2, ChangedType, MarkerAssumption
      <3> QED
        BY <2>3, <3>3, <3>4, <3>5, Zenon DEF Facing
    <2> QED
      BY <2>2, <2>3
  <1> QED
    BY <1>1, <1>5, <1>6, <1>7, <1>8 DEF MeshIsCurrent

\* Each step of a frame keeps the scene and the GPU true to the blocks.
LEMMA StepScene == TypeOK /\ SceneInv /\ [Frame]_vars => SceneInv'
  <1> SUFFICES ASSUME TypeOK, SceneInv, [Frame]_vars PROVE SceneInv'
    OBVIOUS
  <1>1. MeshesAreCurrent /\ GpuShowsScene /\ GlobesAreCurrent
    BY DEF SceneInv
  <1>2. NoMesh \notin Globe /\ NoMesh \notin Grids
    BY MarkerAssumption
  <1>3. CASE UNCHANGED vars
    <2>1. MeshesAreCurrent'
      BY <1>1, <1>3, Zenon DEF vars, MeshesAreCurrent, MeshIsCurrent, Facing
    <2>2. GpuShowsScene' /\ GlobesAreCurrent'
      BY <1>1, <1>3, Zenon DEF vars, GpuShowsScene, GlobesAreCurrent, GlobeIsOfActiveBody,
                               EmptyScene, NoTerrain
    <2> QED
      BY <2>1, <2>2 DEF SceneInv
  <1>4. CASE Stay
    <2>1. pc = "play" /\ pc' = "stream" /\ UNCHANGED <<active, chunks, scene, globe, lost>>
      BY <1>4 DEF Stay, Unmoved
    <2>2. MeshesAreCurrent'
      BY <1>1, <2>1, MeshesStayCurrent
    <2> QED
      BY <1>1, <2>1, <2>2 DEF SceneInv, GpuShowsScene, GlobesAreCurrent, GlobeIsOfActiveBody
  <1>5. ASSUME NEW c \in Columns, NEW ahead \in Columns, NEW high \in BOOLEAN,
               Move(c, ahead, high)
        PROVE  SceneInv'
    <2>1. pc = "play" /\ pc' = "stream" /\ UNCHANGED <<active, chunks, scene, globe, lost>>
      BY <1>5 DEF Move
    <2>2. MeshesAreCurrent'
      BY <1>1, <2>1, MeshesStayCurrent
    <2> QED
      BY <1>1, <2>1, <2>2 DEF SceneInv, GpuShowsScene, GlobesAreCurrent, GlobeIsOfActiveBody
  <1>6. ASSUME NEW b \in Bodies, NEW c \in Columns, NEW grid \in Grids,
               SwitchActivePlanet(b, c, grid)
        PROVE  SceneInv'
    <2>1. pc' = "stream" /\ snap_dirty' = TRUE /\ active' = b /\ globe'.body = b
      BY <1>6 DEF SwitchActivePlanet, RebuildGlobe
    <2>2. scene'.globe = NoMesh
      BY <1>6 DEF SwitchActivePlanet, RebuildGlobe, TypeOK, Scenes
    <2> QED
      BY <2>1, <2>2 DEF SceneInv, MeshesAreCurrent, GpuShowsScene, GlobesAreCurrent,
                        GlobeIsOfActiveBody
  <1>7. ASSUME NEW c \in Columns, NEW side \in Sides, ChangeBlock(c, side)
        PROVE  SceneInv'
    <2>1. pc' = "stream" /\ UNCHANGED <<active, globe>>
      BY <1>7, Zenon DEF ChangeBlock, Unmoved
    <2>2. scene'.globe = scene.globe
      BY <1>7 DEF ChangeBlock, TypeOK, Scenes
    <2>3. MeshesAreCurrent'
      BY <1>1, <1>7, ChangeKeepsMeshesCurrent
    <2> QED
      BY <1>1, <2>1, <2>2, <2>3 DEF SceneInv, GpuShowsScene, GlobesAreCurrent, GlobeIsOfActiveBody
  <1>8. CASE StreamDetail \/ StreamNothing
    <2>1. pc' = "upload" /\ UNCHANGED <<active, globe>>
      BY <1>8, Zenon DEF StreamDetail, StreamNothing
    <2>2. scene'.globe \in {NoMesh, scene.globe}
      <3>1. CASE StreamNothing
        BY <3>1 DEF StreamNothing, TypeOK, Scenes
      <3>2. CASE StreamDetail
        <4> DEFINE shown == IF snap_dirty THEN EmptyScene ELSE scene
        <4>1. PICK meshes : scene' = [shown EXCEPT !.terrain = meshes]
          BY <3>2, StreamDetailChunks
        <4>2. shown \in Scenes /\ shown.globe \in {NoMesh, scene.globe}
          BY DEF TypeOK, EmptyScene, NoTerrain, Scenes
        <4> HIDE DEF shown
        <4> QED
          BY <4>1, <4>2 DEF Scenes
      <3> QED
        BY <1>8, <3>1, <3>2
    <2>3. MeshesAreCurrent'
      BY <1>1, <1>8, StreamKeepsMeshesCurrent
    <2> QED
      BY <1>1, <2>1, <2>2, <2>3 DEF SceneInv, GpuShowsScene, GlobesAreCurrent, GlobeIsOfActiveBody
  <1>9. ASSUME NEW grid \in Grids, NEW grids \in [Bodies -> Grids], Upload(grid, grids)
        PROVE  SceneInv'
    <2>1. /\ scene' \in Scenes /\ gpu' = scene'
          /\ scene'.terrain = scene.terrain
          /\ scene'.globe = IF scene.globe = NoMesh \/ grid # globe.grid
                            THEN [body |-> globe.body, grid |-> grid] ELSE scene.globe
          /\ scene'.far = [b \in Bodies |-> IF b = active THEN NoMesh ELSE grids[b]]
      BY <1>9, UploadScene
    <2>2. pc = "upload" /\ pc' = "play" /\ UNCHANGED <<active, chunks, lost>>
          /\ globe' = [globe EXCEPT !.grid = grid]
      BY <1>9 DEF Upload
    <2>3. MeshesAreCurrent'
      BY <1>1, <2>1, <2>2, MeshesStayCurrent
    <2>4. globe.body = active /\ globe \in Globe /\ globe'.body = active
          /\ (scene.globe # NoMesh => scene.globe.body = active)
      BY <1>1, <2>2 DEF GlobesAreCurrent, TypeOK, Globe
    <2>5. scene'.globe # NoMesh /\ scene'.globe.body = active
      <3>1. [body |-> globe.body, grid |-> grid] \in Globe
        BY <2>4 DEF Globe
      <3> QED
        BY <1>2, <2>1, <2>4, <3>1
    <2>6. \A b \in Bodies : scene'.far[b] = NoMesh <=> b = active
      BY <1>2, <2>1
    <2>7. GlobesAreCurrent'
      BY <2>1, <2>2, <2>4, <2>5, <2>6 DEF GlobesAreCurrent, GlobeIsOfActiveBody
    <2> QED
      BY <2>1, <2>3, <2>7 DEF SceneInv, GpuShowsScene
  <1> QED
    BY <1>3, <1>4, <1>5, <1>6, <1>7, <1>8, <1>9, Zenon DEF Frame

\* Of every body, column and change, the scene is true to the blocks, and the GPU to the
\* scene while the player plays.
THEOREM SceneInvHolds == Spec => []SceneInv
  <1>1. Init => SceneInv
    <2> SUFFICES ASSUME Init PROVE SceneInv
      OBVIOUS
    <2>1. gpu = EmptyScene /\ scene = EmptyScene /\ globe.body = active
      BY DEF Init
    <2>2. EmptyScene.globe = NoMesh /\ \A c \in Columns : EmptyScene.terrain[c] = NoMesh
      BY DEF EmptyScene, NoTerrain
    <2> QED
      BY <2>1, <2>2 DEF SceneInv, MeshesAreCurrent, GpuShowsScene, GlobesAreCurrent,
                        GlobeIsOfActiveBody
  <1> QED
    BY <1>1, StepScene, SceneTypeCorrect, PTL DEF Spec

\* No change, eviction or arrival at another body leaves an old mesh in the scene or an
\* old copy on the GPU under the same id, and the globe behind the chunks is that of the
\* body the player is at: stream_block_terrain, switch_active_planet and upload_scene drop
\* or rebuild every copy in time.
THEOREM SceneStaysCurrent == Spec => []SceneIsCurrent
  <1>1. SceneInv => SceneIsCurrent
    BY DEF SceneInv, MeshesAreCurrent, GpuShowsScene, GlobesAreCurrent, MeshIsCurrent,
           SceneIsCurrent, DrawnBlocksAreCurrent, Drawn
  <1> QED
    BY <1>1, SceneInvHolds, PTL

\* A drawn chunk has a face exactly where a solid block meets none, also against chunks
\* that were loaded, changed or dropped after it was meshed: chunks_touching_block and
\* collect_remesh_targets name every mesh that has to be built again.
THEOREM FacesAlwaysMatchNeighbours == Spec => []FacesMatchNeighbours
  <1>1. SceneInv => FacesMatchNeighbours
    BY DEF SceneInv, MeshesAreCurrent, GpuShowsScene, MeshIsCurrent, FacesMatchNeighbours, Drawn
  <1> QED
    BY <1>1, SceneInvHolds, PTL
-----------------------------------------------------------------------------
(* PlanetStreamer: nodes and the nodes above them *)

LEMMA LeastNatural ==
    ASSUME NEW T, T \subseteq Nat, T # {}
    PROVE  \E x \in T : \A y \in T : x <= y
  <1> DEFINE R == OpToRel(<, Nat)
  <1>1. IsWellFoundedOn(R, Nat)
    BY NatLessThanWellFounded
  <1>2. \A x, y \in Nat : y < x => <<y, x>> \in R
    BY DEF OpToRel
  <1> HIDE DEF R
  <1>3. \E x \in T : \A y \in T : ~(<<y, x>> \in R)
    BY <1>1, WFMin
  <1>4. \A x, y \in Nat : ~(<<y, x>> \in R) => x <= y
    BY <1>2
  <1>5. PICK x \in T : \A y \in T : ~(<<y, x>> \in R)
    BY <1>3
  <1>6. \A y \in T : x <= y
    BY <1>4, <1>5
  <1> QED
    BY <1>6

\* A node is a path: a root, and then a child each time.
LEMMA NodeIsPath ==
    ASSUME NEW n \in Nodes
    PROVE  /\ n \in Seq(Nat)
           /\ Len(n) \in 1..(MaxLod + 1)
           /\ \A k \in 2..Len(n) : n[k] \in 1..Fan
  <1>1. PICK r \in 1..Roots : n \in Face(r)
    BY DEF Nodes
  <1>2. PICK lod \in 0..MaxLod : n \in {<<r>> \o p : p \in [1..lod -> 1..Fan]}
    BY <1>1 DEF Face
  <1> PICK p \in [1..lod -> 1..Fan] : n = <<r>> \o p
    BY <1>2
  <1>3. MaxLod \in Nat /\ Fan \in Nat /\ Roots \in Nat /\ lod \in Nat
    BY PlanetStreamerAssumption
  <1>4. p \in Seq(Nat) /\ Len(p) = lod
    BY <1>3
  <1>5. <<r>> \in Seq(Nat) /\ Len(<<r>>) = 1
    BY <1>3
  <1>6. n \in Seq(Nat) /\ Len(n) = lod + 1
    BY <1>4, <1>5
  <1>7. ASSUME NEW k \in 2..Len(n) PROVE n[k] \in 1..Fan
    <2>1. k \in Int /\ k - 1 \in 1..lod
      BY <1>3, <1>6
    <2>2. n[k] = p[k - 1]
      BY <1>4, <1>5, <1>6, <2>1
    <2> QED
      BY <2>1, <2>2
  <1> QED
    BY <1>3, <1>6, <1>7

\* The nodes above one of a path are those above it that are shorter.
LEMMA Ancestors ==
    ASSUME NEW n \in Seq(Nat), NEW k \in 1..Len(n)
    PROVE  /\ SubSeq(n, 1, k) \in Seq(Nat)
           /\ Len(SubSeq(n, 1, k)) = k
           /\ Upward(SubSeq(n, 1, k)) = {SubSeq(n, 1, j) : j \in 1..k}
           /\ SubSeq(n, 1, k) \in Upward(n)
  <1>1. k \in Nat /\ k >= 1 /\ k <= Len(n) /\ Len(n) \in Nat
    OBVIOUS
  <1>2. SubSeq(n, 1, k) \in Seq(Nat)
    BY <1>1
  <1>3. Len(SubSeq(n, 1, k)) = k
    BY <1>1
  <1>4. ASSUME NEW j \in 1..k PROVE SubSeq(SubSeq(n, 1, k), 1, j) = SubSeq(n, 1, j)
    <2>1. j \in Nat /\ j >= 1 /\ j <= Len(n)
      BY <1>1
    <2>2. /\ SubSeq(SubSeq(n, 1, k), 1, j) \in Seq(Nat)
          /\ SubSeq(n, 1, j) \in Seq(Nat)
      BY <1>1, <1>2, <1>3, <2>1
    <2>3. /\ Len(SubSeq(SubSeq(n, 1, k), 1, j)) = j
          /\ Len(SubSeq(n, 1, j)) = j
      BY <1>1, <1>2, <1>3, <2>1
    <2>4. \A i \in 1..j : SubSeq(SubSeq(n, 1, k), 1, j)[i] = SubSeq(n, 1, j)[i]
      BY <1>1, <1>2, <1>3, <2>1
    <2> QED
      BY <2>2, <2>3, <2>4
  <1>5. Upward(SubSeq(n, 1, k)) = {SubSeq(n, 1, j) : j \in 1..k}
    BY <1>3, <1>4 DEF Upward
  <1>6. SubSeq(n, 1, k) \in Upward(n)
    BY DEF Upward
  <1> QED
    BY <1>2, <1>3, <1>5, <1>6

\* The next node of a path is a child.
LEMMA NextIsChild ==
    ASSUME NEW n \in Nodes, NEW k \in 1..(Len(n) - 1)
    PROVE  SubSeq(n, 1, k + 1) \in Children(SubSeq(n, 1, k))
  <1>1. n \in Seq(Nat) /\ n[k + 1] \in 1..Fan /\ k + 1 \in 1..Len(n) /\ k \in 1..Len(n)
    BY NodeIsPath
  <1>2. SubSeq(n, 1, k + 1) = Append(SubSeq(n, 1, k), n[k + 1])
    BY <1>1
  <1> QED
    BY <1>1, <1>2 DEF Children

\* A node is above itself.
LEMMA UpwardOfNode ==
    ASSUME NEW n \in Nodes
    PROVE  /\ n \in Upward(n)
           /\ \A a \in Upward(n) : a \in Seq(Nat) /\ Len(a) \in 1..Len(n)
           /\ \A a \in Upward(n) : Len(a) = Len(n) => a = n
           /\ \A a \in Upward(n) : a = SubSeq(n, 1, Len(a))
  <1>1. n \in Seq(Nat) /\ Len(n) \in Nat /\ Len(n) >= 1
    BY NodeIsPath, PlanetStreamerAssumption
  <1>2. SubSeq(n, 1, Len(n)) = n
    BY <1>1
  <1>3. n \in Upward(n)
    <2>1. Len(n) \in 1..Len(n)
      BY <1>1
    <2> QED
      BY <1>1, <1>2, <2>1, Ancestors
  <1>4. ASSUME NEW a \in Upward(n)
        PROVE  a \in Seq(Nat) /\ Len(a) \in 1..Len(n) /\ a = SubSeq(n, 1, Len(a))
    <2>1. PICK k \in 1..Len(n) : a = SubSeq(n, 1, k)
      BY DEF Upward
    <2> QED
      BY <1>1, <2>1, Ancestors
  <1> QED
    BY <1>2, <1>3, <1>4
-----------------------------------------------------------------------------
(* PlanetStreamer: what is drawn *)

LEMMA StreamerInitTypes == StreamerInit => StreamerTypeOK
  <1> SUFFICES ASSUME StreamerInit PROVE StreamerTypeOK
    OBVIOUS
  <1>1. 0 \in 0..(EvictAfter + 1)
    BY PlanetStreamerAssumption
  <1> QED
    BY <1>1 DEF StreamerInit, StreamerTypeOK

\* What an update selects is in the frustum, and what it draws was selected.
LEMMA SelectionIsInSight ==
    ASSUME NEW v \in Cameras
    PROVE  Visible(v) \subseteq v.sees /\ v.sees \subseteq Nodes /\ IsFiniteSet(v.sees)
  BY PlanetStreamerAssumption DEF Visible, Reached

LEMMA UpdateIsOfSelection ==
    ASSUME NEW v \in Cameras, Update(v)
    PROVE  \E generated :
              /\ drawn' \subseteq Visible(v) \cap (Loaded \cup generated)
              /\ drawn' \in Upto(MaxVisible, Visible(v) \cap (Loaded \cup generated))
              /\ generated \subseteq Needed(v) \ Loaded
              /\ \A n \in Nodes :
                    state'[n] = IF n \in {m \in Loaded : AgedUnless(Visible(v))[m] > EvictAfter} \ drawn'
                                THEN "Empty"
                                ELSE IF n \in Loaded \cup generated THEN "Resident"
                                ELSE IF n \in Needed(v) THEN "Requested" ELSE state[n]
  <1>1. \A k, s : \A t \in Upto(k, s) : t \subseteq s
    BY DEF Upto
  <1>2. PICK generated \in Upto(Budget, Needed(v) \ Loaded) :
            /\ drawn' \in Upto(MaxVisible, Visible(v) \cap (Loaded \cup generated))
            /\ \A n \in Nodes :
                    state'[n] = IF n \in {m \in Loaded : AgedUnless(Visible(v))[m] > EvictAfter} \ drawn'
                                THEN "Empty"
                                ELSE IF n \in Loaded \cup generated THEN "Resident"
                                ELSE IF n \in Needed(v) THEN "Requested" ELSE state[n]
    BY DEF Update
  <1> QED
    BY <1>1, <1>2

LEMMA StreamerNextTypes == StreamerTypeOK /\ [StreamerNext]_streamer_vars => StreamerTypeOK'
  <1> SUFFICES ASSUME StreamerTypeOK, [StreamerNext]_streamer_vars PROVE StreamerTypeOK'
    OBVIOUS
  <1> USE DEF StreamerTypeOK
  <1>1. EvictAfter \in Nat
    BY PlanetStreamerAssumption
  <1>2. ASSUME NEW v \in Cameras, Update(v) PROVE StreamerTypeOK'
    <2>1. planet' \in {1, 2} /\ camera' \in Cameras
      BY <1>2 DEF Update
    <2>2. drawn' \subseteq Nodes
      BY <1>2, UpdateIsOfSelection, SelectionIsInSight
    <2>3. \A n \in Nodes : Aged(unused[n]) \in 0..(EvictAfter + 1)
      BY <1>1 DEF Aged
    <2>4. unused' = AgedUnless(Visible(v))
      BY <1>2 DEF Update
    <2>5. unused' \in [Nodes -> 0..EvictAfter + 1]
      BY <1>1, <2>3, <2>4 DEF AgedUnless
    <2>6. state' \in [Nodes -> {"Empty", "Requested", "Resident"}]
      BY <1>2 DEF Update
    <2> QED
      BY <2>1, <2>2, <2>5, <2>6
  <1>3. ASSUME NEW v \in Cameras, ChangePlanet(v) PROVE StreamerTypeOK'
    <2>1. 0 \in 0..(EvictAfter + 1) /\ 3 - 1 = 2 /\ 3 - 2 = 1
      BY <1>1
    <2> QED
      BY <1>3, <2>1 DEF ChangePlanet
  <1>4. CASE UNCHANGED streamer_vars
    BY <1>4 DEF streamer_vars
  <1> QED
    BY <1>2, <1>3, <1>4 DEF StreamerNext

\* Of two nodes that select_node chooses, none is above the other: it goes on to the
\* children of one or ends there.
LEMMA SelectedOnce ==
    ASSUME NEW v \in Cameras, NEW a \in Visible(v), NEW b \in Visible(v), a \in Upward(b)
    PROVE  a = b
  <1>1. b \in Reached(v) /\ ~(WantsFiner(v, a) /\ ChildrenReady(a))
    BY DEF Visible
  <1> QED
    BY <1>1 DEF Reached

LEMMA UpdateDrawsOnce ==
    ASSUME StreamerTypeOK, NEW v \in Cameras, Update(v)
    PROVE  DrawnOnce'
  <1>1. PICK generated :
              /\ drawn' \subseteq Visible(v) \cap (Loaded \cup generated)
              /\ \A n \in Nodes :
                    state'[n] = IF n \in {m \in Loaded : AgedUnless(Visible(v))[m] > EvictAfter} \ drawn'
                                THEN "Empty"
                                ELSE IF n \in Loaded \cup generated THEN "Resident"
                                ELSE IF n \in Needed(v) THEN "Requested" ELSE state[n]
    BY UpdateIsOfSelection
  <1>2. drawn' \subseteq Nodes
    BY <1>1, SelectionIsInSight
  <1>3. drawn' \subseteq Loaded'
    BY <1>1, <1>2 DEF Loaded
  <1>4. ASSUME NEW n \in drawn' PROVE Upward(n) \cap drawn' = {n}
    BY <1>1, <1>2, SelectedOnce, UpwardOfNode
  <1> QED
    BY <1>3, <1>4 DEF DrawnOnce

THEOREM PlanetIsDrawnOnce == StreamerSpec => [](StreamerTypeOK /\ DrawnOnce)
  <1>1. StreamerInit => StreamerTypeOK /\ DrawnOnce
    BY StreamerInitTypes DEF StreamerInit, DrawnOnce
  <1>2. ASSUME StreamerTypeOK, DrawnOnce, [StreamerNext]_streamer_vars
        PROVE  StreamerTypeOK' /\ DrawnOnce'
    <2>1. StreamerTypeOK'
      BY <1>2, StreamerNextTypes
    <2>2. ASSUME NEW v \in Cameras, ChangePlanet(v) PROVE DrawnOnce'
      BY <2>2 DEF ChangePlanet, DrawnOnce
    <2>3. ASSUME UNCHANGED streamer_vars PROVE DrawnOnce'
      <3>1. drawn' = drawn /\ Loaded' = Loaded
        BY <2>3 DEF streamer_vars, Loaded
      <3> QED
        BY <1>2, <3>1 DEF DrawnOnce
    <2>4. DrawnOnce'
      BY <1>2, <2>2, <2>3, UpdateDrawsOnce DEF StreamerNext
    <2> QED
      BY <2>1, <2>4
  <1> QED
    BY <1>1, <1>2, PTL DEF StreamerSpec
-----------------------------------------------------------------------------
(* PlanetStreamer: above each part in sight a node is selected that can be drawn *)

\* select_node follows a part of the planet in sight down to the first node that is not
\* refined.
LEMMA SomeNodeIsSelected ==
    ASSUME NEW v \in Cameras, NEW l \in InSight(v)
    PROVE  \E n \in Upward(l) :
              /\ n \in Visible(v)
              /\ n = SubSeq(l, 1, 1) \/ n \in Loaded
  <1>1. l \in Nodes /\ IsLeaf(l) /\ Upward(l) \subseteq v.sees
    BY DEF InSight
  <1>2. l \in Seq(Nat) /\ Len(l) \in Nat /\ Len(l) >= 1
    BY <1>1, NodeIsPath, PlanetStreamerAssumption
  <1> DEFINE At(k) == SubSeq(l, 1, k)
             Ends == {k \in 1..Len(l) : ~(WantsFiner(v, At(k)) /\ ChildrenReady(At(k)))}
  <1>3. \A k \in 1..Len(l) : At(k) \in v.sees /\ At(k) \in Nodes /\ At(k) \in Upward(l)
    BY <1>1, <1>2, Ancestors, SelectionIsInSight
  <1>4. Len(l) \in Ends
    <2>1. At(Len(l)) = l
      BY <1>2
    <2>2. ~WantsFiner(v, At(Len(l)))
      BY <1>1, <2>1 DEF WantsFiner
    <2>3. Len(l) \in 1..Len(l)
      BY <1>2
    <2> QED
      BY <2>2, <2>3
  <1>5. PICK k \in Ends : \A j \in Ends : k <= j
    <2>1. Ends \subseteq Nat /\ Ends # {}
      BY <1>2, <1>4
    <2> QED
      BY <2>1, LeastNatural
  <1>6. k \in 1..Len(l) /\ k \in Nat /\ Len(l) \in Nat
    BY <1>2
  <1>7. \A j \in 1..Len(l) : j < k => WantsFiner(v, At(j)) /\ ChildrenReady(At(j))
    BY <1>5, <1>6
  <1>8. ASSUME NEW a \in Upward(At(k)) \ {At(k)}
        PROVE  a \in v.sees /\ WantsFiner(v, a) /\ ChildrenReady(a)
    <2>1. PICK j \in 1..k : a = At(j)
      BY <1>2, <1>6, <1>8, Ancestors
    <2>2. j \in 1..Len(l) /\ j < k
      BY <1>6, <1>8, <2>1
    <2> QED
      BY <1>3, <1>7, <2>1, <2>2
  <1>9. At(k) \in Visible(v)
    BY <1>3, <1>5, <1>6, <1>8 DEF Visible, Reached
  <1>10. CASE k = 1
    BY <1>3, <1>6, <1>9, <1>10
  <1>11. CASE k # 1
    <2>1. k - 1 \in 1..(Len(l) - 1) /\ (k - 1) + 1 = k /\ k - 1 \in 1..Len(l) /\ k - 1 < k
      BY <1>6, <1>11
    <2>2. At(k) \in Children(At(k - 1))
      BY <1>1, <2>1, NextIsChild
    <2>3. ChildrenReady(At(k - 1))
      BY <1>7, <2>1
    <2>4. At(k) \in Loaded
      BY <1>3, <1>6, <2>2, <2>3 DEF ChildrenReady, Loaded
    <2> QED
      BY <1>3, <1>6, <1>9, <2>4
  <1> QED
    BY <1>10, <1>11

\* The number of nodes that may be drawn does not cut the selection.
LEMMA AllSelectedAreDrawn ==
    ASSUME NEW s, IsFiniteSet(s), NEW t \in SUBSET s, Cardinality(s) <= MaxVisible,
           NEW drawing \in Upto(MaxVisible, t)
    PROVE  drawing = t
  <1>1. IsFiniteSet(t) /\ Cardinality(t) <= Cardinality(s)
    BY FS_Subset
  <1>2. Cardinality(t) \in Nat /\ Cardinality(s) \in Nat /\ MaxVisible \in Nat
    BY <1>1, FS_CardinalityType, PlanetStreamerAssumption
  <1>3. Cardinality(t) <= MaxVisible
    BY <1>1, <1>2
  <1> QED
    BY <1>3 DEF Upto

LEMMA UpdateCoversSight ==
    ASSUME StreamerTypeOK, NEW v \in Cameras, Update(v), Cardinality(Visible(v)) <= MaxVisible,
           NEW l \in InSight(v), SubSeq(l, 1, 1) \in Loaded \cup Loaded'
    PROVE  Upward(l) \cap drawn' # {}
  <1>1. PICK generated :
              /\ drawn' \in Upto(MaxVisible, Visible(v) \cap (Loaded \cup generated))
              /\ \A n \in Nodes :
                    state'[n] = IF n \in {m \in Loaded : AgedUnless(Visible(v))[m] > EvictAfter} \ drawn'
                                THEN "Empty"
                                ELSE IF n \in Loaded \cup generated THEN "Resident"
                                ELSE IF n \in Needed(v) THEN "Requested" ELSE state[n]
    BY UpdateIsOfSelection
  <1>2. IsFiniteSet(Visible(v))
    BY SelectionIsInSight, FS_Subset
  <1>3. drawn' = Visible(v) \cap (Loaded \cup generated)
    BY <1>1, <1>2, AllSelectedAreDrawn
  <1>4. Loaded' \subseteq Loaded \cup generated
    BY <1>1 DEF Loaded
  <1>5. PICK n \in Upward(l) : n \in Visible(v) /\ (n = SubSeq(l, 1, 1) \/ n \in Loaded)
    BY SomeNodeIsSelected
  <1>6. n \in Loaded \cup generated
    BY <1>4, <1>5
  <1> QED
    BY <1>3, <1>5, <1>6

\* Theorem: however finely the planet is divided and whatever the budgets, a part of it
\* in sight is drawn, by one node, after every update that found its root loaded and
\* room for the selection.  About PlanetLODSelector::select_node and
\* PlanetStreamer::update.
THEOREM NoHoleEverOpens == StreamerSpec => NoHoleOpens
  <1>1. ASSUME StreamerTypeOK, [StreamerNext]_streamer_vars
        PROVE  [planet' = planet /\ Cardinality(Visible(camera')) <= MaxVisible =>
                   \A l \in InSight(camera') :
                      SubSeq(l, 1, 1) \in Loaded \cup Loaded' => Over(l)' # {}]_streamer_vars
    <2> SUFFICES ASSUME StreamerNext, planet' = planet, Cardinality(Visible(camera')) <= MaxVisible,
                        NEW l \in InSight(camera'), SubSeq(l, 1, 1) \in Loaded \cup Loaded'
                 PROVE  Over(l)' # {}
      BY <1>1
    <2>1. ~\E v \in Cameras : ChangePlanet(v)
      BY <1>1 DEF ChangePlanet, StreamerTypeOK
    <2>2. PICK v \in Cameras : Update(v)
      BY <2>1 DEF StreamerNext
    <2>3. camera' = v
      BY <2>2 DEF Update
    <2>4. Upward(l) \cap drawn' # {}
      BY <1>1, <2>2, <2>3, UpdateCoversSight
    <2> QED
      BY <2>4 DEF Over
  <1>2. StreamerSpec => SightIsCovered
    BY <1>1, PlanetIsDrawnOnce, PTL DEF StreamerSpec, SightIsCovered
  <1> QED
    BY <1>2, PlanetIsDrawnOnce, PTL DEF NoHoleOpens

-----------------------------------------------------------------------------
(* ChunkMesh *)

\* A chunk between its surroundings: all that SurfaceIsClosed needs of a state
ChunkInv ==
    /\ solid \in SUBSET Cells
    /\ ground \in [Flanks -> 0..ChunkSize]
    /\ ends \in [Caps -> {"solid", "air", "none"}]

\* Where the steps lead, one by one
LEMMA StepLeadsTo ==
    ASSUME NEW x, NEW y, NEW z
    PROVE  /\ Step(<<x, y, z>>, "Left") = <<x - 1, y, z>>
           /\ Step(<<x, y, z>>, "Right") = <<x + 1, y, z>>
           /\ Step(<<x, y, z>>, "Down") = <<x, y - 1, z>>
           /\ Step(<<x, y, z>>, "Up") = <<x, y + 1, z>>
           /\ Step(<<x, y, z>>, "Back") = <<x, y, z - 1>>
           /\ Step(<<x, y, z>>, "Front") = <<x, y, z + 1>>
  BY DEF Step

\* The highest block of a column is one, and none is higher.
LEMMA TopIsHighest ==
    ASSUME NEW T, T \subseteq Axis
    PROVE  LET top == Max({-1} \cup T)
           IN  /\ top \in {-1} \cup T
               /\ \A y \in T : top >= y
  <1> DEFINE S == {-1} \cup T
             D == {ChunkSize - y : y \in S}
  <1>1. S \subseteq Int /\ \A y \in S : y < ChunkSize
    BY ChunkMeshAssumption DEF Axis
  <1>2. D \subseteq Nat /\ D # {}
    BY <1>1, ChunkMeshAssumption
  <1>3. PICK n \in D : \A m \in D : n <= m
    BY <1>2, LeastNatural
  <1>4. PICK x \in S : n = ChunkSize - x
    BY <1>3
  <1>5. \A y \in S : x >= y
    <2> TAKE y \in S
    <2>1. ChunkSize - x <= ChunkSize - y
      BY <1>3, <1>4
    <2> QED
      BY <2>1, <1>1, ChunkMeshAssumption
  <1>6. Max(S) \in S /\ \A y \in S : Max(S) >= y
    BY <1>5 DEF Max
  <1> QED
    BY <1>6

\* Under a block there are blocks as far as the chunk goes, so over a gap there is a gap.
LEMMA GapsGoUp ==
    ASSUME ChunkInv, HeightField, NEW x \in Axis, NEW z \in Axis, NEW y \in Axis, NEW w \in Axis,
           <<x, y, z>> \notin solid, y <= w
    PROVE  <<x, w, z>> \notin solid
  <1> DEFINE T == {n \in Nat : y + n < ChunkSize /\ <<x, y + n, z>> \in solid}
  <1>1. SUFFICES ASSUME T # {} PROVE FALSE
    <2>1. w - y \in Nat /\ y + (w - y) = w /\ w < ChunkSize
      BY ChunkMeshAssumption DEF Axis
    <2> QED
      BY <2>1, <1>1
  <1>2. PICK n \in T : \A m \in T : n <= m
    BY <1>1, LeastNatural
  <1>3. n # 0 /\ n \in Nat /\ y \in Int /\ y >= 0 /\ y + n < ChunkSize
    BY <1>2 DEF Axis
  <1>4. Step(<<x, y + n, z>>, "Down") = <<x, (y + n) - 1, z>>
    BY StepLeadsTo
  <1>5. (y + n) - 1 = y + (n - 1) /\ (y + n) - 1 \in Axis /\ n - 1 \in Nat
    BY <1>3, ChunkMeshAssumption DEF Axis
  <1>6. <<x, (y + n) - 1, z>> \in Cells
    BY <1>5 DEF Cells
  <1>7. <<x, (y + n) - 1, z>> \in solid
    BY <1>2, <1>4, <1>6 DEF HeightField
  <1>8. n - 1 \in T
    BY <1>3, <1>5, <1>7, ChunkMeshAssumption DEF Axis
  <1> QED
    BY <1>2, <1>3, <1>8

\* Natural ground is not seen from below.
LEMMA NothingSeenFromBelow ==
    ASSUME ChunkInv, HeightField, NEW c \in Cells
    PROVE  ~Seen(c, "Down")
  <1> SUFFICES ASSUME Seen(c, "Down") PROVE FALSE
    OBVIOUS
  <1>1. c \in solid /\ ~NeighborSolid(c, "Down")
    BY DEF Seen, Exposed
  <1>2. CASE Step(c, "Down") \in Cells
    BY <1>1, <1>2 DEF HeightField, NeighborSolid
  <1>3. CASE Step(c, "Down") \notin Cells
    <2>1. ends["Down"] # "solid"
      BY <1>1, <1>3 DEF NeighborSolid, Flanks, Caps
    <2>2. ends["Down"] # "none"
      BY <1>3 DEF Seen
    <2> QED
      BY <1>1, <2>1, <2>2 DEF HeightField, ChunkInv, Caps
  <1> QED
    BY <1>2, <1>3

\* A gap beside a block is beside every block above it in its column: natural ground
\* that shows to one side shows there all the way up.
LEMMA SidesGoUp ==
    ASSUME ChunkInv, HeightField, NEW x \in Axis, NEW z \in Axis, NEW y \in Axis, NEW w \in Axis,
           NEW d \in Flanks, Exposed(<<x, y, z>>, d), <<x, w, z>> \in solid, y <= w
    PROVE  Exposed(<<x, w, z>>, d)
  <1> DEFINE dx == IF d = "Left" THEN x - 1 ELSE IF d = "Right" THEN x + 1 ELSE x
             dz == IF d = "Back" THEN z - 1 ELSE IF d = "Front" THEN z + 1 ELSE z
  <1>1. Step(<<x, y, z>>, d) = <<dx, y, dz>> /\ Step(<<x, w, z>>, d) = <<dx, w, dz>>
    <2>1. CASE d = "Left"
      BY <2>1, StepLeadsTo
    <2>2. CASE d = "Right"
      BY <2>2, StepLeadsTo
    <2>3. CASE d = "Back"
      BY <2>3, StepLeadsTo
    <2>4. CASE d = "Front"
      BY <2>4, StepLeadsTo
    <2> QED
      BY <2>1, <2>2, <2>3, <2>4 DEF Flanks
  <1> HIDE DEF dx, dz
  <1>2. (<<dx, y, dz>> \in Cells <=> dx \in Axis /\ dz \in Axis)
          /\ (<<dx, w, dz>> \in Cells <=> dx \in Axis /\ dz \in Axis)
    BY DEF Cells
  <1>3. CASE dx \in Axis /\ dz \in Axis
    <2>1. <<dx, y, dz>> \notin solid
      BY <1>1, <1>2, <1>3 DEF Exposed, NeighborSolid
    <2>2. <<dx, w, dz>> \notin solid
      BY <2>1, <1>3, GapsGoUp
    <2> QED
      BY <2>2, <1>1, <1>2, <1>3 DEF Exposed, NeighborSolid
  <1>4. CASE ~(dx \in Axis /\ dz \in Axis)
    <2>1. NeighborSolid(<<x, y, z>>, d) <=> y < ground[d]
      BY <1>1, <1>2, <1>4 DEF NeighborSolid, Flanks, Caps
    <2>2. NeighborSolid(<<x, w, z>>, d) <=> w < ground[d]
      BY <1>1, <1>2, <1>4 DEF NeighborSolid, Flanks, Caps
    <2>3. y \in Int /\ w \in Int /\ ground[d] \in Int
      BY ChunkMeshAssumption DEF ChunkInv, Axis
    <2>4. ~(y < ground[d])
      BY <2>1 DEF Exposed
    <2>5. ~(w < ground[d])
      BY <2>3, <2>4
    <2> QED
      BY <2>2, <2>5 DEF Exposed
  <1> QED
    BY <1>3, <1>4

\* So the walk down a column comes to every block that shows to a side.
LEMMA SidesAreDrawn ==
    ASSUME ChunkInv, HeightField, NEW x \in Axis, NEW z \in Axis, NEW y \in Axis,
           NEW d \in Flanks, Exposed(<<x, y, z>>, d)
    PROVE  << <<x, y, z>>, d >> \in ColumnFaces(x, z)
  <1> DEFINE T == {b \in Axis : <<x, b, z>> \in solid}
             top == Max({-1} \cup T)
  <1>1. y \in T
    BY DEF Exposed
  <1>2. T \subseteq Axis
    OBVIOUS
  <1>3. top \in {-1} \cup T /\ \A b \in T : top >= b
    BY <1>2, TopIsHighest
  <1> HIDE DEF top
  <1>4. top \in T
    BY <1>1, <1>3, ChunkMeshAssumption DEF Axis
  <1>5. \A w \in y..top : w \in Axis /\ <<x, w, z>> \in solid
    <2> TAKE w \in y..top
    <2>1. w \in Axis /\ top \in Axis /\ w <= top
      BY <1>4, ChunkMeshAssumption DEF Axis
    <2>2. <<x, w, z>> \in solid
      BY <2>1, <1>4, GapsGoUp
    <2> QED
      BY <2>1, <2>2
  <1>6. \A w \in y..top : <<x, w, z>> \in solid /\ OtherFaces(<<x, w, z>>) # {}
    <2> TAKE w \in y..top
    <2>1. y <= w
      BY ChunkMeshAssumption DEF Axis
    <2>2. Exposed(<<x, w, z>>, d)
      BY <1>5, <2>1, SidesGoUp
    <2>3. d \in Dirs \ {"Up"}
      BY DEF Dirs, Flanks
    <2> QED
      BY <1>5, <2>2, <2>3 DEF OtherFaces
  <1>7. y \in 0..top
    BY <1>1, <1>3, <1>4, ChunkMeshAssumption DEF Axis
  <1>8. << <<x, y, z>>, d >> \in OtherFaces(<<x, y, z>>)
    BY DEF OtherFaces, Dirs, Flanks
  <1>9. << <<x, y, z>>, d >> \in FacesDownFrom(x, top, z)
    BY <1>6, <1>7, <1>8 DEF FacesDownFrom
  <1> QED
    BY <1>9 DEF ColumnFaces, top

LEMMA ChunkInvSuffices == ChunkInv => SurfaceIsClosed
  <1> SUFFICES ASSUME ChunkInv, HeightField, NEW face \in VisibleFaces PROVE face \in ChunkFaces
    BY DEF SurfaceIsClosed
  <1>1. PICK c \in Cells, d \in Dirs : face = <<c, d>> /\ Seen(c, d)
    BY DEF VisibleFaces
  <1>2. Exposed(c, d) /\ d # "Down"
    BY <1>1, NothingSeenFromBelow DEF Seen
  <1>3. CASE d = "Up"
    BY <1>1, <1>2, <1>3 DEF ChunkFaces, UpFaces
  <1>4. CASE d # "Up"
    <2>1. d \in Flanks
      BY <1>2, <1>4 DEF Dirs, Caps
    <2>2. PICK x \in Axis, y \in Axis, z \in Axis : c = <<x, y, z>>
      BY <1>1 DEF Cells
    <2>3. face \in ColumnFaces(x, z)
      BY <1>1, <1>2, <2>1, <2>2, SidesAreDrawn
    <2>4. <<x, z>> \in CellColumns
      BY <2>2 DEF CellColumns
    <2> QED
      BY <2>3, <2>4 DEF ChunkFaces
  <1> QED
    BY <1>3, <1>4

\* Theorem: however large the chunks, whatever ground was generated in one and whatever was
\* dug and built there since, as long as no block hangs over air its mesh has every face that can be seen.
THEOREM SurfaceStaysClosed == MeshSpec => []SurfaceIsClosed
  <1>1. MeshInit => ChunkInv
    BY DEF MeshInit, ChunkInv
  <1>2. ChunkInv /\ [MeshNext]_mesh_vars => ChunkInv'
    <2> SUFFICES ASSUME ChunkInv, [MeshNext]_mesh_vars PROVE ChunkInv'
      OBVIOUS
    <2>1. ASSUME NEW c \in Cells, BreakBlock(c) PROVE ChunkInv'
      BY <2>1 DEF BreakBlock, Edit, ChunkInv
    <2>2. ASSUME NEW c \in Cells, PlaceBlock(c) PROVE ChunkInv'
      BY <2>2 DEF PlaceBlock, Edit, ChunkInv
    <2>3. CASE UNCHANGED mesh_vars
      BY <2>3 DEF mesh_vars, ChunkInv
    <2> QED
      BY <2>1, <2>2, <2>3 DEF MeshNext
  <1> QED
    BY <1>1, <1>2, ChunkInvSuffices, PTL DEF MeshSpec

-----------------------------------------------------------------------------
(* GlobeDetail *)

LEMMA FirstFiner ==
    ASSUME NEW S \in SUBSET Finesses, 64 \in S
    PROVE  LET g == CHOOSE x \in S : \A h \in S : x <= h
           IN  g \in S /\ \A h \in S : g <= h
  <1>1. \E x \in S : \A h \in S : x <= h
    <2>1. CASE 8 \in S
      BY <2>1 DEF Finesses
    <2>2. CASE 8 \notin S /\ 16 \in S
      BY <2>2 DEF Finesses
    <2>3. CASE 8 \notin S /\ 16 \notin S /\ 32 \in S
      BY <2>3 DEF Finesses
    <2>4. CASE 8 \notin S /\ 16 \notin S /\ 32 \notin S
      BY <2>4 DEF Finesses
    <2> QED
      BY <2>1, <2>2, <2>3, <2>4
  <1> QED
    BY <1>1

LEMMA FirstCoarser ==
    ASSUME NEW S \in SUBSET Finesses, 8 \in S
    PROVE  LET g == CHOOSE x \in S : \A h \in S : x >= h
           IN  g \in S /\ \A h \in S : g >= h
  <1>1. \E x \in S : \A h \in S : x >= h
    <2>1. CASE 64 \in S
      BY <2>1 DEF Finesses
    <2>2. CASE 64 \notin S /\ 32 \in S
      BY <2>2 DEF Finesses
    <2>3. CASE 64 \notin S /\ 32 \notin S /\ 16 \in S
      BY <2>3 DEF Finesses
    <2>4. CASE 64 \notin S /\ 32 \notin S /\ 16 \notin S
      BY <2>4 DEF Finesses
    <2> QED
      BY <2>1, <2>2, <2>3, <2>4
  <1> QED
    BY <1>1

From(previous) == IF previous \in Finesses THEN previous ELSE 8

LEMMA RefinedIs ==
    ASSUME NEW d \in Nat, NEW previous
    PROVE  LET r == Refined(d, previous)
               k == RefineAbove(previous)
           IN  /\ r \in Finesses /\ r >= From(previous)
               /\ r = 64 \/ d <= k * r
               /\ \A h \in Finesses : From(previous) <= h /\ h < r => d > k * h
  <1> DEFINE k == RefineAbove(previous)
             S == {g \in Finesses : g >= From(previous) /\ ~(g < 64 /\ d > k * g)}
             r == CHOOSE x \in S : \A h \in S : x <= h
  <1>1. From(previous) \in Finesses /\ k \in {12, 15}
    BY DEF From, Finesses, RefineAbove
  <1>2. Refined(d, previous) = r
    BY DEF Refined, From
  <1> HIDE DEF k
  <1>3. S \in SUBSET Finesses /\ 64 \in S
    BY <1>1 DEF Finesses
  <1>4. r \in S /\ \A h \in S : r <= h
    <2> HIDE DEF S
    <2> QED
      BY <1>3, FirstFiner
  <1> HIDE DEF r
  <1>5. r \in Finesses /\ r >= From(previous) /\ ~(r < 64 /\ d > k * r)
    BY <1>4
  <1>6. r = 64 \/ d <= k * r
    BY <1>1, <1>5 DEF Finesses
  <1>7. ASSUME NEW h \in Finesses, From(previous) <= h, h < r PROVE d > k * h
    <2>1. h \notin S
      BY <1>4, <1>5, <1>7 DEF Finesses
    <2> QED
      BY <1>1, <1>7, <2>1 DEF Finesses
  <1> QED
    BY <1>2, <1>5, <1>6, <1>7 DEF k

LEMMA CoarsenedIs ==
    ASSUME NEW d \in Nat, NEW from \in Finesses
    PROVE  LET c == Coarsened(d, from)
           IN  /\ c \in Finesses /\ c <= from /\ ~TooFine(d, c)
               /\ \A h \in Finesses : c < h /\ h <= from => TooFine(d, h)
  <1> DEFINE S == {g \in Finesses : g <= from /\ ~TooFine(d, g)}
             c == CHOOSE x \in S : \A h \in S : x >= h
  <1>1. Coarsened(d, from) = c
    BY DEF Coarsened
  <1>2. S \in SUBSET Finesses /\ 8 \in S
    BY DEF Finesses, TooFine
  <1>3. c \in S /\ \A h \in S : c >= h
    <2> HIDE DEF S
    <2> QED
      BY <1>2, FirstCoarser
  <1> HIDE DEF c
  <1>4. c \in Finesses /\ c <= from /\ ~TooFine(d, c)
    BY <1>3
  <1>5. ASSUME NEW h \in Finesses, c < h, h <= from PROVE TooFine(d, h)
    BY <1>3, <1>4, <1>5 DEF Finesses
  <1> QED
    BY <1>1, <1>4, <1>5

\* Half of the cells are those of the next coarser grid, so that a grid is too fine below
\* 4.8 pixels for each of its own.
LEMMA TooFineBelow ==
    ASSUME NEW d \in Nat, NEW g \in Finesses
    PROVE  TooFine(d, g) <=> g > 8 /\ 5 * d < 24 * g
  <1>1. 16 \div 2 = 8 /\ 32 \div 2 = 16 /\ 64 \div 2 = 32
    OBVIOUS
  <1> QED
    BY <1>1 DEF TooFine, Finesses

\* What a frame makes of a grid: it refines only what has 7.5 pixels for each cell of the
\* finer grid, and coarsens only what has less than 4.8 for each cell of the finer one.
LEMMA GridAfter ==
    ASSUME NEW d \in Nat, NEW g \in Finesses
    PROVE  LET new == Subdivisions(d, g)
           IN  /\ new \in Finesses
               /\ new = 64 \/ d <= 15 * new
               /\ new = 8 \/ 5 * d >= 24 * new
               /\ new > g => 2 * d > 15 * new /\ d > 15 * g
               /\ new < g => 5 * d < 48 * new /\ 5 * d < 24 * g
  <1> DEFINE r == Refined(d, g)
             new == Coarsened(d, r)
  <1>1. /\ r \in Finesses /\ r >= g /\ (r = 64 \/ d <= 15 * r)
        /\ \A h \in Finesses : g <= h /\ h < r => d > 15 * h
    BY RefinedIs DEF From, RefineAbove
  <1> HIDE DEF r
  <1>2. /\ new \in Finesses /\ new <= r /\ ~TooFine(d, new)
        /\ \A h \in Finesses : new < h /\ h <= r => TooFine(d, h)
    BY <1>1, CoarsenedIs
  <1> HIDE DEF new
  <1>3. new = 8 \/ 5 * d >= 24 * new
    BY <1>2, TooFineBelow DEF Finesses
  <1>4. \A h \in Finesses : new < h /\ h <= r => 5 * d < 24 * h
    BY <1>2, TooFineBelow
  <1>5. r > g => d > 15 * g /\ 2 * d > 15 * r
    BY <1>1 DEF Finesses
  <1>6. r > g => new = r
    <2> SUFFICES ASSUME r > g, new # r PROVE FALSE
      OBVIOUS
    <2>1. 5 * d < 24 * r
      BY <1>1, <1>2, <1>4 DEF Finesses
    <2> QED
      BY <1>1, <1>5, <2>1 DEF Finesses
  <1>7. new < g => r = g /\ 5 * d < 24 * g /\ 5 * d < 48 * new
    BY <1>1, <1>2, <1>4, <1>6 DEF Finesses
  <1>8. new = 64 \/ d <= 15 * new
    BY <1>1, <1>2, <1>4 DEF Finesses
  <1>9. Subdivisions(d, g) = new
    BY DEF Subdivisions, new, r
  <1> QED
    BY <1>1, <1>2, <1>3, <1>5, <1>6, <1>7, <1>8, <1>9 DEF Finesses

\* The first grid of a body
LEMMA FirstGrid ==
    ASSUME NEW d \in Nat
    PROVE  LET new == Subdivisions(d, 0) IN new \in Finesses /\ (new = 8 \/ d > 6 * new)
  <1> DEFINE r == Refined(d, 0)
             new == Coarsened(d, r)
  <1>1. /\ r \in Finesses
        /\ \A h \in Finesses : 8 <= h /\ h < r => d > 12 * h
    BY RefinedIs DEF From, RefineAbove, Finesses
  <1> HIDE DEF r
  <1>2. /\ new \in Finesses /\ new <= r
        /\ \A h \in Finesses : new < h /\ h <= r => TooFine(d, h)
    BY <1>1, CoarsenedIs
  <1> HIDE DEF new
  <1>3. r = 8 \/ d > 6 * r
    BY <1>1 DEF Finesses
  <1>4. new = r \/ 5 * d < 24 * r
    BY <1>1, <1>2, TooFineBelow DEF Finesses
  <1>5. new = r
    BY <1>1, <1>2, <1>3, <1>4 DEF Finesses
  <1>6. Subdivisions(d, 0) = new
    BY DEF Subdivisions, new, r
  <1> QED
    BY <1>1, <1>3, <1>5, <1>6

\* A grid that fits stays.
LEMMA GridStays ==
    ASSUME NEW d \in Nat, NEW g \in Finesses,
           g = 64 \/ d <= 15 * g, g = 8 \/ 5 * d >= 24 * g
    PROVE  Subdivisions(d, g) = g
  <1> DEFINE new == Subdivisions(d, g)
  <1>1. /\ new \in Finesses
        /\ new > g => d > 15 * g
        /\ new < g => 5 * d < 24 * g
    BY GridAfter
  <1> HIDE DEF new
  <1>2. ~(new > g) /\ ~(new < g)
    BY <1>1 DEF Finesses
  <1> QED
    BY <1>1, <1>2 DEF Finesses, new

\* How far off the body was when its grid was last changed
GlobeInv ==
    /\ subdivisions \in {0} \cup Finesses
    /\ turned \in [at : Nat, way : {"none", "first", "finer", "coarser"}]
    /\ turned.way = "finer" => 2 * turned.at > 15 * subdivisions
    /\ turned.way = "first" => subdivisions = 8 \/ turned.at > 6 * subdivisions
    /\ turned.way = "coarser" => 5 * turned.at < 48 * subdivisions

LEMMA TurnKeeps ==
    ASSUME GlobeInv, NEW d \in Diameters, DetailFrame(d) PROVE GlobeInv'
  <1>1. d \in Nat
    BY GlobeDetailAssumption
  <1> DEFINE new == Subdivisions(d, subdivisions)
  <1>2. subdivisions' = new /\ turned' = Turn(d, new)
    BY DEF DetailFrame
  <1>3. CASE subdivisions = 0
    <2>1. new \in Finesses /\ (new = 8 \/ d > 6 * new)
      BY <1>1, <1>3, FirstGrid
    <2> HIDE DEF new
    <2>2. turned' = [at |-> d, way |-> "first"]
      BY <1>2, <1>3, <2>1 DEF Turn, Finesses
    <2> QED
      BY <1>1, <1>2, <2>1, <2>2 DEF GlobeInv
  <1>4. CASE subdivisions # 0
    <2>1. subdivisions \in Finesses
      BY <1>4 DEF GlobeInv
    <2>2. /\ new \in Finesses
          /\ new > subdivisions => 2 * d > 15 * new
          /\ new < subdivisions => 5 * d < 48 * new
      BY <1>1, <2>1, GridAfter
    <2> HIDE DEF new
    <2>3. CASE new = subdivisions
      <3>1. turned' = turned /\ subdivisions' = subdivisions
        BY <1>2, <2>3 DEF Turn
      <3> QED
        BY <3>1 DEF GlobeInv
    <2>4. CASE new > subdivisions
      <3>1. turned' = [at |-> d, way |-> "finer"]
        BY <1>2, <1>4, <2>1, <2>2, <2>4 DEF Turn, Finesses
      <3> QED
        BY <1>1, <1>2, <2>2, <2>4, <3>1 DEF GlobeInv
    <2>5. CASE new < subdivisions
      <3>1. turned' = [at |-> d, way |-> "coarser"]
        BY <1>2, <1>4, <2>1, <2>2, <2>5 DEF Turn, Finesses
      <3> QED
        BY <1>1, <1>2, <2>2, <2>5, <3>1 DEF GlobeInv
    <2> QED
      BY <2>1, <2>2, <2>3, <2>4, <2>5 DEF Finesses
  <1> QED
    BY <1>3, <1>4

LEMMA GlobeInvSettles == GlobeInv => GlobesSettle
  <1> SUFFICES ASSUME GlobeInv, subdivisions # 0, NEW d \in Diameters
               PROVE  LET new == Subdivisions(d, subdivisions)
                      IN  /\ Subdivisions(d, new) = new
                          /\ new < subdivisions /\ turned.way = "finer" => 3 * d < 2 * turned.at
                          /\ new < subdivisions /\ turned.way = "first" => 5 * d <= 4 * turned.at
                          /\ new > subdivisions /\ turned.way = "coarser" => 2 * d > 3 * turned.at
    BY DEF GlobesSettle
  <1>1. d \in Nat /\ subdivisions \in Finesses /\ turned.at \in Nat
    BY GlobeDetailAssumption DEF GlobeInv
  <1> DEFINE new == Subdivisions(d, subdivisions)
             at == turned.at
  <1>2. /\ new \in Finesses
        /\ new = 64 \/ d <= 15 * new
        /\ new = 8 \/ 5 * d >= 24 * new
        /\ new > subdivisions => d > 15 * subdivisions
        /\ new < subdivisions => 5 * d < 24 * subdivisions
    BY <1>1, GridAfter
  <1>3. /\ turned.way = "finer" => 2 * at > 15 * subdivisions
        /\ turned.way = "first" => subdivisions = 8 \/ at > 6 * subdivisions
        /\ turned.way = "coarser" => 5 * at < 48 * subdivisions
    BY DEF GlobeInv
  <1> HIDE DEF new, at
  <1>4. Subdivisions(d, new) = new
    BY <1>1, <1>2, GridStays
  <1>5. at \in Nat
    BY <1>1 DEF at
  <1>6. new < subdivisions /\ turned.way = "finer" => 3 * d < 2 * at
    BY <1>1, <1>2, <1>3, <1>5 DEF Finesses
  <1>7. new < subdivisions /\ turned.way = "first" => 5 * d <= 4 * at
    BY <1>1, <1>2, <1>3, <1>5 DEF Finesses
  <1>8. new > subdivisions /\ turned.way = "coarser" => 2 * d > 3 * at
    BY <1>1, <1>2, <1>3, <1>5 DEF Finesses
  <1> QED
    BY <1>4, <1>6, <1>7, <1>8 DEF new, at

\* Theorem: at every diameter the grid that a frame has chosen stays as long as the camera does,
\* and a grid that was refined is coarsened, or the other way round, only after the body
\* has shrunk, or grown, by more than a third.
THEOREM GlobesAlwaysSettle == DetailSpec => []GlobesSettle
  <1>1. DetailInit => GlobeInv
    BY DEF DetailInit, GlobeInv, Finesses
  <1>2. GlobeInv /\ [DetailNext]_globe_vars => GlobeInv'
    <2>1. GlobeInv /\ Arrive => GlobeInv'
      BY DEF GlobeInv, Arrive, Finesses
    <2>2. GlobeInv /\ UNCHANGED globe_vars => GlobeInv'
      BY DEF GlobeInv, globe_vars
    <2> QED
      BY <2>1, <2>2, TurnKeeps DEF DetailNext
  <1> QED
    BY <1>1, <1>2, GlobeInvSettles, PTL DEF DetailSpec
-----------------------------------------------------------------------------
(* CubeNet: frames.  A frame is a face, the axis of it that a walk follows *)
(* with the sign in which it does, and the sign that positions across the  *)
(* walk count in.                                                          *)
Frames == [face : Faces, along : {"x", "z"}, fwd : {-1, 1}, side : {-1, 1}]

Put(sign, c, n) == IF sign = 1 THEN c ELSE n - 1 - c

\* The cell of a frame that is i cells ahead of its rear edge and l from its side
AtX(fr, i, l, n) == IF fr.along = "x" THEN Put(fr.fwd, i, n) ELSE Put(fr.side, l, n)
AtZ(fr, i, l, n) == IF fr.along = "x" THEN Put(fr.side, l, n) ELSE Put(fr.fwd, i, n)

\* The edge a walk leaves the face by, and the frame it goes on in
ExitEdge(fr) ==
    IF fr.along = "x" THEN (IF fr.fwd = 1 THEN "Right" ELSE "Left")
    ELSE (IF fr.fwd = 1 THEN "Top" ELSE "Bottom")

Exit(fr) == EdgePairings[fr.face][ExitEdge(fr)]

Enter(p, side) ==
    [face |-> p.face,
     along |-> IF p.edge \in {"Left", "Right"} THEN "x" ELSE "z",
     fwd |-> IF p.edge \in {"Left", "Bottom"} THEN 1 ELSE -1,
     side |-> IF p.flip THEN -side ELSE side]

OnwardFrame(fr) == Enter(Exit(fr), fr.side)

\* A point of the cube, by how far it is ahead, aside and outward
Spot(fr, a, b, n) ==
    IF fr.along = "x" THEN Direction(fr.face, fr.fwd * a, fr.side * b, n)
    ELSE Direction(fr.face, fr.side * b, fr.fwd * a, n)

\* An edge swaps the axes where it turns one kind of edge into the other.
LEMMA PairingsTurn ==
    ASSUME NEW f \in Faces, NEW e \in Edges
    PROVE  LET p == EdgePairings[f][e]
           IN  /\ p.face \in Faces /\ p.edge \in Edges
               /\ p.swap <=> (e \in {"Left", "Right"} <=> p.edge \in {"Top", "Bottom"})
  <1> USE DEF EdgePairings, Straight, Flipped, Swapped, Crossed, Faces, Edges
  <1> DEFINE p == EdgePairings[f][e]
  <1>1. p.face \in Faces /\ p.edge \in Edges
    OBVIOUS
  <1>2. p.swap <=> (e \in {"Left", "Right"} <=> p.edge \in {"Top", "Bottom"})
    OBVIOUS
  <1> QED
    BY <1>1, <1>2

LEMMA OnwardIsFrame ==
    ASSUME NEW fr \in Frames
    PROVE  OnwardFrame(fr) \in Frames
  <1>1. ExitEdge(fr) \in Edges /\ fr.face \in Faces /\ fr.side \in {-1, 1}
    BY DEF ExitEdge, Edges, Frames
  <1>2. Exit(fr).face \in Faces
    BY <1>1, PairingsTurn DEF Exit
  <1> QED
    BY <1>1, <1>2 DEF OnwardFrame, Enter, Frames

\* Over an edge what was ahead is outward, and what was outward is behind.
LEMMA RollsOver ==
    ASSUME NEW fr \in Frames, NEW a \in Int, NEW b \in Int, NEW n \in Int
    PROVE  Spot(OnwardFrame(fr), a, b, n) = Spot(fr, n, b, -a)
  <1> USE DEF Spot, OnwardFrame, Enter, Exit, ExitEdge, EdgePairings, Straight, Flipped, Swapped, Crossed, Direction, Frames
  <1>1. CASE fr.face = "PosX"
    BY <1>1
  <1>2. CASE fr.face = "NegX"
    BY <1>2
  <1>3. CASE fr.face = "PosY"
    BY <1>3
  <1>4. CASE fr.face = "NegY"
    BY <1>4
  <1>5. CASE fr.face = "PosZ"
    BY <1>5
  <1>6. CASE fr.face = "NegZ"
    BY <1>6
  <1> QED
    BY <1>1, <1>2, <1>3, <1>4, <1>5, <1>6 DEF Faces

\* A frame tells its points apart.
LEMMA SpotsDiffer ==
    ASSUME NEW fr \in Frames, NEW a \in Int, NEW b \in Int, NEW n \in Int,
           NEW a2 \in Int, NEW b2 \in Int, NEW n2 \in Int,
           Spot(fr, a, b, n) = Spot(fr, a2, b2, n2)
    PROVE  a = a2 /\ b = b2 /\ n = n2
  <1> USE DEF Spot, Direction, Frames
  <1> QED
    BY DEF Faces

\* It is the only one that has its points where they are.
LEMMA SpotsTell ==
    ASSUME NEW fr \in Frames, NEW gr \in Frames, Spot(fr, 1, 2, 3) = Spot(gr, 1, 2, 3)
    PROVE  fr = gr
  <1>1. fr.face = gr.face /\ fr.along = gr.along /\ fr.fwd = gr.fwd /\ fr.side = gr.side
    BY DEF Spot, Direction, Frames, Faces
  <1>2. /\ fr = [face |-> fr.face, along |-> fr.along, fwd |-> fr.fwd, side |-> fr.side]
        /\ gr = [face |-> gr.face, along |-> gr.along, fwd |-> gr.fwd, side |-> gr.side]
    BY DEF Frames
  <1> QED
    BY <1>1, <1>2

LEMMA NegatedTwice == \A a \in Int : -a \in Int /\ -(-a) = a
  OBVIOUS

\* After four edges a walk is in the frame it began in.
LEMMA OnceAround ==
    ASSUME NEW fr \in Frames
    PROVE  OnwardFrame(OnwardFrame(OnwardFrame(OnwardFrame(fr)))) = fr
  <1> DEFINE f1 == OnwardFrame(fr)
             f2 == OnwardFrame(f1)
             f3 == OnwardFrame(f2)
             f4 == OnwardFrame(f3)
  <1>1. f1 \in Frames /\ f2 \in Frames /\ f3 \in Frames /\ f4 \in Frames
    BY OnwardIsFrame
  <1> HIDE DEF f1, f2, f3, f4
  <1>2. ASSUME NEW a \in Int, NEW b \in Int, NEW n \in Int
        PROVE  Spot(f4, a, b, n) = Spot(fr, a, b, n)
    <2>1. -a \in Int /\ -n \in Int /\ -(-a) = a /\ -(-n) = n
      OBVIOUS
    <2>2. Spot(f4, a, b, n) = Spot(f3, n, b, -a)
      BY <1>1, RollsOver DEF f4
    <2>3. Spot(f3, n, b, -a) = Spot(f2, -a, b, -n)
      BY <1>1, <2>1, RollsOver DEF f3
    <2>4. Spot(f2, -a, b, -n) = Spot(f1, -n, b, a)
      BY <1>1, <2>1, RollsOver DEF f2
    <2>5. Spot(f1, -n, b, a) = Spot(fr, a, b, n)
      BY <1>1, <2>1, RollsOver DEF f1
    <2> QED
      BY <2>2, <2>3, <2>4, <2>5
  <1>3. f4 = fr
    BY <1>1, <1>2, SpotsTell
  <1> QED
    BY <1>3 DEF f1, f2, f3, f4

\* The same line of chunks, walked the other way
Reverse(fr) == [fr EXCEPT !.fwd = -@]

LEMMA ReverseIsFrame ==
    ASSUME NEW fr \in Frames
    PROVE  /\ Reverse(fr) \in Frames
           /\ Reverse(Reverse(fr)) = fr
           /\ \A a, b, n \in Int : Spot(Reverse(fr), a, b, n) = Spot(fr, -a, b, n)
  <1>1. fr = [face |-> fr.face, along |-> fr.along, fwd |-> fr.fwd, side |-> fr.side]
    BY DEF Frames
  <1>2. Reverse(fr) = [face |-> fr.face, along |-> fr.along, fwd |-> -fr.fwd, side |-> fr.side]
    BY <1>1 DEF Reverse
  <1>3. Reverse(fr) \in Frames
    BY <1>2 DEF Frames
  <1>4. Reverse(Reverse(fr)) = fr
    <2>1. -(-fr.fwd) = fr.fwd
      BY DEF Frames
    <2> QED
      BY <1>1, <1>2, <2>1 DEF Reverse
  <1>5. ASSUME NEW a \in Int, NEW b \in Int, NEW n \in Int
        PROVE  Spot(Reverse(fr), a, b, n) = Spot(fr, -a, b, n)
    <2>1. (-fr.fwd) * a = fr.fwd * (-a)
      BY DEF Frames
    <2>2. fr.along = "x" \/ fr.along = "z"
      BY DEF Frames
    <2> QED
      BY <1>2, <2>1, <2>2 DEF Spot
  <1> QED
    BY <1>3, <1>4, <1>5

\* Over an edge, around and back over it
LEMMA ThereAndBack ==
    ASSUME NEW fr \in Frames
    PROVE  OnwardFrame(Reverse(OnwardFrame(Reverse(fr)))) = fr
  <1> DEFINE r == Reverse(fr)
             o == OnwardFrame(r)
             b == Reverse(o)
             g == OnwardFrame(b)
  <1>1. r \in Frames /\ o \in Frames /\ b \in Frames /\ g \in Frames
    BY OnwardIsFrame, ReverseIsFrame
  <1> HIDE DEF r, o, b, g
  <1>2. ASSUME NEW u \in Int, NEW v \in Int, NEW n \in Int
        PROVE  Spot(g, u, v, n) = Spot(fr, u, v, n)
    <2>1. -u \in Int /\ -n \in Int /\ -(-u) = u
      OBVIOUS
    <2>2. Spot(g, u, v, n) = Spot(b, n, v, -u)
      BY <1>1, RollsOver DEF g
    <2>3. Spot(b, n, v, -u) = Spot(o, -n, v, -u)
      BY <1>1, <2>1, ReverseIsFrame DEF b
    <2>4. Spot(o, -n, v, -u) = Spot(r, -u, v, n)
      BY <1>1, <2>1, NegatedTwice, RollsOver DEF o
    <2>5. Spot(r, -u, v, n) = Spot(fr, u, v, n)
      BY <1>1, <2>1, ReverseIsFrame DEF r
    <2> QED
      BY <2>2, <2>3, <2>4, <2>5
  <1>3. g = fr
    BY <1>1, <1>2, SpotsTell
  <1> QED
    BY <1>3 DEF r, o, b, g

-----------------------------------------------------------------------------
(* Walkers *)

Fwd(fr) == IF fr.along = "x" THEN <<fr.fwd, 0>> ELSE <<0, fr.fwd>>
Side(fr) == IF fr.along = "x" THEN <<0, fr.side>> ELSE <<fr.side, 0>>

\* A walker in a frame who walks along the axis it calls h, in the direction of sign s
Stands(fr, i, l, h, s) ==
    [face |-> fr.face, x |-> AtX(fr, i, l, Chunks), z |-> AtZ(fr, i, l, Chunks),
     axis_x |-> IF h = "x" THEN Times(Fwd(fr), s) ELSE Side(fr),
     axis_z |-> IF h = "x" THEN Side(fr) ELSE Times(Fwd(fr), s)]

StepAlong(h, w, s) == IF h = "x" THEN StepX(w, s) ELSE StepZ(w, s)
Other(h) == IF h = "x" THEN "z" ELSE "x"

Headings == {"x", "z"}
Signs == {-1, 1}
Lanes == 0..(Chunks - 1)

LEMMA FrameFields ==
    ASSUME NEW fr \in Frames
    PROVE  /\ fr.face \in Faces
           /\ fr.along = "x" \/ fr.along = "z"
           /\ fr.fwd = 1 \/ fr.fwd = -1
           /\ fr.side = 1 \/ fr.side = -1
           /\ fr.fwd \in Int /\ fr.side \in Int
  BY DEF Frames

\* Twice the same sign is none.
LEMMA TimesTwice ==
    ASSUME NEW a \in Int, NEW b \in Int, NEW s \in Signs
    PROVE  Times(Times(<<a, b>>, s), s) = <<a, b>>
  <1>1. CASE s = 1
    BY <1>1 DEF Times
  <1>2. CASE s = -1
    <2>1. a * s = -a /\ b * s = -b /\ (-a) * s = a /\ (-b) * s = b
      BY <1>2
    <2> QED
      BY <2>1 DEF Times
  <1> QED
    BY <1>1, <1>2 DEF Signs

LEMMA FwdTwice ==
    ASSUME NEW fr \in Frames, NEW s \in Signs
    PROVE  Times(Times(Fwd(fr), s), s) = Fwd(fr)
  BY TimesTwice, FrameFields DEF Fwd

\* One cell ahead, or none
LEMMA CellAhead ==
    ASSUME NEW fr \in Frames, NEW n \in Nat \ {0}, NEW i \in 0..n - 1, NEW l \in 0..n - 1
    PROVE  /\ AtX(fr, i, l, n) \in 0..n - 1 /\ AtZ(fr, i, l, n) \in 0..n - 1
           /\ AtX(fr, i, l, n) + Fwd(fr)[1] = AtX(fr, i + 1, l, n)
           /\ AtZ(fr, i, l, n) + Fwd(fr)[2] = AtZ(fr, i + 1, l, n)
           /\ i + 1 < n => OnFace(AtX(fr, i + 1, l, n), AtZ(fr, i + 1, l, n), n)
           /\ i + 1 = n => /\ ~OnFace(AtX(fr, n, l, n), AtZ(fr, n, l, n), n)
                           /\ EdgeCrossed(AtX(fr, n, l, n), AtZ(fr, n, l, n), n) = ExitEdge(fr)
  BY FrameFields DEF AtX, AtZ, Put, Fwd, OnFace, EdgeCrossed, ExitEdge

\* Over an edge, a coordinate c across it and one along it
LEMMA CellAcross ==
    ASSUME NEW fr \in Frames, NEW n \in Nat \ {0}, NEW c \in Int, NEW l \in 0..n - 1
    PROVE  MapCrossFace(Exit(fr),
                        IF fr.along = "x" THEN c ELSE Put(fr.side, l, n),
                        IF fr.along = "x" THEN Put(fr.side, l, n) ELSE c, n)
             = <<AtX(OnwardFrame(fr), 0, l, n), AtZ(OnwardFrame(fr), 0, l, n)>>
  <1> DEFINE p == Exit(fr)
             q == Put(fr.side, l, n)
  <1>1. p.edge \in Edges /\ (p.swap <=> (fr.along = "x" <=> p.edge \in {"Top", "Bottom"}))
    BY PairingsTurn, FrameFields DEF Exit, ExitEdge, Edges
  <1>2. q \in 0..n - 1 /\ n - 1 - q = Put(-fr.side, l, n)
    BY FrameFields DEF Put
  <1> DEFINE r == IF p.flip THEN n - 1 - q ELSE q
             o == OnwardFrame(fr)
  <1>3. r = Put(o.side, l, n) /\ r \in 0..n - 1
    BY <1>2 DEF OnwardFrame, Enter
  <1>4. /\ p.edge \in {"Left", "Right"} <=> o.along = "x"
        /\ o.along = "x" \/ o.along = "z"
        /\ p.edge \in {"Left", "Bottom"} <=> o.fwd = 1
        /\ p.edge \in {"Right", "Top"} => o.fwd = -1
    BY <1>1 DEF OnwardFrame, Enter, Edges
  <1> DEFINE x == IF fr.along = "x" THEN c ELSE q
             z == IF fr.along = "x" THEN q ELSE c
             m == SwapFlip(p, x, z, n)
  <1>5. p.edge \in {"Left", "Right"} => m[2] = r
    BY <1>1, FrameFields DEF SwapFlip, Edges
  <1>6. p.edge \in {"Top", "Bottom"} => m[1] = r
    BY <1>1, FrameFields DEF SwapFlip, Edges
  <1>7. MapCrossFace(p, x, z, n) = <<AtX(o, 0, l, n), AtZ(o, 0, l, n)>>
    <2> HIDE DEF p, q, r, o, x, z
    <2>1. CASE p.edge = "Left"
      BY <2>1, <1>3, <1>4, <1>5 DEF MapCrossFace, AtX, AtZ, Put
    <2>2. CASE p.edge = "Right"
      BY <2>2, <1>3, <1>4, <1>5 DEF MapCrossFace, AtX, AtZ, Put
    <2>3. CASE p.edge = "Bottom"
      BY <2>3, <1>3, <1>4, <1>6 DEF MapCrossFace, AtX, AtZ, Put
    <2>4. CASE p.edge = "Top"
      BY <2>4, <1>3, <1>4, <1>6 DEF MapCrossFace, AtX, AtZ, Put
    <2> QED
      BY <2>1, <2>2, <2>3, <2>4, <1>1 DEF Edges
  <1> QED
    BY <1>7

\* The axes turn with the frame.
LEMMA AxesTurn ==
    ASSUME NEW fr \in Frames, NEW s \in Signs
    PROVE  /\ Turned(Exit(fr), ExitEdge(fr), Times(Fwd(fr), s)) = Times(Fwd(OnwardFrame(fr)), s)
           /\ Turned(Exit(fr), ExitEdge(fr), Side(fr)) = Side(OnwardFrame(fr))
  <1> DEFINE p == Exit(fr)
             o == OnwardFrame(fr)
  <1>1. p.edge \in Edges /\ (p.swap <=> (fr.along = "x" <=> p.edge \in {"Top", "Bottom"}))
    BY PairingsTurn, FrameFields DEF Exit, ExitEdge, Edges
  <1>2. /\ o.along = IF p.edge \in {"Left", "Right"} THEN "x" ELSE "z"
        /\ o.fwd = IF p.edge \in {"Left", "Bottom"} THEN 1 ELSE -1
        /\ o.side = IF p.flip THEN -fr.side ELSE fr.side
    BY DEF OnwardFrame, Enter
  <1>3. s = 1 \/ s = -1
    BY DEF Signs
  <1> HIDE DEF p, o
  <1>4. Turned(p, ExitEdge(fr), Times(Fwd(fr), s)) = Times(Fwd(o), s)
    BY <1>1, <1>2, <1>3, FrameFields DEF Turned, ExitEdge, Fwd, Times, Edges
  <1>5. Turned(p, ExitEdge(fr), Side(fr)) = Side(o)
    BY <1>1, <1>2, FrameFields DEF Turned, ExitEdge, Side, Edges
  <1> QED
    BY <1>4, <1>5 DEF p, o

\* Walkers are records, and x and z are two of their fields.
IsWalker(w) ==
    w = [face |-> w.face, x |-> w.x, z |-> w.z, axis_x |-> w.axis_x, axis_z |-> w.axis_z]

LEMMA WalkerMoved ==
    ASSUME NEW w, NEW x, NEW z, IsWalker(w)
    PROVE  [w EXCEPT !.x = x, !.z = z]
             = [face |-> w.face, x |-> x, z |-> z, axis_x |-> w.axis_x, axis_z |-> w.axis_z]
  <1> DEFINE v == [face |-> w.face, x |-> x, z |-> w.z, axis_x |-> w.axis_x, axis_z |-> w.axis_z]
             u == [face |-> w.face, x |-> x, z |-> z, axis_x |-> w.axis_x, axis_z |-> w.axis_z]
  <1>1. [w EXCEPT !.x = x] = v
    BY DEF IsWalker
  <1>2. [v EXCEPT !.z = z] = u
    OBVIOUS
  <1> HIDE DEF v, u
  <1>3. [w EXCEPT !.x = x, !.z = z] = [[w EXCEPT !.x = x] EXCEPT !.z = z]
    OBVIOUS
  <1>4. [w EXCEPT !.x = x, !.z = z] = u
    BY <1>1, <1>2, <1>3
  <1> QED
    BY <1>4 DEF u

\* A step of walk, on the face or over its edge
LEMMA StepAhead ==
    ASSUME NEW fr \in Frames, NEW i \in Lanes, NEW l \in Lanes, NEW h \in Headings, NEW s \in Signs
    PROVE  StepAlong(h, Stands(fr, i, l, h, s), s)
             = IF i + 1 < Chunks THEN Stands(fr, i + 1, l, h, s)
               ELSE Stands(OnwardFrame(fr), 0, l, h, s)
  <1> DEFINE w == Stands(fr, i, l, h, s)
             x == AtX(fr, i, l, Chunks) + Fwd(fr)[1]
             z == AtZ(fr, i, l, Chunks) + Fwd(fr)[2]
             c == IF fr.along = "x" THEN x ELSE z
  <1>1. Chunks \in Nat \ {0} /\ i \in 0..Chunks - 1 /\ l \in 0..Chunks - 1
    BY CubeNetAssumption DEF Lanes
  <1>2. StepAlong(h, w, s) = WalkStep(w, Fwd(fr))
    <2>1. CASE h = "x"
      BY <2>1, FwdTwice DEF StepAlong, StepX, Stands
    <2>2. CASE h = "z"
      BY <2>2, FwdTwice DEF StepAlong, StepZ, Stands
    <2> QED
      BY <2>1, <2>2 DEF Headings
  <1>3. w.x = AtX(fr, i, l, Chunks) /\ w.z = AtZ(fr, i, l, Chunks) /\ w.face = fr.face
    BY DEF Stands
  <1>4. x = AtX(fr, i + 1, l, Chunks) /\ z = AtZ(fr, i + 1, l, Chunks)
    BY <1>1, CellAhead
  <1>5. CASE i + 1 < Chunks
    <2>1. OnFace(x, z, Chunks)
      BY <1>1, <1>4, <1>5, CellAhead
    <2>2. WalkStep(w, Fwd(fr)) = [w EXCEPT !.x = x, !.z = z]
      BY <1>3, <2>1 DEF WalkStep
    <2>3. [w EXCEPT !.x = x, !.z = z] = Stands(fr, i + 1, l, h, s)
      <3>1. IsWalker(w) /\ w.face = fr.face
        BY DEF Stands, IsWalker
      <3>2. Stands(fr, i + 1, l, h, s) =
              [face |-> w.face, x |-> x, z |-> z, axis_x |-> w.axis_x, axis_z |-> w.axis_z]
        BY <1>4 DEF Stands
      <3> HIDE DEF x, z, w
      <3>3. [w EXCEPT !.x = x, !.z = z] =
              [face |-> w.face, x |-> x, z |-> z, axis_x |-> w.axis_x, axis_z |-> w.axis_z]
        BY <3>1, WalkerMoved
      <3> QED
        BY <3>2, <3>3
    <2> QED
      BY <1>2, <1>5, <2>2, <2>3
  <1>6. CASE ~(i + 1 < Chunks)
    <2>1. i + 1 = Chunks
      BY <1>1, <1>6
    <2>2. ~OnFace(x, z, Chunks) /\ EdgeCrossed(x, z, Chunks) = ExitEdge(fr)
      <3>1. x = AtX(fr, Chunks, l, Chunks) /\ z = AtZ(fr, Chunks, l, Chunks)
        BY <1>4, <2>1
      <3> HIDE DEF x, z
      <3> QED
        BY <1>1, <2>1, <3>1, CellAhead
    <2> DEFINE m == MapCrossFace(Exit(fr), x, z, Chunks)
               o == OnwardFrame(fr)
    <2>3. WalkStep(w, Fwd(fr)) =
            [face |-> Exit(fr).face, x |-> Clamped(m[1], Chunks), z |-> Clamped(m[2], Chunks),
             axis_x |-> Turned(Exit(fr), ExitEdge(fr), w.axis_x),
             axis_z |-> Turned(Exit(fr), ExitEdge(fr), w.axis_z)]
      BY <1>3, <2>2 DEF WalkStep, Exit
    <2>4. m = <<AtX(o, 0, l, Chunks), AtZ(o, 0, l, Chunks)>>
      <3>1. x = (IF fr.along = "x" THEN c ELSE Put(fr.side, l, Chunks))
            /\ z = (IF fr.along = "x" THEN Put(fr.side, l, Chunks) ELSE c) /\ c \in Int
        <4>1. x = AtX(fr, i + 1, l, Chunks) /\ z = AtZ(fr, i + 1, l, Chunks)
          BY <1>4
        <4>2. AtX(fr, i + 1, l, Chunks) \in Int /\ AtZ(fr, i + 1, l, Chunks) \in Int
          BY <1>1 DEF AtX, AtZ, Put
        <4> QED
          BY <4>1, <4>2 DEF AtX, AtZ
      <3> HIDE DEF x, z, c
      <3> QED
        BY <1>1, <3>1, CellAcross
    <2>5. o \in Frames
      BY OnwardIsFrame
    <2>6. AtX(o, 0, l, Chunks) \in 0..Chunks - 1 /\ AtZ(o, 0, l, Chunks) \in 0..Chunks - 1
      BY <1>1, <2>5, CellAhead
    <2>7. Clamped(m[1], Chunks) = AtX(o, 0, l, Chunks) /\ Clamped(m[2], Chunks) = AtZ(o, 0, l, Chunks)
      BY <1>1, <2>4, <2>6 DEF Clamped
    <2>8. Exit(fr).face = o.face
      BY DEF OnwardFrame, Enter
    <2>9. /\ Turned(Exit(fr), ExitEdge(fr), w.axis_x)
               = (IF h = "x" THEN Times(Fwd(o), s) ELSE Side(o))
          /\ Turned(Exit(fr), ExitEdge(fr), w.axis_z)
               = (IF h = "x" THEN Side(o) ELSE Times(Fwd(o), s))
      BY AxesTurn DEF Stands
    <2>10. WalkStep(w, Fwd(fr)) = Stands(o, 0, l, h, s)
      <3> HIDE DEF m, o, w, x, z
      <3> QED
        BY <2>3, <2>7, <2>8, <2>9 DEF Stands
    <2> QED
      BY <1>2, <1>6, <2>10
  <1> QED
    BY <1>5, <1>6

\* A step to the side, away from the edges
LEMMA StepAside ==
    ASSUME NEW fr \in Frames, NEW i \in Lanes, NEW l \in Lanes, NEW h \in Headings,
           NEW s \in Signs, NEW r \in Signs, l + r \in Lanes
    PROVE  StepAlong(Other(h), Stands(fr, i, l, h, s), r) = Stands(fr, i, l + r, h, s)
  <1> DEFINE w == Stands(fr, i, l, h, s)
             d == Times(Side(fr), r)
             x == AtX(fr, i, l, Chunks) + d[1]
             z == AtZ(fr, i, l, Chunks) + d[2]
  <1>1. Chunks \in Nat \ {0} /\ i \in 0..Chunks - 1 /\ l \in 0..Chunks - 1 /\ l + r \in 0..Chunks - 1
    BY CubeNetAssumption DEF Lanes
  <1>2. StepAlong(Other(h), w, r) = WalkStep(w, d)
    <2>1. CASE h = "x"
      BY <2>1 DEF StepAlong, StepZ, Stands, Other
    <2>2. CASE h = "z"
      BY <2>2 DEF StepAlong, StepX, Stands, Other
    <2> QED
      BY <2>1, <2>2 DEF Headings
  <1>3. w.x = AtX(fr, i, l, Chunks) /\ w.z = AtZ(fr, i, l, Chunks)
    BY DEF Stands
  <1>4. x = AtX(fr, i, l + r, Chunks) /\ z = AtZ(fr, i, l + r, Chunks)
    <2>1. fr.side * r \in Int /\ Put(fr.side, l, Chunks) + fr.side * r = Put(fr.side, l + r, Chunks)
      BY <1>1, FrameFields DEF Put, Signs
    <2>2. 0 * r = 0 /\ Put(fr.fwd, i, Chunks) \in Int
      BY <1>1 DEF Put, Signs
    <2> QED
      BY <2>1, <2>2, FrameFields DEF AtX, AtZ, Side, Times
  <1>5. OnFace(x, z, Chunks)
    <2>1. x \in 0..Chunks - 1 /\ z \in 0..Chunks - 1
      <3> DEFINE l2 == l + r
      <3>1. l2 \in 0..Chunks - 1 /\ x = AtX(fr, i, l2, Chunks) /\ z = AtZ(fr, i, l2, Chunks)
        BY <1>1, <1>4
      <3> HIDE DEF l2, x, z
      <3> QED
        BY <1>1, <3>1, CellAhead
    <2> HIDE DEF x, z
    <2> QED
      BY <2>1 DEF OnFace
  <1>6. WalkStep(w, d) = [w EXCEPT !.x = x, !.z = z]
    BY <1>3, <1>5 DEF WalkStep
  <1>7. [w EXCEPT !.x = x, !.z = z] = Stands(fr, i, l + r, h, s)
    <2>1. IsWalker(w) /\ w.face = fr.face
      BY DEF Stands, IsWalker
    <2>2. Stands(fr, i, l + r, h, s) =
            [face |-> w.face, x |-> x, z |-> z, axis_x |-> w.axis_x, axis_z |-> w.axis_z]
      BY <1>4 DEF Stands
    <2> HIDE DEF x, z, w
    <2>3. [w EXCEPT !.x = x, !.z = z] =
            [face |-> w.face, x |-> x, z |-> z, axis_x |-> w.axis_x, axis_z |-> w.axis_z]
      BY <2>1, WalkerMoved
    <2> QED
      BY <2>2, <2>3
  <1> QED
    BY <1>2, <1>6, <1>7

\* The same place, seen the other way
LEMMA StandsReversed ==
    ASSUME NEW fr \in Frames, NEW i \in Lanes, NEW l \in Lanes, NEW h \in Headings, NEW s \in Signs
    PROVE  /\ -s \in Signs /\ Chunks - 1 - i \in Lanes
           /\ Stands(Reverse(fr), Chunks - 1 - i, l, h, -s) = Stands(fr, i, l, h, s)
  <1>1. Chunks \in Nat \ {0} /\ i \in 0..Chunks - 1 /\ l \in 0..Chunks - 1
    BY CubeNetAssumption DEF Lanes
  <1>2. -s \in Signs /\ Chunks - 1 - i \in Lanes
    BY <1>1 DEF Lanes, Signs
  <1>3. /\ Reverse(fr).face = fr.face /\ Reverse(fr).along = fr.along
        /\ Reverse(fr).side = fr.side /\ Reverse(fr).fwd = -fr.fwd
    BY DEF Reverse, Frames
  <1>4. Put(-fr.fwd, Chunks - 1 - i, Chunks) = Put(fr.fwd, i, Chunks)
    BY <1>1, FrameFields DEF Put
  <1>5. Times(Fwd(Reverse(fr)), -s) = Times(Fwd(fr), s)
    <2>1. (-fr.fwd) * (-s) = fr.fwd * s /\ 0 * (-s) = 0 * s
      BY FrameFields DEF Signs
    <2> QED
      BY <1>3, <2>1, FrameFields DEF Fwd, Times
  <1>6. Side(Reverse(fr)) = Side(fr)
    BY <1>3 DEF Side
  <1>7. AtX(Reverse(fr), Chunks - 1 - i, l, Chunks) = AtX(fr, i, l, Chunks)
        /\ AtZ(Reverse(fr), Chunks - 1 - i, l, Chunks) = AtZ(fr, i, l, Chunks)
    BY <1>3, <1>4 DEF AtX, AtZ
  <1> QED
    BY <1>2, <1>3, <1>5, <1>6, <1>7 DEF Stands

-----------------------------------------------------------------------------
(* Corners *)

\* The two corners of a cell at the line i cells ahead of the rear edge
Rim(fr, i, l, n) == {Spot(fr, 2 * i - n, 2 * l - n, n), Spot(fr, 2 * i - n, 2 * l + 2 - n, n)}

CellCorners(fr, i, l, n) == Corners(fr.face, AtX(fr, i, l, n), AtZ(fr, i, l, n), n)

LEMMA CornersAreRims ==
    ASSUME NEW fr \in Frames, NEW n \in Nat \ {0}, NEW i \in 0..n - 1, NEW l \in 0..n - 1
    PROVE  CellCorners(fr, i, l, n) = Rim(fr, i, l, n) \cup Rim(fr, i + 1, l, n)
  <1> DEFINE f == fr.face
             x == AtX(fr, i, l, n)
             z == AtZ(fr, i, l, n)
             D(a, b) == Direction(f, a, b, n)
             i0 == 2 * i - n
             i1 == 2 * i + 2 - n
             l0 == 2 * l - n
             l1 == 2 * l + 2 - n
  <1>1. x \in Int /\ z \in Int /\ i0 \in Int /\ i1 \in Int /\ l0 \in Int /\ l1 \in Int
    BY DEF AtX, AtZ, Put
  <1>2. CellCorners(fr, i, l, n) =
           {D(2 * x - n, 2 * z - n), D(2 * x - n, 2 * (z + 1) - n),
            D(2 * (x + 1) - n, 2 * z - n), D(2 * (x + 1) - n, 2 * (z + 1) - n)}
    <2> HIDE DEF x, z, D
    <2>1. Corners(f, x, z, n) = {D(2 * a - n, 2 * b - n) : a \in {x, x + 1}, b \in {z, z + 1}}
      BY DEF Corners, D
    <2> QED
      BY <2>1 DEF CellCorners, x, z
  <1>3. Rim(fr, i, l, n) = {Spot(fr, i0, l0, n), Spot(fr, i0, l1, n)}
    BY DEF Rim
  <1>4. Rim(fr, i + 1, l, n) = {Spot(fr, i1, l0, n), Spot(fr, i1, l1, n)}
    <2>1. 2 * (i + 1) - n = i1
      OBVIOUS
    <2> QED
      BY <2>1 DEF Rim
  <1>5. \A a, b \in Int : Spot(fr, a, b, n) = IF fr.along = "x" THEN D(fr.fwd * a, fr.side * b)
                                              ELSE D(fr.side * b, fr.fwd * a)
    BY DEF Spot
  <1>6. CASE fr.along = "x"
    <2>1. /\ fr.fwd = 1 => 2 * x - n = fr.fwd * i0 /\ 2 * (x + 1) - n = fr.fwd * i1
          /\ fr.fwd = -1 => 2 * x - n = fr.fwd * i1 /\ 2 * (x + 1) - n = fr.fwd * i0
      BY <1>6 DEF AtX, Put
    <2>2. /\ fr.side = 1 => 2 * z - n = fr.side * l0 /\ 2 * (z + 1) - n = fr.side * l1
          /\ fr.side = -1 => 2 * z - n = fr.side * l1 /\ 2 * (z + 1) - n = fr.side * l0
      BY <1>6 DEF AtZ, Put
    <2>3. /\ Spot(fr, i0, l0, n) = D(fr.fwd * i0, fr.side * l0)
          /\ Spot(fr, i0, l1, n) = D(fr.fwd * i0, fr.side * l1)
          /\ Spot(fr, i1, l0, n) = D(fr.fwd * i1, fr.side * l0)
          /\ Spot(fr, i1, l1, n) = D(fr.fwd * i1, fr.side * l1)
      <3> HIDE DEF x, z, i0, i1, l0, l1, D
      <3> QED
        BY <1>1, <1>5, <1>6
    <2> DEFINE u0 == 2 * x - n
               u1 == 2 * (x + 1) - n
               v0 == 2 * z - n
               v1 == 2 * (z + 1) - n
    <2>4. CellCorners(fr, i, l, n) = {D(u0, v0), D(u0, v1), D(u1, v0), D(u1, v1)}
      BY <1>2
    <2> HIDE DEF x, z, i0, i1, l0, l1, D, u0, u1, v0, v1
    <2>5. CASE fr.fwd = 1 /\ fr.side = 1
      BY <1>3, <1>4, <2>1, <2>2, <2>3, <2>4, <2>5 DEF u0, u1, v0, v1
    <2>6. CASE fr.fwd = 1 /\ fr.side = -1
      BY <1>3, <1>4, <2>1, <2>2, <2>3, <2>4, <2>6 DEF u0, u1, v0, v1
    <2>7. CASE fr.fwd = -1 /\ fr.side = 1
      BY <1>3, <1>4, <2>1, <2>2, <2>3, <2>4, <2>7 DEF u0, u1, v0, v1
    <2>8. CASE fr.fwd = -1 /\ fr.side = -1
      BY <1>3, <1>4, <2>1, <2>2, <2>3, <2>4, <2>8 DEF u0, u1, v0, v1
    <2> QED
      BY <2>5, <2>6, <2>7, <2>8, FrameFields
  <1>7. CASE fr.along = "z"
    <2>1. /\ fr.fwd = 1 => 2 * z - n = fr.fwd * i0 /\ 2 * (z + 1) - n = fr.fwd * i1
          /\ fr.fwd = -1 => 2 * z - n = fr.fwd * i1 /\ 2 * (z + 1) - n = fr.fwd * i0
      BY <1>7 DEF AtZ, Put
    <2>2. /\ fr.side = 1 => 2 * x - n = fr.side * l0 /\ 2 * (x + 1) - n = fr.side * l1
          /\ fr.side = -1 => 2 * x - n = fr.side * l1 /\ 2 * (x + 1) - n = fr.side * l0
      BY <1>7 DEF AtX, Put
    <2>3. /\ Spot(fr, i0, l0, n) = D(fr.side * l0, fr.fwd * i0)
          /\ Spot(fr, i0, l1, n) = D(fr.side * l1, fr.fwd * i0)
          /\ Spot(fr, i1, l0, n) = D(fr.side * l0, fr.fwd * i1)
          /\ Spot(fr, i1, l1, n) = D(fr.side * l1, fr.fwd * i1)
      <3> HIDE DEF x, z, i0, i1, l0, l1, D
      <3> QED
        BY <1>1, <1>5, <1>7
    <2> DEFINE u0 == 2 * x - n
               u1 == 2 * (x + 1) - n
               v0 == 2 * z - n
               v1 == 2 * (z + 1) - n
    <2>4. CellCorners(fr, i, l, n) = {D(u0, v0), D(u0, v1), D(u1, v0), D(u1, v1)}
      BY <1>2
    <2> HIDE DEF x, z, i0, i1, l0, l1, D, u0, u1, v0, v1
    <2>5. CASE fr.fwd = 1 /\ fr.side = 1
      BY <1>3, <1>4, <2>1, <2>2, <2>3, <2>4, <2>5 DEF u0, u1, v0, v1
    <2>6. CASE fr.fwd = 1 /\ fr.side = -1
      BY <1>3, <1>4, <2>1, <2>2, <2>3, <2>4, <2>6 DEF u0, u1, v0, v1
    <2>7. CASE fr.fwd = -1 /\ fr.side = 1
      BY <1>3, <1>4, <2>1, <2>2, <2>3, <2>4, <2>7 DEF u0, u1, v0, v1
    <2>8. CASE fr.fwd = -1 /\ fr.side = -1
      BY <1>3, <1>4, <2>1, <2>2, <2>3, <2>4, <2>8 DEF u0, u1, v0, v1
    <2> QED
      BY <2>5, <2>6, <2>7, <2>8, FrameFields
  <1> QED
    BY <1>6, <1>7, FrameFields

LEMMA RimIsPair ==
    ASSUME NEW fr \in Frames, NEW n \in Nat \ {0}, NEW i \in Nat, NEW l \in Nat
    PROVE  Cardinality(Rim(fr, i, l, n)) = 2
  <1> DEFINE p == Spot(fr, 2 * i - n, 2 * l - n, n)
             q == Spot(fr, 2 * i - n, 2 * l + 2 - n, n)
  <1>1. p # q
    <2>1. 2 * i - n \in Int /\ 2 * l - n \in Int /\ 2 * l + 2 - n \in Int
          /\ n \in Int /\ 2 * l - n # 2 * l + 2 - n
      OBVIOUS
    <2> QED
      BY <2>1, SpotsDiffer
  <1> HIDE DEF p, q
  <1>2. IsFiniteSet({p}) /\ Cardinality({p}) = 1
    BY FS_Singleton
  <1>3. Cardinality({p} \cup {q}) = 2
    BY <1>1, <1>2, FS_AddElement
  <1>4. Rim(fr, i, l, n) = {p} \cup {q}
    BY DEF Rim, p, q
  <1> QED
    BY <1>3, <1>4

LEMMA RimsAreApart ==
    ASSUME NEW fr \in Frames, NEW n \in Nat \ {0}, NEW i \in Nat, NEW j \in Nat, NEW l \in Nat, i # j
    PROVE  Rim(fr, i, l, n) \cap Rim(fr, j, l, n) = {}
  <1>1. /\ 2 * i - n \in Int /\ 2 * j - n \in Int /\ 2 * l - n \in Int /\ 2 * l + 2 - n \in Int
        /\ n \in Int /\ 2 * i - n # 2 * j - n
    OBVIOUS
  <1> QED
    BY <1>1, SpotsDiffer DEF Rim

\* The far edge of a face is the near edge of the one behind it.
LEMMA RimsMeet ==
    ASSUME NEW fr \in Frames, NEW n \in Nat \ {0}, NEW l \in Nat
    PROVE  Rim(OnwardFrame(fr), 0, l, n) = Rim(fr, n, l, n)
  <1>1. /\ 2 * 0 - n = -n /\ 2 * n - n = n /\ -n \in Int /\ n \in Int /\ -(-n) = n
        /\ 2 * l - n \in Int /\ 2 * l + 2 - n \in Int
    OBVIOUS
  <1>2. \A b \in Int : Spot(OnwardFrame(fr), -n, b, n) = Spot(fr, n, b, n)
    BY <1>1, RollsOver
  <1> QED
    BY <1>1, <1>2 DEF Rim

\* Around the edge there is nothing of the face that was left.
LEMMA RimsPart ==
    ASSUME NEW fr \in Frames, NEW n \in Nat \ {0}, NEW l \in Nat, NEW i \in Nat
    PROVE  Rim(OnwardFrame(fr), 1, l, n) \cap Rim(fr, i, l, n) = {}
  <1>1. /\ 2 * 1 - n \in Int /\ n \in Int /\ 2 * i - n \in Int
        /\ 2 * l - n \in Int /\ 2 * l + 2 - n \in Int /\ -(2 * 1 - n) = n - 2 /\ n - 2 \in Int /\ n - 2 # n
    OBVIOUS
  <1>2. \A b \in Int : Spot(OnwardFrame(fr), 2 * 1 - n, b, n) = Spot(fr, n, b, n - 2)
    BY <1>1, RollsOver
  <1> QED
    BY <1>1, <1>2, SpotsDiffer DEF Rim

\* The cell ahead
NextFrame(fr, i, n) == IF i + 1 < n THEN fr ELSE OnwardFrame(fr)
NextI(i, n) == IF i + 1 < n THEN i + 1 ELSE 0

LEMMA CellAheadShares ==
    ASSUME NEW fr \in Frames, NEW n \in Nat \ {0}, NEW i \in 0..n - 1, NEW l \in 0..n - 1
    PROVE  /\ NextFrame(fr, i, n) \in Frames /\ NextI(i, n) \in 0..n - 1
           /\ Rim(NextFrame(fr, i, n), NextI(i, n), l, n) = Rim(fr, i + 1, l, n)
           /\ CellCorners(fr, i, l, n) \cap CellCorners(NextFrame(fr, i, n), NextI(i, n), l, n)
                = Rim(fr, i + 1, l, n)
  <1> DEFINE o == OnwardFrame(fr)
  <1>1. CellCorners(fr, i, l, n) = Rim(fr, i, l, n) \cup Rim(fr, i + 1, l, n)
    BY CornersAreRims
  <1>2. Rim(fr, i, l, n) \cap Rim(fr, i + 1, l, n) = {}
    BY RimsAreApart
  <1>3. o \in Frames
    BY OnwardIsFrame
  <1>4. CASE i + 1 < n
    <2>1. i + 1 \in 0..n - 1 /\ (i + 1) + 1 \in Nat
      BY <1>4
    <2>2. CellCorners(fr, i + 1, l, n) = Rim(fr, i + 1, l, n) \cup Rim(fr, (i + 1) + 1, l, n)
      BY <2>1, CornersAreRims
    <2>3. Rim(fr, i, l, n) \cap Rim(fr, (i + 1) + 1, l, n) = {}
      BY <2>1, RimsAreApart
    <2>4. CellCorners(fr, i, l, n) \cap CellCorners(fr, i + 1, l, n) = Rim(fr, i + 1, l, n)
      BY <1>1, <1>2, <2>2, <2>3
    <2> QED
      BY <1>4, <2>1, <2>4 DEF NextFrame, NextI
  <1>5. CASE ~(i + 1 < n)
    <2>1. i + 1 = n /\ 0 \in 0..n - 1 /\ n \in Nat /\ 0 + 1 = 1
      BY <1>5
    <2>2. CellCorners(o, 0, l, n) = Rim(o, 0, l, n) \cup Rim(o, 1, l, n)
      BY <1>3, <2>1, CornersAreRims
    <2>3. Rim(o, 0, l, n) = Rim(fr, n, l, n)
      BY RimsMeet
    <2>4. Rim(o, 1, l, n) \cap Rim(fr, i, l, n) = {} /\ Rim(o, 1, l, n) \cap Rim(fr, i + 1, l, n) = {}
      BY RimsPart
    <2>5. CellCorners(fr, i, l, n) \cap CellCorners(o, 0, l, n) = Rim(fr, i + 1, l, n)
      BY <1>1, <1>2, <2>1, <2>2, <2>3, <2>4
    <2> QED
      BY <1>3, <1>5, <2>1, <2>3, <2>5 DEF NextFrame, NextI
  <1> QED
    BY <1>4, <1>5

\* Three chunks in a row
LEMMA StepsGoStraight ==
    ASSUME NEW fr \in Frames, NEW i \in Lanes, NEW l \in Lanes, NEW h \in Headings, NEW s \in Signs
    PROVE  LET w == Stands(fr, i, l, h, s)
               a == StepAlong(h, w, s)
               shared == ChunkCorners(w) \cap ChunkCorners(a)
           IN  /\ Cardinality(shared) = 2
               /\ shared \cap ChunkCorners(StepAlong(h, a, s)) = {}
  <1> DEFINE n == Chunks
             f1 == NextFrame(fr, i, n)
             i1 == NextI(i, n)
             f2 == NextFrame(f1, i1, n)
             i2 == NextI(i1, n)
  <1>1. n \in Nat \ {0} /\ i \in 0..n - 1 /\ l \in 0..n - 1
    BY CubeNetAssumption DEF Lanes
  <1>2. /\ f1 \in Frames /\ i1 \in 0..n - 1
        /\ Rim(f1, i1, l, n) = Rim(fr, i + 1, l, n)
        /\ CellCorners(fr, i, l, n) \cap CellCorners(f1, i1, l, n) = Rim(fr, i + 1, l, n)
    BY <1>1, CellAheadShares
  <1>3. CellCorners(f1, i1, l, n) \cap CellCorners(f2, i2, l, n) = Rim(f1, i1 + 1, l, n)
    BY <1>1, <1>2, CellAheadShares
  <1>4. \A g \in Frames, j \in 0..n - 1 :
            StepAlong(h, Stands(g, j, l, h, s), s) = Stands(NextFrame(g, j, n), NextI(j, n), l, h, s)
    BY StepAhead DEF NextFrame, NextI, Lanes
  <1>5. \A g, j : ChunkCorners(Stands(g, j, l, h, s)) = CellCorners(g, j, l, n)
    BY DEF ChunkCorners, CellCorners, Stands
  <1>6. Cardinality(Rim(fr, i + 1, l, n)) = 2
    BY <1>1, RimIsPair
  <1>7. Rim(f1, i1, l, n) \cap Rim(f1, i1 + 1, l, n) = {}
    BY <1>1, <1>2, RimsAreApart
  <1>8. StepAlong(h, Stands(fr, i, l, h, s), s) = Stands(f1, i1, l, h, s)
    BY <1>1, <1>4
  <1> HIDE DEF f1, i1
  <1>9. StepAlong(h, Stands(f1, i1, l, h, s), s) = Stands(f2, i2, l, h, s)
    BY <1>2, <1>4
  <1> HIDE DEF f2, i2
  <1> QED
    BY <1>2, <1>3, <1>5, <1>6, <1>7, <1>8, <1>9

-----------------------------------------------------------------------------
(* Walks *)

OnwardBy(fr, k) ==
    IF k = 1 THEN OnwardFrame(fr)
    ELSE IF k = 2 THEN OnwardFrame(OnwardFrame(fr))
    ELSE IF k = 3 THEN OnwardFrame(OnwardFrame(OnwardFrame(fr)))
    ELSE fr

\* After t steps a walker is as far on, over k edges and i chunks into a face.
StandsAfter(fr, i0, l, h, s, t, w) ==
    \E k \in 0..4, i \in Lanes :
        k * Chunks + i = i0 + t /\ w = Stands(OnwardBy(fr, k), i, l, h, s)

LEMMA OneMoreStep ==
    ASSUME NEW fr \in Frames, NEW i0 \in Lanes, NEW l \in Lanes, NEW h \in Headings, NEW s \in Signs,
           NEW t \in 0..4 * Chunks - 1, NEW w, StandsAfter(fr, i0, l, h, s, t, w)
    PROVE  /\ StandsAfter(fr, i0, l, h, s, t + 1, StepAlong(h, w, s))
           /\ \E g \in Frames, i \in Lanes : w = Stands(g, i, l, h, s)
  <1> DEFINE n == Chunks
  <1>1. n \in Nat \ {0} /\ Lanes = 0..n - 1
    BY CubeNetAssumption DEF Lanes
  <1>2. PICK k \in 0..4, i \in Lanes :
            k * n + i = i0 + t /\ w = Stands(OnwardBy(fr, k), i, l, h, s)
    BY DEF StandsAfter
  <1> DEFINE g == OnwardBy(fr, k)
  <1>3. g \in Frames
    BY OnwardIsFrame DEF OnwardBy
  <1>4. StepAlong(h, w, s) =
           IF i + 1 < n THEN Stands(g, i + 1, l, h, s) ELSE Stands(OnwardFrame(g), 0, l, h, s)
    BY <1>2, <1>3, StepAhead
  <1>5. StandsAfter(fr, i0, l, h, s, t + 1, StepAlong(h, w, s))
    <2>1. CASE i + 1 < n
      <3>1. i + 1 \in Lanes /\ k * n + (i + 1) = i0 + (t + 1)
        <4>1. k * n \in Int
          BY <1>1
        <4> QED
          BY <1>1, <1>2, <2>1, <4>1
      <3> QED
        BY <1>4, <2>1, <3>1 DEF StandsAfter
    <2>2. CASE ~(i + 1 < n)
      <3>1. i + 1 = n /\ 0 \in Lanes
        BY <1>1, <2>2
      <3>2. k # 4 /\ (k + 1) * n + 0 = i0 + (t + 1)
        <4>1. k = 0 \/ k = 1 \/ k = 2 \/ k = 3 \/ k = 4
          OBVIOUS
        <4> QED
          BY <1>1, <1>2, <3>1, <4>1
      <3>3. k + 1 \in 0..4
        BY <3>2
      <3>4. OnwardFrame(g) = OnwardBy(fr, k + 1)
        <4>1. k = 0 \/ k = 1 \/ k = 2 \/ k = 3
          BY <3>2
        <4> QED
          BY <4>1, OnceAround DEF OnwardBy
      <3>5. StepAlong(h, w, s) = Stands(OnwardBy(fr, k + 1), 0, l, h, s)
        BY <1>4, <2>2, <3>4
      <3> QED
        BY <3>1, <3>2, <3>3, <3>5 DEF StandsAfter
    <2> QED
      BY <2>1, <2>2
  <1> QED
    BY <1>2, <1>3, <1>5

LEMMA RoundOnce ==
    ASSUME NEW fr \in Frames, NEW i0 \in Lanes, NEW l \in Lanes, NEW h \in Headings, NEW s \in Signs,
           NEW w, StandsAfter(fr, i0, l, h, s, 4 * Chunks, w)
    PROVE  w = Stands(fr, i0, l, h, s)
  <1>1. Chunks \in Nat \ {0} /\ Lanes = 0..Chunks - 1
    BY CubeNetAssumption DEF Lanes
  <1>2. PICK k \in 0..4, i \in Lanes :
            k * Chunks + i = i0 + 4 * Chunks /\ w = Stands(OnwardBy(fr, k), i, l, h, s)
    BY DEF StandsAfter
  <1>3. k = 4 /\ i = i0
    <2>1. k = 0 \/ k = 1 \/ k = 2 \/ k = 3 \/ k = 4
      OBVIOUS
    <2> QED
      BY <1>1, <1>2, <2>1
  <1> QED
    BY <1>2, <1>3 DEF OnwardBy

LEMMA StandsAtFirst ==
    ASSUME NEW fr \in Frames, NEW i0 \in Lanes, NEW l \in Lanes, NEW h \in Headings, NEW s \in Signs
    PROVE  StandsAfter(fr, i0, l, h, s, 0, Stands(fr, i0, l, h, s))
  <1>1. 0 * Chunks + i0 = i0 + 0 /\ 0 \in 0..4
    BY CubeNetAssumption DEF Lanes
  <1> QED
    BY <1>1 DEF StandsAfter, OnwardBy

\* The frame a walk begins in
FrameOf(w, hd) == [face |-> w.face, along |-> hd[1], fwd |-> hd[2], side |-> 1]
AheadOf(w, hd) == Put(hd[2], IF hd[1] = "x" THEN w.x ELSE w.z, Chunks)
AsideOf(w, hd) == IF hd[1] = "x" THEN w.z ELSE w.x

LEMMA StartStands ==
    ASSUME NEW w \in Starts, NEW hd \in Headings \X Signs
    PROVE  /\ FrameOf(w, hd) \in Frames /\ AheadOf(w, hd) \in Lanes /\ AsideOf(w, hd) \in Lanes
           /\ w = Stands(FrameOf(w, hd), AheadOf(w, hd), AsideOf(w, hd), hd[1], hd[2])
  <1>1. PICK f \in Faces, x \in Lanes, z \in Lanes : w = WalkerAt(f, x, z)
    BY DEF Starts, Lanes
  <1>2. Chunks \in Nat \ {0} /\ x \in 0..Chunks - 1 /\ z \in 0..Chunks - 1
    BY CubeNetAssumption DEF Lanes
  <1>3. w.face = f /\ w.x = x /\ w.z = z
        /\ w = [face |-> f, x |-> x, z |-> z, axis_x |-> <<1, 0>>, axis_z |-> <<0, 1>>]
    BY <1>1 DEF WalkerAt
  <1>4. (hd[1] = "x" \/ hd[1] = "z") /\ (hd[2] = 1 \/ hd[2] = -1) /\ hd[2] \in Signs /\ hd[2] \in Int
    BY DEF Headings, Signs
  <1>5. FrameOf(w, hd) \in Frames
    BY <1>3, <1>4 DEF FrameOf, Frames
  <1>6. AheadOf(w, hd) \in Lanes /\ AsideOf(w, hd) \in Lanes
    BY <1>2, <1>3, <1>4 DEF AheadOf, AsideOf, Put, Lanes
  <1>7. Put(hd[2], AheadOf(w, hd), Chunks) = IF hd[1] = "x" THEN x ELSE z
    BY <1>2, <1>3, <1>4 DEF AheadOf, Put
  <1>8. Put(1, AsideOf(w, hd), Chunks) = IF hd[1] = "x" THEN z ELSE x
    BY <1>3 DEF AsideOf, Put
  <1> DEFINE fr == FrameOf(w, hd)
             i == AheadOf(w, hd)
             l == AsideOf(w, hd)
  <1>9. fr.face = f /\ fr.along = hd[1] /\ fr.fwd = hd[2] /\ fr.side = 1
    BY <1>3 DEF FrameOf
  <1>10. Times(Fwd(fr), hd[2]) = IF hd[1] = "x" THEN <<1, 0>> ELSE <<0, 1>>
    <2>1. hd[2] * hd[2] = 1 /\ 0 * hd[2] = 0
      BY <1>4
    <2> QED
      BY <1>4, <1>9, <2>1 DEF Fwd, Times
  <1>11. Side(fr) = IF hd[1] = "x" THEN <<0, 1>> ELSE <<1, 0>>
    BY <1>9 DEF Side
  <1>12. AtX(fr, i, l, Chunks) = x /\ AtZ(fr, i, l, Chunks) = z
    BY <1>4, <1>7, <1>8, <1>9 DEF AtX, AtZ
  <1> HIDE DEF fr, i, l
  <1>13. w = Stands(fr, i, l, hd[1], hd[2])
    BY <1>3, <1>4, <1>9, <1>10, <1>11, <1>12 DEF Stands
  <1> QED
    BY <1>5, <1>6, <1>13 DEF fr, i, l

\* Where a walk is, step by step
WalkIsOnItsWay ==
    /\ start \in Starts /\ heading \in Headings \X Signs
    /\ taken \in 0..4 * Chunks
    /\ StandsAfter(FrameOf(start, heading), AheadOf(start, heading), AsideOf(start, heading),
                   heading[1], heading[2], taken, walker)
    /\ taken > 0 =>
        \E g \in Frames, i \in Lanes :
            /\ before = Stands(g, i, AsideOf(start, heading), heading[1], heading[2])
            /\ walker = StepAlong(heading[1], before, heading[2])

LEMMA WalkInitially == CubeInit => WalkIsOnItsWay
  <1> SUFFICES ASSUME CubeInit PROVE WalkIsOnItsWay
    OBVIOUS
  <1>1. start \in Starts /\ heading \in Headings \X Signs /\ walker = start /\ taken = 0
    BY DEF CubeInit, Headings, Signs
  <1>2. heading[1] \in Headings /\ heading[2] \in Signs
    BY <1>1
  <1>3. taken \in 0..4 * Chunks /\ ~(taken > 0)
    BY <1>1, CubeNetAssumption
  <1>4. StandsAfter(FrameOf(start, heading), AheadOf(start, heading), AsideOf(start, heading),
                    heading[1], heading[2], 0, start)
    BY <1>1, <1>2, StartStands, StandsAtFirst
  <1> QED
    BY <1>1, <1>3, <1>4 DEF WalkIsOnItsWay

LEMMA ModRound ==
    ASSUME NEW m \in Nat \ {0}, NEW a \in 0..m
    PROVE  a % m = IF a = m THEN 0 ELSE a
  OBVIOUS

LEMMA WalkStaysOnItsWay == WalkIsOnItsWay /\ [CubeNext]_cube_vars => WalkIsOnItsWay'
  <1> SUFFICES ASSUME WalkIsOnItsWay, [CubeNext]_cube_vars PROVE WalkIsOnItsWay'
    OBVIOUS
  <1>1. CASE UNCHANGED cube_vars
    BY <1>1 DEF WalkIsOnItsWay, cube_vars
  <1>2. CASE CubeNext
    <2> DEFINE fr == FrameOf(start, heading)
               i0 == AheadOf(start, heading)
               l == AsideOf(start, heading)
               h == heading[1]
               s == heading[2]
               m == 4 * Chunks
               t == taken % m
    <2>1. /\ start' = start /\ heading' = heading /\ before' = walker
          /\ walker' = StepAlong(h, walker, s) /\ taken' = t + 1
      BY <1>2 DEF CubeNext, WalkOn, Ahead, StepAlong
    <2>2. start \in Starts /\ heading \in Headings \X Signs /\ h \in Headings /\ s \in Signs
      BY DEF WalkIsOnItsWay
    <2>3. fr \in Frames /\ i0 \in Lanes /\ l \in Lanes /\ start = Stands(fr, i0, l, h, s)
      BY <2>2, StartStands
    <2>4. m \in Nat \ {0} /\ taken \in 0..m
      BY CubeNetAssumption DEF WalkIsOnItsWay
    <2>5. t = (IF taken = m THEN 0 ELSE taken) /\ t \in 0..m - 1
      <3> HIDE DEF m
      <3>1. taken % m = IF taken = m THEN 0 ELSE taken
        BY <2>4, ModRound
      <3> QED
        BY <2>4, <3>1
    <2>6. StandsAfter(fr, i0, l, h, s, taken, walker)
      BY DEF WalkIsOnItsWay
    <2> HIDE DEF fr, i0, l, h, s, t
    <2>7. StandsAfter(fr, i0, l, h, s, t, walker)
      <3>1. CASE taken = m
        <4>1. walker = Stands(fr, i0, l, h, s)
          BY <2>2, <2>3, <2>6, <3>1, RoundOnce
        <4> QED
          BY <2>2, <2>3, <2>5, <3>1, <4>1, StandsAtFirst
      <3>2. CASE taken # m
        BY <2>5, <2>6, <3>2
      <3> QED
        BY <3>1, <3>2
    <2>8. /\ StandsAfter(fr, i0, l, h, s, t + 1, StepAlong(h, walker, s))
          /\ \E g \in Frames, i \in Lanes : walker = Stands(g, i, l, h, s)
      BY <2>2, <2>3, <2>5, <2>7, OneMoreStep
    <2>9. t + 1 \in 0..m
      BY <2>4, <2>5
    <2>10. \E g \in Frames, i \in Lanes :
              before' = Stands(g, i, l, h, s) /\ walker' = StepAlong(h, before', s)
      BY <2>1, <2>8
    <2>11. StandsAfter(fr, i0, l, h, s, taken', walker')
      BY <2>1, <2>8
    <2> QED
      BY <2>1, <2>2, <2>9, <2>10, <2>11 DEF WalkIsOnItsWay, fr, i0, l, h, s
  <1> QED
    BY <1>1, <1>2

LEMMA WalkGoesStraight == WalkIsOnItsWay => WalksGoStraight
  <1> SUFFICES ASSUME WalkIsOnItsWay PROVE WalksGoStraight
    OBVIOUS
  <1> DEFINE l == AsideOf(start, heading)
             h == heading[1]
             s == heading[2]
  <1>1. start \in Starts /\ heading \in Headings \X Signs /\ h \in Headings /\ s \in Signs
    BY DEF WalkIsOnItsWay
  <1>2. /\ FrameOf(start, heading) \in Frames /\ AheadOf(start, heading) \in Lanes /\ l \in Lanes
        /\ start = Stands(FrameOf(start, heading), AheadOf(start, heading), l, h, s)
    BY <1>1, StartStands
  <1>3. Ahead = StepAlong(h, walker, s)
    BY DEF Ahead, StepAlong
  <1>4. ASSUME taken > 0
        PROVE  LET shared == ChunkCorners(before) \cap ChunkCorners(walker)
               IN  Cardinality(shared) = 2 /\ shared \cap ChunkCorners(Ahead) = {}
    <2>1. PICK g \in Frames, i \in Lanes :
              before = Stands(g, i, l, h, s) /\ walker = StepAlong(h, before, s)
      BY <1>4 DEF WalkIsOnItsWay
    <2> HIDE DEF l, h, s
    <2> QED
      BY <1>1, <1>2, <1>3, <2>1, StepsGoStraight
  <1>5. ASSUME taken = 4 * Chunks PROVE walker = start
    <2>1. StandsAfter(FrameOf(start, heading), AheadOf(start, heading), l, h, s, 4 * Chunks, walker)
      BY <1>5 DEF WalkIsOnItsWay
    <2> HIDE DEF l, h, s
    <2> QED
      BY <1>1, <1>2, <2>1, RoundOnce
  <1> QED
    BY <1>4, <1>5 DEF WalksGoStraight

-----------------------------------------------------------------------------
(* The streamed area *)

LEMMA UpTo ==
    ASSUME NEW n \in Nat, NEW T, 0 \in T, \A i \in 1..n : i - 1 \in T => i \in T
    PROVE  0..n \subseteq T
  <1> DEFINE Out == (0..n) \ T
  <1> SUFFICES ASSUME Out # {} PROVE FALSE
    OBVIOUS
  <1>1. Out \subseteq Nat
    OBVIOUS
  <1>2. PICK k \in Out : \A m \in Out : k <= m
    BY <1>1, LeastNatural
  <1>3. k \in 1..n /\ k - 1 \in 0..n /\ ~(k <= k - 1)
    BY <1>2
  <1>4. k - 1 \in T
    BY <1>2, <1>3
  <1> QED
    BY <1>2, <1>3, <1>4

WalkAlong(h, w, delta) == IF h = "x" THEN WalkX(w, delta) ELSE WalkZ(w, delta)

\* A walk is where any path leads that takes its steps.
LEMMA WalkFollows ==
    ASSUME NEW h \in Headings, NEW w, NEW delta \in Int, NEW path, path[0] = w,
           \A i \in 1..Abs(delta) : path[i] = StepAlong(h, path[i - 1], Sign(delta))
    PROVE  WalkAlong(h, w, delta) = path[Abs(delta)]
  <1> DEFINE n == Abs(delta)
             s == Sign(delta)
             After == CHOOSE f : f = [i \in 0..n |-> IF i = 0 THEN w ELSE StepAlong(h, f[i - 1], s)]
             g == [i \in 0..n |-> path[i]]
  <1>1. n \in Nat
    BY DEF Abs
  <1>2. WalkAlong(h, w, delta) = After[n]
    <2>1. CASE h = "x"
      BY <2>1 DEF WalkAlong, WalkX, StepAlong
    <2>2. CASE h = "z"
      BY <2>2 DEF WalkAlong, WalkZ, StepAlong
    <2> QED
      BY <2>1, <2>2 DEF Headings
  <1>3. g = [i \in 0..n |-> IF i = 0 THEN w ELSE StepAlong(h, g[i - 1], s)]
    <2> DEFINE k == [i \in 0..n |-> IF i = 0 THEN w ELSE StepAlong(h, g[i - 1], s)]
    <2>1. ASSUME NEW i \in 0..n PROVE g[i] = k[i]
      <3>1. CASE i = 0
        BY <3>1
      <3>2. CASE i # 0
        <4>1. i \in 1..n /\ i - 1 \in 0..n
          BY <1>1, <3>2
        <4> QED
          BY <3>2, <4>1
      <3> QED
        BY <3>1, <3>2
    <2> QED
      BY <2>1
  <1> HIDE DEF g
  <1>4. After = [i \in 0..n |-> IF i = 0 THEN w ELSE StepAlong(h, After[i - 1], s)]
    BY <1>3
  <1> HIDE DEF After
  <1>5. After[0] = w /\ \A i \in 1..n : After[i] = StepAlong(h, After[i - 1], s)
    BY <1>1, <1>4
  <1> DEFINE T == {i \in 0..n : After[i] = path[i]}
  <1>6. 0 \in T
    BY <1>1, <1>5
  <1>7. ASSUME NEW i \in 1..n, i - 1 \in T PROVE i \in T
    BY <1>1, <1>5, <1>7
  <1> HIDE DEF T, n, s
  <1>8. 0..n \subseteq T
    BY <1>1, <1>6, <1>7, UpTo
  <1>9. After[n] = path[n]
    BY <1>1, <1>8 DEF T
  <1> QED
    BY <1>2, <1>9 DEF n

Back(fr) == Reverse(OnwardFrame(Reverse(fr)))

LEMMA BackAndForth ==
    ASSUME NEW fr \in Frames
    PROVE  /\ Back(fr) \in Frames
           /\ OnwardFrame(Back(fr)) = fr
           /\ Back(OnwardFrame(fr)) = fr
  <1>1. Back(fr) \in Frames
    BY OnwardIsFrame, ReverseIsFrame DEF Back
  <1>2. OnwardFrame(Back(fr)) = fr
    BY ThereAndBack DEF Back
  <1>3. Back(OnwardFrame(fr)) = fr
    <2> DEFINE r == Reverse(fr)
    <2>1. r \in Frames /\ Reverse(r) = fr
      BY ReverseIsFrame
    <2> HIDE DEF r
    <2>2. OnwardFrame(Reverse(OnwardFrame(Reverse(r)))) = r
      BY <2>1, ThereAndBack
    <2> QED
      BY <2>1, <2>2 DEF Back
  <1> QED
    BY <1>1, <1>2, <1>3

LEMMA StepBack ==
    ASSUME NEW fr \in Frames, NEW i \in Lanes, NEW l \in Lanes, NEW h \in Headings
    PROVE  StepAlong(h, Stands(fr, i, l, h, 1), -1)
             = IF i > 0 THEN Stands(fr, i - 1, l, h, 1) ELSE Stands(Back(fr), Chunks - 1, l, h, 1)
  <1> DEFINE r == Reverse(fr)
             o == OnwardFrame(r)
             one == 1
             m == -one
             j == Chunks - 1 - i
  <1>1. Chunks \in Nat \ {0} /\ i \in 0..Chunks - 1 /\ Lanes = 0..Chunks - 1
    BY CubeNetAssumption DEF Lanes
  <1>2. m \in Signs /\ 1 \in Signs /\ -1 = m
    BY DEF Signs
  <1>3. j \in Lanes
    BY <1>1
  <1>4. r \in Frames /\ Reverse(r) = fr /\ o \in Frames
    BY ReverseIsFrame, OnwardIsFrame
  <1>5. -m = 1
    <2>1. one \in Int /\ one = 1
      OBVIOUS
    <2> HIDE DEF one
    <2>2. -m = one
      BY <2>1, NegatedTwice
    <2> QED
      BY <2>1, <2>2
  <1>6. Stands(fr, i, l, h, 1) = Stands(r, j, l, h, m)
    BY <1>2, StandsReversed
  <1> HIDE DEF m
  <1>7. StepAlong(h, Stands(r, j, l, h, m), m) =
            IF j + 1 < Chunks THEN Stands(r, j + 1, l, h, m) ELSE Stands(o, 0, l, h, m)
    <2> HIDE DEF r, j
    <2> QED
      BY <1>2, <1>3, <1>4, StepAhead DEF o
  <1>8. CASE i > 0
    <2>1. j + 1 < Chunks /\ j + 1 \in Lanes /\ Chunks - 1 - (j + 1) = i - 1
      BY <1>1, <1>8
    <2>2. Stands(Reverse(r), Chunks - 1 - (j + 1), l, h, -m) = Stands(r, j + 1, l, h, m)
      <3> HIDE DEF r, j
      <3> QED
        BY <1>2, <1>4, <2>1, StandsReversed
    <2> HIDE DEF r, j
    <2>3. Stands(r, j + 1, l, h, m) = Stands(fr, i - 1, l, h, 1)
      BY <1>4, <1>5, <2>1, <2>2
    <2> QED
      BY <1>2, <1>6, <1>7, <1>8, <2>1, <2>3
  <1>9. CASE ~(i > 0)
    <2>1. ~(j + 1 < Chunks) /\ 0 \in Lanes /\ Chunks - 1 - 0 = Chunks - 1
      BY <1>1, <1>9
    <2> HIDE DEF o
    <2>2. Stands(Reverse(o), Chunks - 1 - 0, l, h, -m) = Stands(o, 0, l, h, m)
      BY <1>2, <1>4, <2>1, StandsReversed
    <2>3. Back(fr) = Reverse(o)
      BY DEF Back, o
    <2> HIDE DEF r, j
    <2> QED
      BY <1>2, <1>5, <1>6, <1>7, <1>9, <2>1, <2>2, <2>3
  <1> QED
    BY <1>8, <1>9

\* The line of chunks through three faces, of which fr is the middle one
Band(fr, t, l, h) ==
    IF t < 0 THEN Stands(Back(fr), Chunks + t, l, h, 1)
    ELSE IF t < Chunks THEN Stands(fr, t, l, h, 1)
    ELSE Stands(OnwardFrame(fr), t - Chunks, l, h, 1)

Reach == -Chunks..2 * Chunks - 1

LEMMA BandSteps ==
    ASSUME NEW fr \in Frames, NEW t \in Reach, NEW l \in Lanes, NEW h \in Headings,
           NEW r \in Signs, t + r \in Reach
    PROVE  StepAlong(h, Band(fr, t, l, h), r) = Band(fr, t + r, l, h)
  <1> DEFINE n == Chunks
             b == Back(fr)
             o == OnwardFrame(fr)
  <1>1. n \in Nat \ {0} /\ Lanes = 0..n - 1 /\ t \in Int /\ t + r \in Int
        /\ -n <= t /\ t <= 2 * n - 1 /\ -n <= t + r /\ t + r <= 2 * n - 1
    BY CubeNetAssumption DEF Lanes, Reach, Signs
  <1>2. b \in Frames /\ o \in Frames /\ OnwardFrame(b) = fr /\ Back(o) = fr
    BY BackAndForth, OnwardIsFrame
  <1>3. 1 \in Signs
    BY DEF Signs
  <1>4. \A g \in Frames, i \in Lanes : StepAlong(h, Stands(g, i, l, h, 1), 1) =
            IF i + 1 < n THEN Stands(g, i + 1, l, h, 1) ELSE Stands(OnwardFrame(g), 0, l, h, 1)
    BY <1>3, StepAhead
  <1>5. \A g \in Frames, i \in Lanes : StepAlong(h, Stands(g, i, l, h, 1), -1) =
            IF i > 0 THEN Stands(g, i - 1, l, h, 1) ELSE Stands(Back(g), n - 1, l, h, 1)
    BY StepBack
  <1> HIDE DEF b, o
  <1>6. CASE r = 1
    <2>1. CASE t < 0
      <3>1. n + t \in Lanes
        BY <1>1, <2>1
      <3>2. CASE t < -1
        <4>1. (n + t) + 1 < n /\ (n + t) + 1 = n + (t + 1) /\ t + 1 < 0
          BY <1>1, <3>2
        <4> QED
          BY <1>2, <1>4, <1>6, <2>1, <3>1, <4>1 DEF Band, b
      <3>3. CASE ~(t < -1)
        <4>1. ~((n + t) + 1 < n) /\ t + 1 = 0 /\ 0 < n /\ ~(0 < 0)
          BY <1>1, <2>1, <3>3
        <4> QED
          BY <1>2, <1>4, <1>6, <2>1, <3>1, <4>1 DEF Band, b
      <3> QED
        BY <3>2, <3>3
    <2>2. CASE ~(t < 0) /\ t < n
      <3>1. t \in Lanes /\ ~(t + 1 < 0) /\ (~(t + 1 < n) => (t + 1) - n = 0)
        BY <1>1, <2>2
      <3>2. StepAlong(h, Stands(fr, t, l, h, 1), 1) =
              IF t + 1 < n THEN Stands(fr, t + 1, l, h, 1) ELSE Stands(OnwardFrame(fr), 0, l, h, 1)
        BY <1>4, <3>1
      <3>3. Band(fr, t, l, h) = Stands(fr, t, l, h, 1)
        BY <2>2 DEF Band
      <3>4. Band(fr, t + 1, l, h) =
              IF t + 1 < n THEN Stands(fr, t + 1, l, h, 1) ELSE Stands(OnwardFrame(fr), 0, l, h, 1)
        <4>1. CASE t + 1 < n
          BY <3>1, <4>1 DEF Band
        <4>2. CASE ~(t + 1 < n)
          <5>1. (t + 1) - n = 0
            BY <3>1, <4>2
          <5>2. Band(fr, t + 1, l, h) = Stands(OnwardFrame(fr), (t + 1) - n, l, h, 1)
            BY <1>1, <3>1, <4>2 DEF Band
          <5>3. Band(fr, t + 1, l, h) = Stands(OnwardFrame(fr), 0, l, h, 1)
            BY <5>1, <5>2
          <5> QED
            BY <4>2, <5>3
        <4> QED
          BY <4>1, <4>2
      <3> QED
        BY <1>6, <3>2, <3>3, <3>4
    <2>3. CASE ~(t < n)
      <3>1. t - n \in Lanes /\ (t - n) + 1 < n /\ (t - n) + 1 = (t + 1) - n
            /\ ~(t < 0) /\ ~(t + 1 < 0) /\ ~(t + 1 < n)
        BY <1>1, <1>6, <2>3
      <3> QED
        BY <1>2, <1>4, <1>6, <2>3, <3>1 DEF Band, o
    <2> QED
      BY <1>1, <2>1, <2>2, <2>3
  <1>7. CASE r = -1
    <2>1. CASE t < 0
      <3>1. n + t \in Lanes /\ n + t > 0 /\ (n + t) - 1 = n + (t + r) /\ t + r < 0
        BY <1>1, <1>7, <2>1
      <3> QED
        BY <1>2, <1>5, <1>7, <2>1, <3>1 DEF Band, b
    <2>2. CASE ~(t < 0) /\ t < n
      <3>1. CASE t > 0
        <4>1. t \in Lanes /\ t - 1 = t + r /\ ~(t + r < 0) /\ t + r < n
          BY <1>1, <1>7, <2>2, <3>1
        <4> QED
          BY <1>5, <1>7, <2>2, <3>1, <4>1 DEF Band
      <3>2. CASE ~(t > 0)
        <4>1. t \in Lanes /\ t + r < 0 /\ n - 1 = n + (t + r)
          BY <1>1, <1>7, <2>2, <3>2
        <4> QED
          BY <1>5, <1>7, <2>2, <3>2, <4>1 DEF Band
      <3> QED
        BY <3>1, <3>2
    <2>3. CASE ~(t < n)
      <3>1. CASE t = n
        <4>1. t - n \in Lanes /\ ~(t - n > 0) /\ t + r < n /\ ~(t + r < 0) /\ t + r = n - 1 /\ ~(t < 0)
          BY <1>1, <1>7, <3>1
        <4>2. StepAlong(h, Stands(o, t - n, l, h, 1), -1) = Stands(fr, n - 1, l, h, 1)
          BY <1>2, <1>5, <4>1
        <4>3. Band(fr, t, l, h) = Stands(o, t - n, l, h, 1)
          BY <2>3, <4>1 DEF Band, o
        <4>4. Band(fr, t + r, l, h) = Stands(fr, n - 1, l, h, 1)
          BY <4>1 DEF Band
        <4> QED
          BY <1>7, <4>2, <4>3, <4>4
      <3>2. CASE t # n
        <4>1. t - n \in Lanes /\ t - n > 0 /\ ~(t + r < n) /\ ~(t + r < 0) /\ (t - n) - 1 = (t + r) - n
              /\ ~(t < 0)
          BY <1>1, <1>7, <2>3, <3>2
        <4>2. StepAlong(h, Stands(o, t - n, l, h, 1), -1) = Stands(o, (t - n) - 1, l, h, 1)
          BY <1>2, <1>5, <4>1
        <4>3. Band(fr, t, l, h) = Stands(o, t - n, l, h, 1)
          BY <2>3, <4>1 DEF Band, o
        <4>4. Band(fr, t + r, l, h) = Stands(o, (t + r) - n, l, h, 1)
          <5> DEFINE u == t + r
          <5>1. u \in Int /\ ~(u < n) /\ ~(u < 0)
            BY <1>1, <4>1
          <5> HIDE DEF u
          <5>2. Band(fr, u, l, h) = Stands(o, u - n, l, h, 1)
            BY <1>1, <5>1 DEF Band, o
          <5> QED
            BY <5>2 DEF u
        <4>5. (t - n) - 1 = (t + r) - n
          BY <4>1
        <4>6. Stands(o, (t - n) - 1, l, h, 1) = Stands(o, (t + r) - n, l, h, 1)
          BY <4>5
        <4> QED
          BY <1>7, <4>2, <4>3, <4>4, <4>6
      <3> QED
        BY <3>1, <3>2
    <2> QED
      BY <1>1, <2>1, <2>2, <2>3
  <1> QED
    BY <1>6, <1>7 DEF Signs

LEMMA BandAside ==
    ASSUME NEW fr \in Frames, NEW t \in Reach, NEW l \in Lanes, NEW h \in Headings,
           NEW r \in Signs, l + r \in Lanes
    PROVE  StepAlong(Other(h), Band(fr, t, l, h), r) = Band(fr, t, l + r, h)
  <1>1. Chunks \in Nat \ {0} /\ Lanes = 0..Chunks - 1
    BY CubeNetAssumption DEF Lanes
  <1>2. Back(fr) \in Frames /\ OnwardFrame(fr) \in Frames /\ 1 \in Signs
    BY BackAndForth, OnwardIsFrame DEF Signs
  <1>3. CASE t < 0
    <2>1. Chunks + t \in Lanes
      BY <1>1, <1>3 DEF Reach
    <2> QED
      BY <1>2, <1>3, <2>1, StepAside DEF Band
  <1>4. CASE ~(t < 0) /\ t < Chunks
    <2>1. t \in Lanes
      BY <1>1, <1>4 DEF Reach
    <2> QED
      BY <1>2, <1>4, <2>1, StepAside DEF Band
  <1>5. CASE ~(t < Chunks)
    <2>1. t - Chunks \in Lanes /\ ~(t < 0)
      BY <1>1, <1>5 DEF Reach
    <2> QED
      BY <1>2, <1>5, <2>1, StepAside DEF Band
  <1> QED
    BY <1>3, <1>4, <1>5

LEMMA WalkParts ==
    ASSUME NEW delta \in Int
    PROVE  /\ Abs(delta) \in Nat /\ Sign(delta) \in Signs
           /\ Sign(delta) * Abs(delta) = delta
           /\ \A i \in 1..Abs(delta) : Sign(delta) * i = Sign(delta) * (i - 1) + Sign(delta)
           /\ \A i \in 0..Abs(delta) : \/ 0 <= Sign(delta) * i /\ Sign(delta) * i <= delta
                                       \/ delta <= Sign(delta) * i /\ Sign(delta) * i <= 0
           /\ \A i \in 0..Abs(delta) : Sign(delta) * i \in Int
           /\ Sign(delta) * 0 = 0
  BY DEF Abs, Sign, Signs

LEMMA BandWalk ==
    ASSUME NEW fr \in Frames, NEW t \in Reach, NEW l \in Lanes, NEW h \in Headings,
           NEW delta \in Int, t + delta \in Reach
    PROVE  WalkAlong(h, Band(fr, t, l, h), delta) = Band(fr, t + delta, l, h)
  <1> DEFINE s == Sign(delta)
             n == Abs(delta)
             path == [i \in 0..n |-> Band(fr, t + s * i, l, h)]
  <1>1. n \in Nat /\ s \in Signs /\ s * n = delta /\ s * 0 = 0 /\ t + 0 = t
    BY WalkParts DEF Reach
  <1>2. ASSUME NEW i \in 0..n PROVE t + s * i \in Reach
    BY WalkParts, CubeNetAssumption DEF Reach
  <1>3. ASSUME NEW i \in 1..n PROVE path[i] = StepAlong(h, path[i - 1], s)
    <2>1. i \in 0..n /\ i - 1 \in 0..n
      BY <1>1
    <2>2. t + s * i = (t + s * (i - 1)) + s
      <3>1. s * i = s * (i - 1) + s /\ s * (i - 1) \in Int /\ s \in Int /\ t \in Int
        BY <2>1, WalkParts DEF Reach, Signs
      <3> HIDE DEF s
      <3> QED
        BY <3>1
    <2>3. t + s * (i - 1) \in Reach /\ (t + s * (i - 1)) + s \in Reach
      BY <1>2, <2>1, <2>2
    <2>4. StepAlong(h, Band(fr, t + s * (i - 1), l, h), s) = Band(fr, (t + s * (i - 1)) + s, l, h)
      BY <1>1, <2>3, BandSteps
    <2> QED
      BY <2>1, <2>2, <2>4
  <1>4. path[0] = Band(fr, t, l, h) /\ path[n] = Band(fr, t + delta, l, h)
    BY <1>1
  <1> HIDE DEF path
  <1> QED
    BY <1>3, <1>4, WalkFollows

LEMMA BandWalkAside ==
    ASSUME NEW fr \in Frames, NEW t \in Reach, NEW l \in Lanes, NEW h \in Headings,
           NEW delta \in Int, l + delta \in Lanes
    PROVE  WalkAlong(Other(h), Band(fr, t, l, h), delta) = Band(fr, t, l + delta, h)
  <1> DEFINE s == Sign(delta)
             n == Abs(delta)
             path == [i \in 0..n |-> Band(fr, t, l + s * i, h)]
  <1>1. n \in Nat /\ s \in Signs /\ s * n = delta /\ s * 0 = 0 /\ l + 0 = l /\ Other(h) \in Headings
    BY WalkParts DEF Lanes, Other, Headings
  <1>2. ASSUME NEW i \in 0..n PROVE l + s * i \in Lanes
    BY WalkParts, CubeNetAssumption DEF Lanes
  <1>3. ASSUME NEW i \in 1..n PROVE path[i] = StepAlong(Other(h), path[i - 1], s)
    <2>1. i \in 0..n /\ i - 1 \in 0..n
      BY <1>1
    <2>2. l + s * i = (l + s * (i - 1)) + s
      <3>1. s * i = s * (i - 1) + s /\ s * (i - 1) \in Int /\ s \in Int /\ l \in Int
        BY <2>1, WalkParts DEF Lanes, Signs
      <3> HIDE DEF s
      <3> QED
        BY <3>1
    <2>3. l + s * (i - 1) \in Lanes /\ (l + s * (i - 1)) + s \in Lanes
      BY <1>2, <2>1, <2>2
    <2>4. StepAlong(Other(h), Band(fr, t, l + s * (i - 1), h), s)
            = Band(fr, t, (l + s * (i - 1)) + s, h)
      BY <1>1, <2>3, BandAside
    <2> QED
      BY <2>1, <2>2, <2>4
  <1>4. path[0] = Band(fr, t, l, h) /\ path[n] = Band(fr, t, l + delta, h)
    BY <1>1
  <1> HIDE DEF path
  <1> QED
    BY <1>1, <1>3, <1>4, WalkFollows

Around == -StreamRadius..StreamRadius

\* The streamed area lies along a band, with the walker in the middle.
SpreadsOut(w, fr, t, l, h) ==
    /\ \A d \in Around : t + d \in Reach /\ l + d \in Lanes
    /\ \A dx, dz \in Around :
          OffsetChunkAddress(w, dx, dz) =
             IF h = "x" THEN Band(fr, t + dx, l + dz, h) ELSE Band(fr, t + dz, l + dx, h)

LEMMA AreaSpreadsOut ==
    ASSUME NEW w \in Starts, AwayFromCorners(w)
    PROVE  \E fr \in Frames, t \in Reach, l \in Lanes, h \in Headings : SpreadsOut(w, fr, t, l, h)
  <1>1. PICK h \in Headings : \A d \in Around : AsideOf(w, <<h, 1>>) + d \in 0..Chunks - 1
    <2>1. PICK c \in {w.x, w.z} : {c - StreamRadius, c + StreamRadius} \subseteq 0..(Chunks - 1)
      BY DEF AwayFromCorners
    <2>2. w.x \in Int /\ w.z \in Int
      BY DEF Starts, WalkerAt
    <2>3. Chunks \in Nat /\ StreamRadius \in Nat
      BY CubeNetAssumption DEF StreamRadius
    <2>4. c - StreamRadius \in 0..(Chunks - 1) /\ c + StreamRadius \in 0..(Chunks - 1) /\ c \in Int
      BY <2>1, <2>2
    <2>5. \A d \in Around : c + d \in 0..Chunks - 1
      BY <2>3, <2>4 DEF Around
    <2>6. CASE c = w.z
      BY <2>5, <2>6 DEF AsideOf, Headings
    <2>7. CASE c = w.x
      BY <2>5, <2>7 DEF AsideOf, Headings
    <2> QED
      BY <2>1, <2>6, <2>7
  <1> DEFINE hd == <<h, 1>>
             fr == FrameOf(w, hd)
             t == AheadOf(w, hd)
             l == AsideOf(w, hd)
  <1>2. hd \in Headings \X Signs /\ hd[1] = h /\ hd[2] = 1
    BY DEF Signs
  <1>3. fr \in Frames /\ t \in Lanes /\ l \in Lanes /\ w = Stands(fr, t, l, h, 1)
    BY <1>2, StartStands
  <1>4. Chunks \in Nat \ {0} /\ StreamRadius \in Nat /\ Lanes = 0..Chunks - 1
        /\ \A d \in Around : l + d \in Lanes
    BY <1>1, CubeNetAssumption DEF Lanes, StreamRadius
  <1> HIDE DEF hd, fr, t, l
  <1>5. StreamRadius < Chunks
    <2>1. StreamRadius \in Around
      BY <1>4 DEF Around
    <2>2. -StreamRadius \in Around
      BY <1>4 DEF Around
    <2>3. l + StreamRadius \in 0..Chunks - 1 /\ l + (-StreamRadius) \in 0..Chunks - 1
      BY <1>4, <2>1, <2>2
    <2> QED
      BY <1>3, <1>4, <2>3
  <1>6. t \in Reach /\ \A d \in Around : t + d \in Reach /\ l + d \in Lanes /\ d \in Int
    <2>1. t \in Reach
      BY <1>3, <1>4 DEF Reach
    <2>2. ASSUME NEW d \in Around PROVE t + d \in Reach /\ d \in Int
      <3>1. d \in Int /\ -StreamRadius <= d /\ d <= StreamRadius
        BY <1>4 DEF Around
      <3>2. t \in Int /\ 0 <= t /\ t <= Chunks - 1
        BY <1>3, <1>4
      <3> QED
        BY <1>4, <1>5, <3>1, <3>2 DEF Reach
    <2> QED
      BY <1>4, <2>1, <2>2
  <1>7. w = Band(fr, t, l, h)
    BY <1>3, <1>4 DEF Band
  <1>8. ASSUME NEW dx \in Around, NEW dz \in Around
        PROVE  OffsetChunkAddress(w, dx, dz) =
                 IF h = "x" THEN Band(fr, t + dx, l + dz, h) ELSE Band(fr, t + dz, l + dx, h)
    <2>1. CASE h = "x"
      <3>1. WalkX(w, dx) = Band(fr, t + dx, l, h)
        <4>1. WalkAlong(h, Band(fr, t, l, h), dx) = Band(fr, t + dx, l, h)
          BY <1>3, <1>6, BandWalk
        <4> QED
          BY <1>7, <2>1, <4>1 DEF WalkAlong
      <3>2. WalkZ(Band(fr, t + dx, l, h), dz) = Band(fr, t + dx, l + dz, h)
        <4>1. WalkAlong(Other(h), Band(fr, t + dx, l, h), dz) = Band(fr, t + dx, l + dz, h)
          BY <1>3, <1>6, BandWalkAside
        <4> QED
          BY <2>1, <4>1 DEF WalkAlong, Other
      <3> QED
        BY <2>1, <3>1, <3>2 DEF OffsetChunkAddress
    <2>2. CASE h = "z"
      <3>1. WalkX(w, dx) = Band(fr, t, l + dx, h)
        <4>1. WalkAlong(Other(h), Band(fr, t, l, h), dx) = Band(fr, t, l + dx, h)
          BY <1>3, <1>6, BandWalkAside
        <4> QED
          BY <1>7, <2>2, <4>1 DEF WalkAlong, Other
      <3>2. WalkZ(Band(fr, t, l + dx, h), dz) = Band(fr, t + dz, l + dx, h)
        <4>1. WalkAlong(h, Band(fr, t, l + dx, h), dz) = Band(fr, t + dz, l + dx, h)
          BY <1>3, <1>6, BandWalk
        <4> QED
          BY <2>2, <4>1 DEF WalkAlong
      <3> QED
        BY <2>2, <3>1, <3>2 DEF OffsetChunkAddress
    <2> QED
      BY <2>1, <2>2 DEF Headings
  <1> QED
    BY <1>3, <1>6, <1>8 DEF SpreadsOut

LEMMA HaloIsThere ==
    ASSUME NEW w \in Starts, AwayFromCorners(w),
           NEW dx \in -Radius..Radius, NEW dz \in -Radius..Radius, NEW sign \in {-1, 1}
    PROVE  LET a == OffsetChunkAddress(w, dx, dz)
           IN  {Place(StepX(a, sign)), Place(StepZ(a, sign))} \subseteq StreamChunks(w)
  <1> DEFINE a == OffsetChunkAddress(w, dx, dz)
  <1>1. PICK fr \in Frames, t \in Reach, l \in Lanes, h \in Headings : SpreadsOut(w, fr, t, l, h)
    BY AreaSpreadsOut
  <1>2. Radius \in Nat /\ StreamRadius = Radius + 1
    BY CubeNetAssumption DEF StreamRadius
  <1>3. /\ dx \in Around /\ dz \in Around /\ dx + sign \in Around /\ dz + sign \in Around
        /\ dx \in Int /\ dz \in Int /\ sign \in Int /\ sign \in Signs
    BY <1>2 DEF Around, Signs
  <1>4. /\ t + dx \in Reach /\ l + dz \in Lanes /\ t + dz \in Reach /\ l + dx \in Lanes
        /\ t + (dx + sign) \in Reach /\ l + (dz + sign) \in Lanes
        /\ t + (dz + sign) \in Reach /\ l + (dx + sign) \in Lanes
    BY <1>1, <1>3 DEF SpreadsOut
  <1>5. /\ (t + dx) + sign = t + (dx + sign) /\ (t + dz) + sign = t + (dz + sign)
        /\ (l + dx) + sign = l + (dx + sign) /\ (l + dz) + sign = l + (dz + sign)
    BY <1>3 DEF Reach, Lanes
  <1>6. StepX(a, sign) = OffsetChunkAddress(w, dx + sign, dz)
    <2>1. CASE h = "x"
      <3>1. a = Band(fr, t + dx, l + dz, h)
            /\ OffsetChunkAddress(w, dx + sign, dz) = Band(fr, t + (dx + sign), l + dz, h)
        BY <1>1, <1>3, <2>1 DEF SpreadsOut
      <3>2. StepAlong(h, Band(fr, t + dx, l + dz, h), sign) = Band(fr, (t + dx) + sign, l + dz, h)
        BY <1>3, <1>4, <1>5, BandSteps
      <3> QED
        BY <1>5, <2>1, <3>1, <3>2 DEF StepAlong
    <2>2. CASE h = "z"
      <3>1. a = Band(fr, t + dz, l + dx, h)
            /\ OffsetChunkAddress(w, dx + sign, dz) = Band(fr, t + dz, l + (dx + sign), h)
        BY <1>1, <1>3, <2>2 DEF SpreadsOut
      <3>2. StepAlong(Other(h), Band(fr, t + dz, l + dx, h), sign) = Band(fr, t + dz, (l + dx) + sign, h)
        BY <1>3, <1>4, <1>5, BandAside
      <3> QED
        BY <1>5, <2>2, <3>1, <3>2 DEF StepAlong, Other
    <2> QED
      BY <2>1, <2>2 DEF Headings
  <1>7. StepZ(a, sign) = OffsetChunkAddress(w, dx, dz + sign)
    <2>1. CASE h = "x"
      <3>1. a = Band(fr, t + dx, l + dz, h)
            /\ OffsetChunkAddress(w, dx, dz + sign) = Band(fr, t + dx, l + (dz + sign), h)
        BY <1>1, <1>3, <2>1 DEF SpreadsOut
      <3>2. StepAlong(Other(h), Band(fr, t + dx, l + dz, h), sign) = Band(fr, t + dx, (l + dz) + sign, h)
        BY <1>3, <1>4, <1>5, BandAside
      <3> QED
        BY <1>5, <2>1, <3>1, <3>2 DEF StepAlong, Other
    <2>2. CASE h = "z"
      <3>1. a = Band(fr, t + dz, l + dx, h)
            /\ OffsetChunkAddress(w, dx, dz + sign) = Band(fr, t + (dz + sign), l + dx, h)
        BY <1>1, <1>3, <2>2 DEF SpreadsOut
      <3>2. StepAlong(h, Band(fr, t + dz, l + dx, h), sign) = Band(fr, (t + dz) + sign, l + dx, h)
        BY <1>3, <1>4, <1>5, BandSteps
      <3> QED
        BY <1>5, <2>2, <3>1, <3>2 DEF StepAlong
    <2> QED
      BY <2>1, <2>2 DEF Headings
  <1> HIDE DEF a
  <1>8. Place(StepX(a, sign)) \in StreamChunks(w) /\ Place(StepZ(a, sign)) \in StreamChunks(w)
    BY <1>3, <1>6, <1>7 DEF StreamChunks, Around
  <1> QED
    BY <1>8 DEF a

-----------------------------------------------------------------------------
(* Blocks *)

\* A block, by the place of its chunk in a frame and its own in the chunk
BlockAt(fr, ci, cl, bi, bl) ==
    Address(fr.face, AtX(fr, ci, cl, Chunks), AtZ(fr, ci, cl, Chunks),
            AtX(fr, bi, bl, BlocksPerChunk), AtZ(fr, bi, bl, BlocksPerChunk))

LEMMA BlocksAreCells ==
    ASSUME NEW fr \in Frames, NEW ci \in Lanes, NEW cl \in Lanes, NEW bi \in BlocksAlong, NEW bl \in BlocksAlong
    PROVE  LET N == Chunks * BlocksPerChunk
           IN  /\ N \in Nat \ {0}
               /\ ci * BlocksPerChunk + bi \in 0..N - 1 /\ cl * BlocksPerChunk + bl \in 0..N - 1
               /\ BlockCorners(BlockAt(fr, ci, cl, bi, bl)) =
                     CellCorners(fr, ci * BlocksPerChunk + bi, cl * BlocksPerChunk + bl, N)
  <1> DEFINE C == Chunks
             B == BlocksPerChunk
             N == C * B
             i == ci * B + bi
             l == cl * B + bl
  <1>1. C \in Nat \ {0} /\ B \in Nat \ {0} /\ ci \in 0..C - 1 /\ cl \in 0..C - 1
        /\ bi \in 0..B - 1 /\ bl \in 0..B - 1
    BY CubeNetAssumption DEF Lanes, BlocksAlong
  <1> HIDE DEF C, B
  <1>2. N \in Nat /\ ci * B \in Nat /\ cl * B \in Nat
    BY <1>1
  <1>3. ci * B <= N - B /\ cl * B <= N - B
    <2>1. ASSUME NEW k \in 0..C - 1 PROVE k * B <= N - B
      <3>1. (C - 1 - k) * B \in Nat
        BY <1>1
      <3>2. (C - 1 - k) * B = N - B - k * B
        BY <1>1
      <3>3. N \in Int /\ B \in Int /\ k * B \in Int
        BY <1>1
      <3> HIDE DEF N
      <3> QED
        BY <3>1, <3>2, <3>3
    <2> QED
      BY <1>1, <2>1
  <1>4. N \in Nat \ {0} /\ i \in 0..N - 1 /\ l \in 0..N - 1
    <2> HIDE DEF N
    <2> QED
      BY <1>1, <1>2, <1>3
  <1>5. \A s, k, b \in Int : Put(s, k, C) * B + Put(s, b, B) = Put(s, k * B + b, N)
    <2> TAKE s, k, b \in Int
    <2>1. CASE s = 1
      BY <2>1 DEF Put
    <2>2. CASE s # 1
      <3>1. (C - 1 - k) * B + (B - 1 - b) = C * B - 1 - (k * B + b)
        BY <1>1
      <3> QED
        BY <2>2, <3>1 DEF Put
    <2> QED
      BY <2>1, <2>2
  <1>6. /\ AtX(fr, ci, cl, C) * B + AtX(fr, bi, bl, B) = AtX(fr, i, l, N)
        /\ AtZ(fr, ci, cl, C) * B + AtZ(fr, bi, bl, B) = AtZ(fr, i, l, N)
    <2>1. ci \in Int /\ cl \in Int /\ bi \in Int /\ bl \in Int
      BY <1>1
    <2> HIDE DEF N
    <2> QED
      BY <1>5, <2>1, FrameFields DEF AtX, AtZ
  <1>7. BlockCorners(BlockAt(fr, ci, cl, bi, bl)) = CellCorners(fr, i, l, N)
    BY <1>6 DEF BlockCorners, BlockAt, Address, CellCorners, C, B
  <1> QED
    BY <1>4, <1>7 DEF C, B

\* The block ahead
BlockAhead(fr, ci, cl, bi, bl) ==
    IF bi + 1 < BlocksPerChunk THEN BlockAt(fr, ci, cl, bi + 1, bl)
    ELSE IF ci + 1 < Chunks THEN BlockAt(fr, ci + 1, cl, 0, bl)
    ELSE BlockAt(OnwardFrame(fr), 0, cl, 0, bl)

LEMMA BlockAheadTouches ==
    ASSUME NEW fr \in Frames, NEW ci \in Lanes, NEW cl \in Lanes, NEW bi \in BlocksAlong, NEW bl \in BlocksAlong
    PROVE  Cardinality(BlockCorners(BlockAt(fr, ci, cl, bi, bl))
                         \cap BlockCorners(BlockAhead(fr, ci, cl, bi, bl))) = 2
  <1> DEFINE C == Chunks
             B == BlocksPerChunk
             N == C * B
             i == ci * B + bi
             l == cl * B + bl
  <1>1. C \in Nat \ {0} /\ B \in Nat \ {0} /\ Lanes = 0..C - 1 /\ BlocksAlong = 0..B - 1
    BY CubeNetAssumption DEF Lanes, BlocksAlong
  <1>2. N \in Nat \ {0} /\ i \in 0..N - 1 /\ l \in 0..N - 1
        /\ BlockCorners(BlockAt(fr, ci, cl, bi, bl)) = CellCorners(fr, i, l, N)
    BY BlocksAreCells
  <1>3. OnwardFrame(fr) \in Frames
    BY OnwardIsFrame
  <1>4. BlockCorners(BlockAhead(fr, ci, cl, bi, bl)) = CellCorners(NextFrame(fr, i, N), NextI(i, N), l, N)
    <2>1. CASE bi + 1 < B
      <3>1. bi + 1 \in BlocksAlong /\ ci * B + (bi + 1) = i + 1
        <4>1. ci * B \in Int
          BY <1>1
        <4> QED
          BY <1>1, <2>1, <4>1
      <3>2. i + 1 \in 0..N - 1
            /\ BlockCorners(BlockAt(fr, ci, cl, bi + 1, bl)) = CellCorners(fr, i + 1, l, N)
        BY <3>1, BlocksAreCells
      <3>3. i + 1 < N
        <4> HIDE DEF N, i
        <4> QED
          BY <1>2, <3>2
      <3> HIDE DEF N, i, l
      <3> QED
        BY <2>1, <3>2, <3>3 DEF BlockAhead, NextFrame, NextI
    <2>2. CASE ~(bi + 1 < B) /\ ci + 1 < C
      <3>1. 0 \in BlocksAlong /\ ci + 1 \in Lanes /\ bi + 1 = B
        BY <1>1, <2>2
      <3>2. (ci + 1) * B + 0 = i + 1
        <4>1. ci * B \in Int /\ (ci + 1) * B = ci * B + B
          BY <1>1
        <4> QED
          BY <1>1, <3>1, <4>1
      <3>3. i + 1 \in 0..N - 1
            /\ BlockCorners(BlockAt(fr, ci + 1, cl, 0, bl)) = CellCorners(fr, i + 1, l, N)
        BY <3>1, <3>2, BlocksAreCells
      <3>4. i + 1 < N
        <4> HIDE DEF N, i
        <4> QED
          BY <1>2, <3>3
      <3> HIDE DEF N, i, l
      <3> QED
        BY <2>2, <3>3, <3>4 DEF BlockAhead, NextFrame, NextI
    <2>3. CASE ~(bi + 1 < B) /\ ~(ci + 1 < C)
      <3>1. 0 \in BlocksAlong /\ 0 \in Lanes /\ bi = B - 1 /\ ci = C - 1
        BY <1>1, <2>3
      <3>2. i + 1 = N /\ 0 * B + 0 = 0
        <4>1. (C - 1) * B = C * B - B /\ C * B \in Int
          BY <1>1
        <4> QED
          BY <1>1, <3>1, <4>1
      <3>3. BlockCorners(BlockAt(OnwardFrame(fr), 0, cl, 0, bl)) = CellCorners(OnwardFrame(fr), 0, l, N)
        <4>1. BlockCorners(BlockAt(OnwardFrame(fr), 0, cl, 0, bl)) =
                CellCorners(OnwardFrame(fr), 0 * B + 0, l, N)
          BY <1>3, <3>1, BlocksAreCells
        <4> QED
          BY <3>2, <4>1
      <3>4. ~(i + 1 < N)
        BY <1>2, <3>2
      <3> HIDE DEF N, i, l
      <3> QED
        BY <2>3, <3>3, <3>4 DEF BlockAhead, NextFrame, NextI
    <2> QED
      BY <2>1, <2>2, <2>3
  <1>5. i + 1 \in Nat /\ l \in Nat
    BY <1>2
  <1> HIDE DEF N, i, l
  <1>6. CellCorners(fr, i, l, N) \cap CellCorners(NextFrame(fr, i, N), NextI(i, N), l, N)
          = Rim(fr, i + 1, l, N)
    BY <1>2, CellAheadShares
  <1>7. Cardinality(Rim(fr, i + 1, l, N)) = 2
    BY <1>2, <1>5, RimIsPair
  <1> QED
    BY <1>2, <1>4, <1>6, <1>7

\* One block ahead of a chunk's edge is in the next chunk, at its near edge.
LEMMA CarriedOver ==
    ASSUME NEW fr \in Frames, NEW ci \in Lanes, NEW cl \in Lanes, NEW bi \in BlocksAlong, NEW bl \in BlocksAlong
    PROVE  LET C == Chunks
               B == BlocksPerChunk
               bx == AtX(fr, bi + 1, bl, B)
               bz == AtZ(fr, bi + 1, bl, B)
           IN  /\ bi + 1 < B =>
                    Carry(bx) = 0 /\ Carry(bz) = 0 /\ bx % B = bx /\ bz % B = bz
               /\ ~(bi + 1 < B) =>
                    /\ AtX(fr, ci, cl, C) + Carry(bx) = AtX(fr, ci + 1, cl, C)
                    /\ AtZ(fr, ci, cl, C) + Carry(bz) = AtZ(fr, ci + 1, cl, C)
                    /\ bx % B = AtX(fr, 0, bl, B) /\ bz % B = AtZ(fr, 0, bl, B)
  <1> DEFINE C == Chunks
             B == BlocksPerChunk
             bx == AtX(fr, bi + 1, bl, B)
             bz == AtZ(fr, bi + 1, bl, B)
  <1>1. C \in Nat \ {0} /\ B \in Nat \ {0} /\ ci \in 0..C - 1 /\ cl \in 0..C - 1
        /\ bi \in 0..B - 1 /\ bl \in 0..B - 1
    BY CubeNetAssumption DEF Lanes, BlocksAlong
  <1>2. \A b \in 0..B - 1 : Carry(b) = 0 /\ b % B = b
    <2> TAKE b \in 0..B - 1
    <2>1. Carry(b) = 0
      BY <1>1 DEF Carry
    <2>2. b % B = b
      <3>1. b \in 0..B /\ b # B
        BY <1>1
      <3> HIDE DEF B
      <3> QED
        BY <1>1, <3>1, ModRound
    <2> QED
      BY <2>1, <2>2
  <1>3. /\ Carry(B) = 1 /\ B % B = 0
        /\ Carry(-1) = -1 /\ (-1) % B = B - 1
    <2>1. Carry(B) = 1 /\ Carry(-1) = -1
      BY <1>1 DEF Carry
    <2>2. B % B = 0
      <3>1. B \in 0..B
        BY <1>1
      <3> HIDE DEF B
      <3> QED
        BY <1>1, <3>1, ModRound
    <2>3. (-1) % B = B - 1
      BY <1>1
    <2> QED
      BY <2>1, <2>2, <2>3
  <1>4. ASSUME bi + 1 < B
        PROVE  Carry(bx) = 0 /\ Carry(bz) = 0 /\ bx % B = bx /\ bz % B = bz
    <2>1. bx \in 0..B - 1 /\ bz \in 0..B - 1
      BY <1>1, <1>4 DEF AtX, AtZ, Put
    <2> HIDE DEF bx, bz
    <2> QED
      BY <1>2, <2>1
  <1>5. ASSUME ~(bi + 1 < B)
        PROVE  /\ AtX(fr, ci, cl, C) + Carry(bx) = AtX(fr, ci + 1, cl, C)
               /\ AtZ(fr, ci, cl, C) + Carry(bz) = AtZ(fr, ci + 1, cl, C)
               /\ bx % B = AtX(fr, 0, bl, B) /\ bz % B = AtZ(fr, 0, bl, B)
    <2>1. bi + 1 = B
      BY <1>1, <1>5
    <2> DEFINE u == Put(fr.fwd, B, B)
               v == Put(fr.side, bl, B)
    <2>2. v \in 0..B - 1 /\ Carry(v) = 0 /\ v % B = v
      <3>1. v \in 0..B - 1
        BY <1>1 DEF Put
      <3> HIDE DEF v
      <3> QED
        BY <1>2, <3>1
    <2>3. Carry(u) = fr.fwd /\ u % B = Put(fr.fwd, 0, B)
      <3>1. CASE fr.fwd = 1
        BY <1>1, <1>3, <3>1 DEF Put
      <3>2. CASE fr.fwd = -1
        <4>1. u = -1 /\ Put(fr.fwd, 0, B) = B - 1
          BY <1>1, <3>2 DEF Put
        <4> HIDE DEF u
        <4> QED
          BY <1>3, <3>2, <4>1
      <3> QED
        BY <3>1, <3>2, FrameFields
    <2>4. Put(fr.fwd, ci, C) + fr.fwd = Put(fr.fwd, ci + 1, C) /\ Put(fr.side, cl, C) + 0 = Put(fr.side, cl, C)
      BY <1>1, FrameFields DEF Put
    <2>5. bx = (IF fr.along = "x" THEN u ELSE v) /\ bz = (IF fr.along = "x" THEN v ELSE u)
      BY <2>1 DEF AtX, AtZ
    <2> HIDE DEF bx, bz, u, v
    <2>6. CASE fr.along = "x"
      BY <2>2, <2>3, <2>4, <2>5, <2>6 DEF AtX, AtZ, v
    <2>7. CASE fr.along # "x"
      BY <2>2, <2>3, <2>4, <2>5, <2>7 DEF AtX, AtZ, v
    <2> QED
      BY <2>6, <2>7
  <1> QED
    BY <1>4, <1>5

LEMMA NeighbourIsAhead ==
    ASSUME NEW fr \in Frames, NEW ci \in Lanes, NEW cl \in Lanes, NEW bi \in BlocksAlong, NEW bl \in BlocksAlong
    PROVE  /\ BlockNeighbour(BlockAt(fr, ci, cl, bi, bl), Fwd(fr)) = BlockAhead(fr, ci, cl, bi, bl)
           /\ MeshNeighbour(BlockAt(fr, ci, cl, bi, bl), Fwd(fr)) = BlockAhead(fr, ci, cl, bi, bl)
  <1> DEFINE C == Chunks
             B == BlocksPerChunk
             a == BlockAt(fr, ci, cl, bi, bl)
             d == Fwd(fr)
             bx == a.bx + d[1]
             bz == a.bz + d[2]
             cx == a.cx + Carry(bx)
             cz == a.cz + Carry(bz)
             p == EdgePairings[a.face][EdgeCrossed(bx, bz, B)]
             q == EdgePairings[a.face][EdgeCrossed(cx, cz, C)]
             c == MapCrossFace(p, cx, cz, C)
             b == MapCrossFace(p, bx % B, bz % B, B)
             c2 == MapCrossFace(q, Clamped(cx, C), Clamped(cz, C), C)
             b2 == MapCrossFace(q, bx % B, bz % B, B)
             near == BlockNeighbour(a, d)
             mesh == MeshNeighbour(a, d)
  <1>1. C \in Nat \ {0} /\ B \in Nat \ {0} /\ ci \in 0..C - 1 /\ cl \in 0..C - 1
        /\ bi \in 0..B - 1 /\ bl \in 0..B - 1
    BY CubeNetAssumption DEF Lanes, BlocksAlong
  <1>2. /\ a.face = fr.face /\ a.cx = AtX(fr, ci, cl, C) /\ a.cz = AtZ(fr, ci, cl, C)
        /\ a.bx = AtX(fr, bi, bl, B) /\ a.bz = AtZ(fr, bi, bl, B)
    BY DEF BlockAt, Address
  <1>3. near = IF OnFace(cx, cz, C)
               THEN Address(a.face, cx, cz, bx % B, bz % B)
               ELSE Address(p.face, Clamped(c[1], C), Clamped(c[2], C), b[1], b[2])
    BY DEF BlockNeighbour
  <1>4. mesh = IF OnFace(cx, cz, C)
               THEN Address(a.face, cx, cz, bx % B, bz % B)
               ELSE Address(q.face, c2[1], c2[2], b2[1], b2[2])
    BY DEF MeshNeighbour
  <1>5. bx = AtX(fr, bi + 1, bl, B) /\ bz = AtZ(fr, bi + 1, bl, B)
    <2>1. /\ AtX(fr, bi, bl, B) + Fwd(fr)[1] = AtX(fr, bi + 1, bl, B)
          /\ AtZ(fr, bi, bl, B) + Fwd(fr)[2] = AtZ(fr, bi + 1, bl, B)
      <3> HIDE DEF B
      <3> QED
        BY <1>1, CellAhead
    <2> HIDE DEF a
    <2> QED
      BY <1>2, <2>1
  <1> HIDE DEF a, d, bx, bz, cx, cz, p, q, c, b, c2, b2, near, mesh
  <1>6. CASE bi + 1 < B
    <2>1. Carry(bx) = 0 /\ Carry(bz) = 0 /\ bx % B = bx /\ bz % B = bz
      BY <1>5, <1>6, CarriedOver
    <2>2. AtX(fr, ci, cl, C) \in 0..C - 1 /\ AtZ(fr, ci, cl, C) \in 0..C - 1
      BY <1>1, CellAhead
    <2>3. cx = AtX(fr, ci, cl, C) /\ cz = AtZ(fr, ci, cl, C)
      BY <1>2, <2>1, <2>2 DEF cx, cz
    <2>4. OnFace(cx, cz, C)
      BY <2>2, <2>3 DEF OnFace
    <2>5. Address(a.face, cx, cz, bx % B, bz % B) = BlockAt(fr, ci, cl, bi + 1, bl)
      BY <1>2, <1>5, <2>1, <2>3 DEF BlockAt
    <2> QED
      BY <1>3, <1>4, <1>6, <2>4, <2>5 DEF BlockAhead, near, mesh, a, d
  <1>7. CASE ~(bi + 1 < B)
    <2>1. /\ AtX(fr, ci, cl, C) + Carry(bx) = AtX(fr, ci + 1, cl, C)
          /\ AtZ(fr, ci, cl, C) + Carry(bz) = AtZ(fr, ci + 1, cl, C)
          /\ bx % B = AtX(fr, 0, bl, B) /\ bz % B = AtZ(fr, 0, bl, B)
      BY <1>5, <1>7, CarriedOver
    <2>2. cx = AtX(fr, ci + 1, cl, C) /\ cz = AtZ(fr, ci + 1, cl, C)
      BY <1>2, <2>1 DEF cx, cz
    <2>3. CASE ci + 1 < C
      <3>1. OnFace(cx, cz, C)
        BY <1>1, <2>2, <2>3, CellAhead
      <3>2. Address(a.face, cx, cz, bx % B, bz % B) = BlockAt(fr, ci + 1, cl, 0, bl)
        BY <1>2, <2>1, <2>2 DEF BlockAt
      <3> QED
        BY <1>3, <1>4, <1>7, <2>3, <3>1, <3>2 DEF BlockAhead, near, mesh, a, d
    <2>4. CASE ~(ci + 1 < C)
      <3> DEFINE o == OnwardFrame(fr)
      <3>1. ci + 1 = C /\ bi + 1 = B
        BY <1>1, <1>7, <2>4
      <3>2. /\ cx = AtX(fr, C, cl, C) /\ cz = AtZ(fr, C, cl, C)
            /\ bx = AtX(fr, B, bl, B) /\ bz = AtZ(fr, B, bl, B)
        BY <1>5, <2>2, <3>1
      <3>3. ~OnFace(cx, cz, C) /\ EdgeCrossed(cx, cz, C) = ExitEdge(fr)
        BY <1>1, <3>1, <3>2, CellAhead
      <3>4. EdgeCrossed(bx, bz, B) = ExitEdge(fr)
        BY <1>1, <3>1, <3>2, CellAhead
      <3>5. p = Exit(fr) /\ q = Exit(fr)
        BY <1>2, <3>3, <3>4 DEF Exit, p, q
      <3>6. o \in Frames /\ Exit(fr).face = o.face
        BY OnwardIsFrame DEF OnwardFrame, Enter
      <3>7. AtX(o, 0, cl, C) \in 0..C - 1 /\ AtZ(o, 0, cl, C) \in 0..C - 1
        BY <1>1, <3>6, CellAhead
      <3> HIDE DEF o
      <3> DEFINE u == Put(fr.fwd, C, C)
                 v == Put(fr.side, cl, C)
      <3>8. u \in Int /\ v \in 0..C - 1 /\ Clamped(v, C) = v /\ Clamped(u, C) \in Int
        BY <1>1 DEF Put, Clamped
      <3>9. cx = (IF fr.along = "x" THEN u ELSE v) /\ cz = (IF fr.along = "x" THEN v ELSE u)
        BY <3>2 DEF AtX, AtZ
      <3>10. c = <<AtX(o, 0, cl, C), AtZ(o, 0, cl, C)>>
        <4> HIDE DEF u
        <4> QED
          BY <1>1, <3>5, <3>8, <3>9, CellAcross DEF c, o
      <3>11. c2 = <<AtX(o, 0, cl, C), AtZ(o, 0, cl, C)>>
        <4> DEFINE w == Clamped(u, C)
        <4>1. Clamped(cx, C) = (IF fr.along = "x" THEN w ELSE v)
              /\ Clamped(cz, C) = (IF fr.along = "x" THEN v ELSE w) /\ w \in Int
          BY <3>8, <3>9
        <4> HIDE DEF w, u
        <4> QED
          BY <1>1, <3>5, <4>1, CellAcross DEF c2, o
      <3>12. b = <<AtX(o, 0, bl, B), AtZ(o, 0, bl, B)>> /\ b2 = b
        <4> DEFINE y == Put(fr.fwd, 0, B)
        <4>1. y \in Int
          BY <1>1 DEF Put
        <4>2. bx % B = (IF fr.along = "x" THEN y ELSE Put(fr.side, bl, B))
              /\ bz % B = (IF fr.along = "x" THEN Put(fr.side, bl, B) ELSE y)
          BY <2>1 DEF AtX, AtZ
        <4> HIDE DEF y
        <4>3. b = <<AtX(o, 0, bl, B), AtZ(o, 0, bl, B)>>
          BY <1>1, <3>5, <4>1, <4>2, CellAcross DEF b, o
        <4>4. b2 = b
          BY <3>5 DEF b, b2
        <4> QED
          BY <4>3, <4>4
      <3> HIDE DEF u, v
      <3>13. near = BlockAt(o, 0, cl, 0, bl)
        <4>1. Clamped(c[1], C) = AtX(o, 0, cl, C) /\ Clamped(c[2], C) = AtZ(o, 0, cl, C)
          BY <1>1, <3>7, <3>10 DEF Clamped
        <4> QED
          BY <1>3, <3>3, <3>5, <3>6, <3>12, <4>1 DEF BlockAt
      <3>14. mesh = BlockAt(o, 0, cl, 0, bl)
        BY <1>4, <3>3, <3>5, <3>6, <3>11, <3>12 DEF BlockAt
      <3> QED
        BY <1>7, <2>4, <3>13, <3>14 DEF BlockAhead, near, mesh, a, d, o
    <2> QED
      BY <2>3, <2>4
  <1> QED
    BY <1>6, <1>7

\* A walk of no step, and of one
LEMMA ShortWalks ==
    ASSUME NEW w, NEW s \in Signs
    PROVE  /\ WalkX(w, 0) = w /\ WalkZ(w, 0) = w
           /\ WalkX(w, s) = StepX(w, s) /\ WalkZ(w, s) = StepZ(w, s)
  <1>1. ASSUME NEW h \in Headings
        PROVE  WalkAlong(h, w, 0) = w /\ WalkAlong(h, w, s) = StepAlong(h, w, s)
    <2>1. WalkAlong(h, w, 0) = w
      <3> DEFINE path == [i \in {0} |-> w]
      <3>1. Abs(0) = 0 /\ path[0] = w /\ 0 \in Int
        BY DEF Abs
      <3>2. \A i \in 1..Abs(0) : path[i] = StepAlong(h, path[i - 1], Sign(0))
        BY <3>1
      <3> HIDE DEF path
      <3>3. WalkAlong(h, w, 0) = path[Abs(0)]
        BY <3>1, <3>2, WalkFollows
      <3> QED
        BY <3>1, <3>3
    <2>2. WalkAlong(h, w, s) = StepAlong(h, w, s)
      <3> DEFINE path == [i \in {0, 1} |-> IF i = 0 THEN w ELSE StepAlong(h, w, s)]
      <3>1. Abs(s) = 1 /\ Sign(s) = s /\ s \in Int
        BY DEF Abs, Sign, Signs
      <3>2. path[0] = w /\ path[1] = StepAlong(h, w, s)
        OBVIOUS
      <3> HIDE DEF path
      <3>3. \A i \in 1..Abs(s) : path[i] = StepAlong(h, path[i - 1], Sign(s))
        <4> TAKE i \in 1..Abs(s)
        <4>1. i = 1 /\ i - 1 = 0
          BY <3>1
        <4> QED
          BY <3>1, <3>2, <4>1
      <3>4. WalkAlong(h, w, s) = path[Abs(s)]
        BY <3>1, <3>2, <3>3, WalkFollows
      <3> QED
        BY <3>1, <3>2, <3>4
    <2> QED
      BY <2>1, <2>2
  <1>2. "x" \in Headings /\ "z" \in Headings
    BY DEF Headings
  <1>3. WalkAlong("x", w, 0) = w /\ WalkAlong("x", w, s) = StepAlong("x", w, s)
        /\ WalkAlong("z", w, 0) = w /\ WalkAlong("z", w, s) = StepAlong("z", w, s)
    BY <1>1, <1>2
  <1> QED
    BY <1>3 DEF WalkAlong, StepAlong

\* The two coordinates of a block's step
BlockHeading(d) == <<IF d[2] = 0 THEN "x" ELSE "z", d[1] + d[2]>>

LEMMA HeadingOfStep ==
    ASSUME NEW d \in BlockSteps
    PROVE  /\ BlockHeading(d) \in Headings \X Signs
           /\ BlockHeading(d)[1] = IF d[2] = 0 THEN "x" ELSE "z"
           /\ BlockHeading(d)[2] = d[1] + d[2]
           /\ d = IF d[2] = 0 THEN <<d[1], 0>> ELSE <<0, d[2]>>
           /\ d[2] = 0 => d[1] \in Signs /\ d[1] + d[2] = d[1]
           /\ d[2] # 0 => d[1] = 0 /\ d[2] \in Signs /\ d[1] + d[2] = d[2]
  BY DEF BlockSteps, BlockHeading, Headings, Signs

LEMMA NeighboursAlwaysTouch ==
    ASSUME NEW w \in Starts, NEW bx \in BlocksAlong, NEW bz \in BlocksAlong, NEW d \in BlockSteps
    PROVE  LET a == Address(w.face, w.x, w.z, bx, bz)
               b == BlockNeighbour(a, d)
           IN  /\ Cardinality(BlockCorners(a) \cap BlockCorners(b)) = 2
               /\ b = MeshNeighbour(a, d)
               /\ <<b.face, b.cx, b.cz>> \in ChunksTouching(a)
  <1> DEFINE B == BlocksPerChunk
             a == Address(w.face, w.x, w.z, bx, bz)
             hd == BlockHeading(d)
             h == hd[1]
             s == hd[2]
             fr == FrameOf(w, hd)
             ci == AheadOf(w, hd)
             cl == AsideOf(w, hd)
             bi == Put(s, IF h = "x" THEN bx ELSE bz, B)
             bl == IF h = "x" THEN bz ELSE bx
             b == BlockNeighbour(a, d)
  <1>1. hd \in Headings \X Signs /\ h \in Headings /\ s \in Signs
    BY HeadingOfStep
  <1>2. /\ fr \in Frames /\ ci \in Lanes /\ cl \in Lanes
        /\ w = Stands(fr, ci, cl, h, s)
    BY <1>1, StartStands
  <1>3. fr.along = h /\ fr.fwd = s /\ fr.side = 1 /\ fr.face = w.face
    BY DEF FrameOf
  <1>4. B \in Nat \ {0, 1} /\ bx \in 0..B - 1 /\ bz \in 0..B - 1 /\ (h = "x" \/ h = "z") /\ (s = 1 \/ s = -1)
    BY <1>1, CubeNetAssumption DEF BlocksAlong, Headings, Signs
  <1>5. /\ h = "x" => d = <<s, 0>>
        /\ h = "z" => d = <<0, s>>
    BY HeadingOfStep
  <1> HIDE DEF hd, h, s, fr, ci, cl
  <1>6. bi \in BlocksAlong /\ bl \in BlocksAlong
    BY <1>4 DEF Put, BlocksAlong
  <1>7. AtX(fr, bi, bl, B) = bx /\ AtZ(fr, bi, bl, B) = bz
    BY <1>3, <1>4 DEF AtX, AtZ, Put
  <1>8. w.x = AtX(fr, ci, cl, Chunks) /\ w.z = AtZ(fr, ci, cl, Chunks)
    BY <1>2 DEF Stands
  <1>9. a = BlockAt(fr, ci, cl, bi, bl)
    BY <1>3, <1>7, <1>8 DEF BlockAt
  <1>10. d = Fwd(fr)
    BY <1>3, <1>4, <1>5 DEF Fwd
  <1>11. /\ s = 1 => bi = (IF h = "x" THEN bx ELSE bz)
         /\ s = -1 => bi = B - 1 - (IF h = "x" THEN bx ELSE bz)
    BY DEF Put
  <1> HIDE DEF bi, bl
  <1>12. b = BlockAhead(fr, ci, cl, bi, bl) /\ MeshNeighbour(a, d) = b
    BY <1>2, <1>6, <1>9, <1>10, NeighbourIsAhead
  <1>13. Cardinality(BlockCorners(a) \cap BlockCorners(b)) = 2
    BY <1>2, <1>6, <1>9, <1>12, BlockAheadTouches
  <1>14. <<b.face, b.cx, b.cz>> \in ChunksTouching(a)
    <2> DEFINE v == WalkerAt(w.face, w.x, w.z)
    <2>1. v = w
      <3>1. PICK f \in Faces, x \in Lanes, z \in Lanes : w = WalkerAt(f, x, z)
        BY DEF Starts, Lanes
      <3>2. w.face = f /\ w.x = x /\ w.z = z
        BY <3>1 DEF WalkerAt
      <3> QED
        BY <3>1, <3>2
    <2>2. /\ a.face = w.face /\ a.cx = w.x /\ a.cz = w.z /\ a.bx = bx /\ a.bz = bz
      BY DEF Address
    <2>3. \A dx \in {0, EdgeOffset(bx)}, dz \in {0, EdgeOffset(bz)} :
              Place(OffsetChunkAddress(w, dx, dz)) \in ChunksTouching(a)
      <3> HIDE DEF a, b
      <3> QED
        BY <2>1, <2>2 DEF ChunksTouching
    <2> HIDE DEF a, b
    <2>4. CASE bi + 1 < B
      <3>1. b = BlockAt(fr, ci, cl, bi + 1, bl)
        BY <1>12, <2>4 DEF BlockAhead
      <3>2. <<b.face, b.cx, b.cz>> = Place(w)
        BY <1>3, <1>8, <3>1 DEF BlockAt, Address, Place
      <3>3. OffsetChunkAddress(w, 0, 0) = w
        BY <1>1, ShortWalks DEF OffsetChunkAddress
      <3> QED
        BY <2>3, <3>2, <3>3
    <2>5. CASE ~(bi + 1 < B)
      <3>1. Place(StepAlong(h, w, s)) = <<b.face, b.cx, b.cz>>
        <4>1. StepAlong(h, w, s) =
                 IF ci + 1 < Chunks THEN Stands(fr, ci + 1, cl, h, s)
                 ELSE Stands(OnwardFrame(fr), 0, cl, h, s)
          BY <1>1, <1>2, StepAhead
        <4>2. CASE ci + 1 < Chunks
          <5>1. b = BlockAt(fr, ci + 1, cl, 0, bl)
            BY <1>12, <2>5, <4>2 DEF BlockAhead
          <5> QED
            BY <4>1, <4>2, <5>1 DEF BlockAt, Address, Place, Stands
        <4>3. CASE ~(ci + 1 < Chunks)
          <5>1. b = BlockAt(OnwardFrame(fr), 0, cl, 0, bl)
            BY <1>12, <2>5, <4>3 DEF BlockAhead
          <5> QED
            BY <4>1, <4>3, <5>1 DEF BlockAt, Address, Place, Stands
        <4> QED
          BY <4>2, <4>3
      <3>2. bi = B - 1
        BY <1>4, <1>6, <2>5 DEF BlocksAlong
      <3>3. EdgeOffset(IF h = "x" THEN bx ELSE bz) = s
        BY <1>4, <1>11, <3>2 DEF EdgeOffset
      <3>4. CASE h = "x"
        <4>1. OffsetChunkAddress(w, s, 0) = StepAlong(h, w, s)
          BY <1>1, <3>4, ShortWalks DEF OffsetChunkAddress, StepAlong
        <4> QED
          BY <2>3, <3>1, <3>3, <3>4, <4>1
      <3>5. CASE h = "z"
        <4>1. OffsetChunkAddress(w, 0, s) = StepAlong(h, w, s)
          BY <1>1, <3>5, ShortWalks DEF OffsetChunkAddress, StepAlong
        <4> QED
          BY <2>3, <3>1, <3>3, <3>5, <4>1
      <3> QED
        BY <1>4, <3>4, <3>5
    <2> QED
      BY <2>4, <2>5
  <1> QED
    BY <1>12, <1>13, <1>14

\* The cube is whole, for any number of chunks along an edge, any number of blocks but
\* one along a chunk, and any radius: about offset_chunk_address, neighbors,
\* resolve_neighbor_address, chunks_touching_block and collect_stream_chunks.
THEOREM CubeStaysWhole == CubeSpec => []CubeIsWhole
  <1>1. WalkIsOnItsWay => NeighboursTouch
    BY NeighboursAlwaysTouch DEF WalkIsOnItsWay, NeighboursTouch
  <1>2. WalkIsOnItsWay => HaloIsComplete
    BY HaloIsThere DEF WalkIsOnItsWay, HaloIsComplete
  <1>3. WalkIsOnItsWay => CubeIsWhole
    BY <1>1, <1>2, WalkGoesStraight DEF CubeIsWhole, SeamsHold
  <1> QED
    BY <1>3, WalkInitially, WalkStaysOnItsWay, PTL DEF CubeSpec
=============================================================================
