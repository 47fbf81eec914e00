----------------------------- MODULE ChunkMesh -----------------------------
(***************************************************************************)
(* The faces BlockWorld::build_chunk_mesh draws of a chunk.  It is called  *)
(* again after every edit, so a state is a chunk and its surroundings, and *)
(* the mesh is a function of both.                                         *)
(*                                                                         *)
(* Every block of the game is full: generate_chunk and set_solid store     *)
(* kMaxBlockHeight or nothing, and the fractions of a block that the code  *)
(* also draws do not come up.  The level of detail is 0, as Engine::init   *)
(* sets it.  A chunk that is not resident counts as the terrain that would *)
(* be generated there, so beyond a side of the chunk the ground has some   *)
(* height, the same all along that side; above and below there are solid   *)
(* blocks, or air, or nothing where the shell ends.                        *)
(***************************************************************************)
EXTENDS Integers, FiniteSetsExt

CONSTANTS
    ChunkSize,      \* chunk_size: blocks along an edge
    MaxDigs         \* bound: blocks broken or placed

ASSUME ChunkMeshAssumption == ChunkSize \in Nat \ {0} /\ MaxDigs \in Nat

Axis == 0..ChunkSize - 1
Cells == Axis \X Axis \X Axis        \* x, y (up), z
CellColumns == Axis \X Axis

Flanks == {"Left", "Right", "Back", "Front"}
Caps == {"Up", "Down"}
Dirs == Flanks \cup Caps

VARIABLES
    solid,      \* the solid blocks of the chunk
    ground,     \* flank -> height of the ground beyond it
    ends,       \* Up, Down -> what is there
    digs        \* history: edits so far

mesh_vars == <<solid, ground, ends, digs>>

\* block_dir_vector
Step(c, d) ==
    CASE d = "Left"  -> <<c[1] - 1, c[2], c[3]>>
      [] d = "Right" -> <<c[1] + 1, c[2], c[3]>>
      [] d = "Down"  -> <<c[1], c[2] - 1, c[3]>>
      [] d = "Up"    -> <<c[1], c[2] + 1, c[3]>>
      [] d = "Back"  -> <<c[1], c[2], c[3] - 1>>
      [] d = "Front" -> <<c[1], c[2], c[3] + 1>>

\* get_neighbor_height: a full block, or air, or no neighbour at all
NeighborSolid(c, d) ==
    LET n == Step(c, d)
    IN  CASE n \in Cells -> n \in solid
          [] n \notin Cells /\ d \in Flanks -> c[2] < ground[d]
          [] n \notin Cells /\ d \in Caps   -> ends[d] = "solid"

\* A face that separates a block from air, or from nothing
Exposed(c, d) == c \in solid /\ ~NeighborSolid(c, d)

\* Pass 1: the tops
UpFaces == {<<c, "Up">> : c \in {b \in Cells : Exposed(b, "Up")}}

\* The other faces of a block, as pass 2 draws them
OtherFaces(c) == {<<c, d>> : d \in {e \in Dirs \ {"Up"} : Exposed(c, e)}}

\* Pass 2: down a column as long as there are blocks and the last one had a face to draw
FacesDownFrom(x, top, z) ==
    LET Draws(y) == <<x, y, z>> \in solid /\ OtherFaces(<<x, y, z>>) # {}
    IN  UNION {OtherFaces(<<x, y, z>>) :
                 y \in {reached \in 0..top : \A higher \in reached..top : Draws(higher)}}

\* mutant: from the top of the chunk
ColumnFacesFromTheTop(x, z) == FacesDownFrom(x, ChunkSize - 1, z)

\* from the highest block of the column, if it has one
ColumnFaces(x, z) ==
    FacesDownFrom(x, Max({-1} \cup {y \in Axis : <<x, y, z>> \in solid}), z)

ChunkFaces == UpFaces \cup UNION {ColumnFaces(column[1], column[2]) : column \in CellColumns}
-----------------------------------------------------------------------------
\* generate_chunk and generated neighbours: what lies on solid ground below
HeightField ==
    /\ \A c \in solid : Step(c, "Down") \in Cells => Step(c, "Down") \in solid
    /\ ends["Up"] = "solid" => solid = Cells
    /\ solid # {} => ends["Down"] # "air"

MeshInit ==
    /\ ground \in [Flanks -> 0..ChunkSize]
    /\ ends \in [Caps -> {"solid", "air", "none"}]
    /\ solid \in SUBSET Cells
    /\ HeightField
    /\ digs = 0

NothingThere ==
    /\ solid = {}
    /\ ground = [d \in Flanks |-> 0]
    /\ ends = [d \in Caps |-> "air"]
    /\ digs = 0

Edit(blocks) ==
    /\ digs < MaxDigs
    /\ digs' = digs + 1
    /\ solid' = blocks
    /\ UNCHANGED <<ground, ends>>

\* The aim of the player meets a block from the air, and a block is placed against one.
BreakBlock(c) == (\E d \in Dirs : Exposed(c, d)) /\ Edit(solid \ {c})

PlaceBlock(c) == c \notin solid /\ (\E d \in Dirs : NeighborSolid(c, d)) /\ Edit(solid \cup {c})

MeshNext == \E c \in Cells : BreakBlock(c) \/ PlaceBlock(c)

MeshSpec == MeshInit /\ [][MeshNext]_mesh_vars
-----------------------------------------------------------------------------
(* Properties *)

\* A face toward air, or toward the sky at the end of the outermost shell
Seen(c, d) == Exposed(c, d) /\ ~(d = "Down" /\ ends[d] = "none" /\ Step(c, d) \notin Cells)

VisibleFaces == {face \in Cells \X Dirs : Seen(face[1], face[2])}

\* As long as no block hangs over air, everything that can be seen of the ground is
\* drawn, however steep the columns stand beside each other and wherever the chunk
\* ends.  About where build_chunk_mesh starts in a column and where it gives up.
SurfaceIsClosed == HeightField => VisibleFaces \subseteq ChunkFaces

\* Only what is buried is left out, says planet_blocks.cpp:1076: "Fully buried blocks
\* below the exposed surface shell are skipped".
OnlyBuriedAreSkipped == VisibleFaces \subseteq ChunkFaces
=============================================================================
