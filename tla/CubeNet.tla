------------------------------- MODULE CubeNet -------------------------------
(***************************************************************************)
(* The six faces of a planet as one surface: the table of edge pairings,   *)
(* the walk of BlockWorld::offset_chunk_address from chunk to chunk across *)
(* the edges, the chunks streamed around the player, and the two places    *)
(* that work out the neighbour of a block.                                 *)
(*                                                                         *)
(* What the table is measured against is face_uv_to_direction, here with   *)
(* the corners of a cell as points of the cube.  The distortion it applies *)
(* to u and v first is odd, monotone and the same on every face, and moves *)
(* no edge; the radial direction never crosses a face.  Both are left out. *)
(***************************************************************************)
EXTENDS Integers, FiniteSets

CONSTANTS
    Chunks,         \* chunks along an edge of a face
    BlocksPerChunk, \* along an edge
    Radius          \* of the streamed area, in chunks

ASSUME CubeNetAssumption ==
    /\ Chunks \in Nat \ {0}
    /\ BlocksPerChunk \in Nat \ {0, 1}
    /\ Radius \in Nat

Faces == {"PosX", "NegX", "PosY", "NegY", "PosZ", "NegZ"}
Edges == {"Left", "Right", "Top", "Bottom"}

\* face_uv_to_direction, for u, v and the cube's half edge n in whole numbers
Direction(f, u, v, n) ==
    CASE f = "PosX" -> <<n, v, u>>
      [] f = "NegX" -> <<-n, v, -u>>
      [] f = "PosY" -> <<u, n, v>>
      [] f = "NegY" -> <<u, -n, -v>>
      [] f = "PosZ" -> <<u, v, n>>
      [] f = "NegZ" -> <<-u, v, -n>>

\* The corners of a cell, with n cells along an edge
Corners(f, x, z, n) ==
    {Direction(f, 2 * i - n, 2 * j - n, n) : i \in {x, x + 1}, j \in {z, z + 1}}

\* k_edge_pairings: the face and edge an edge leads to, with swap_uv and the flips,
\* which are always both set or both not
Straight(f, e) == [face |-> f, edge |-> e, swap |-> FALSE, flip |-> FALSE]
Flipped(f, e) == [face |-> f, edge |-> e, swap |-> FALSE, flip |-> TRUE]
Swapped(f, e) == [face |-> f, edge |-> e, swap |-> TRUE, flip |-> FALSE]
Crossed(f, e) == [face |-> f, edge |-> e, swap |-> TRUE, flip |-> TRUE]

EdgePairings ==
    [PosX |-> [Left |-> Straight("NegZ", "Left"), Right |-> Straight("PosZ", "Right"),
               Top |-> Swapped("PosY", "Right"), Bottom |-> Crossed("NegY", "Right")],
     NegX |-> [Left |-> Straight("PosZ", "Left"), Right |-> Straight("NegZ", "Right"),
               Top |-> Crossed("PosY", "Left"), Bottom |-> Swapped("NegY", "Left")],
     PosY |-> [Left |-> Crossed("NegX", "Top"), Right |-> Swapped("PosX", "Top"),
               Top |-> Straight("PosZ", "Top"), Bottom |-> Flipped("NegZ", "Top")],
     NegY |-> [Left |-> Swapped("NegX", "Bottom"), Right |-> Crossed("PosX", "Bottom"),
               Top |-> Flipped("NegZ", "Bottom"), Bottom |-> Straight("PosZ", "Bottom")],
     PosZ |-> [Left |-> Straight("NegX", "Left"), Right |-> Straight("PosX", "Right"),
               Top |-> Straight("PosY", "Top"), Bottom |-> Straight("NegY", "Bottom")],
     NegZ |-> [Left |-> Straight("PosX", "Left"), Right |-> Straight("NegX", "Right"),
               Top |-> Flipped("PosY", "Bottom"), Bottom |-> Flipped("NegY", "Top")]]

\* map_cross_face_coordinate; the result is a pair.
SwapFlip(p, u, v, extent) ==
    LET s == IF p.swap THEN <<v, u>> ELSE <<u, v>>
    IN  IF p.flip THEN <<extent - 1 - s[1], extent - 1 - s[2]>> ELSE s

MapCrossFace(p, u, v, extent) ==
    LET m == SwapFlip(p, u, v, extent)
    IN  CASE p.edge = "Left" -> <<0, m[2]>>
          [] p.edge = "Right" -> <<extent - 1, m[2]>>
          [] p.edge = "Bottom" -> <<m[1], 0>>
          [] p.edge = "Top" -> <<m[1], extent - 1>>

Clamped(a, n) == IF a < 0 THEN 0 ELSE IF a >= n THEN n - 1 ELSE a

EdgeCrossed(x, z, n) ==
    IF x < 0 THEN "Left" ELSE IF x >= n THEN "Right" ELSE IF z < 0 THEN "Bottom" ELSE "Top"

OnFace(x, z, n) == x \in 0..(n - 1) /\ z \in 0..(n - 1)
-----------------------------------------------------------------------------
(* offset_chunk_address *)

\* A walker stands on a chunk and carries the +x and +z axes of the face it began on.
WalkerAt(f, x, z) == [face |-> f, x |-> x, z |-> z, axis_x |-> <<1, 0>>, axis_z |-> <<0, 1>>]

\* mutant: the axes of the first face are kept
TurnedNot(p, edge, axis) == axis

\* transform_axis: along the edge as positions go, across it from outward to inward
Turned(p, edge, axis) ==
    LET from_u == edge \in {"Left", "Right"}
        outward == (IF from_u THEN axis[1] ELSE axis[2])
                     * (IF edge \in {"Right", "Top"} THEN 1 ELSE -1)
        along == IF from_u THEN <<0, axis[2]>> ELSE <<axis[1], 0>>
        mapped == IF p.swap THEN <<along[2], along[1]>> ELSE along
        sign == IF p.flip THEN -1 ELSE 1
        inward == outward * (IF p.edge \in {"Left", "Bottom"} THEN 1 ELSE -1)
    IN  IF p.edge \in {"Left", "Right"} THEN <<inward, sign * mapped[2]>>
        ELSE <<sign * mapped[1], inward>>

\* One step of walk, by the pair dir
WalkStep(w, dir) ==
    LET x == w.x + dir[1]
        z == w.z + dir[2]
        edge == EdgeCrossed(x, z, Chunks)
        p == EdgePairings[w.face][edge]
        m == MapCrossFace(p, x, z, Chunks)
    IN  IF OnFace(x, z, Chunks) THEN [w EXCEPT !.x = x, !.z = z]
        ELSE [face |-> p.face, x |-> Clamped(m[1], Chunks), z |-> Clamped(m[2], Chunks),
              axis_x |-> Turned(p, edge, w.axis_x), axis_z |-> Turned(p, edge, w.axis_z)]

Times(axis, sign) == <<axis[1] * sign, axis[2] * sign>>

StepX(w, sign) == WalkStep(w, Times(w.axis_x, sign))
StepZ(w, sign) == WalkStep(w, Times(w.axis_z, sign))

\* walk: as many steps as delta says, each in its direction
Sign(delta) == IF delta > 0 THEN 1 ELSE -1
Abs(delta) == IF delta < 0 THEN -delta ELSE delta

WalkX(w, delta) ==
    LET after[i \in 0..Abs(delta)] ==
            IF i = 0 THEN w ELSE StepX(after[i - 1], Sign(delta))
    IN  after[Abs(delta)]

WalkZ(w, delta) ==
    LET after[i \in 0..Abs(delta)] ==
            IF i = 0 THEN w ELSE StepZ(after[i - 1], Sign(delta))
    IN  after[Abs(delta)]

OffsetChunkAddress(w, dx, dz) == WalkZ(WalkX(w, dx), dz)

Place(w) == <<w.face, w.x, w.z>>
ChunkCorners(w) == Corners(w.face, w.x, w.z, Chunks)

StreamRadius == Radius + 1

\* collect_stream_chunks, in one radial row
StreamChunks(w) ==
    {Place(OffsetChunkAddress(w, dx, dz)) :
        dx \in -StreamRadius..StreamRadius, dz \in -StreamRadius..StreamRadius}
-----------------------------------------------------------------------------
(* Blocks.  An address is a face, a chunk and a block in it. *)

BlocksAlong == 0..(BlocksPerChunk - 1)
BlockSteps == {<<-1, 0>>, <<1, 0>>, <<0, -1>>, <<0, 1>>}

Address(f, cx, cz, bx, bz) == [face |-> f, cx |-> cx, cz |-> cz, bx |-> bx, bz |-> bz]

\* The chunk a coordinate of a block belongs to, relative to the block's own
Carry(b) == IF b < 0 THEN -1 ELSE IF b >= BlocksPerChunk THEN 1 ELSE 0

\* BlockWorld::neighbors: what left the face is mapped, then kept on the face.
BlockNeighbour(a, d) ==
    LET bx == a.bx + d[1]
        bz == a.bz + d[2]
        cx == a.cx + Carry(bx)
        cz == a.cz + Carry(bz)
        p == EdgePairings[a.face][EdgeCrossed(bx, bz, BlocksPerChunk)]
        c == MapCrossFace(p, cx, cz, Chunks)
        b == MapCrossFace(p, bx % BlocksPerChunk, bz % BlocksPerChunk, BlocksPerChunk)
    IN  IF OnFace(cx, cz, Chunks)
        THEN Address(a.face, cx, cz, bx % BlocksPerChunk, bz % BlocksPerChunk)
        ELSE Address(p.face, Clamped(c[1], Chunks), Clamped(c[2], Chunks), b[1], b[2])

\* resolve_neighbor_address in build_chunk_mesh: kept on the face, then mapped
MeshNeighbour(a, d) ==
    LET bx == a.bx + d[1]
        bz == a.bz + d[2]
        cx == a.cx + Carry(bx)
        cz == a.cz + Carry(bz)
        p == EdgePairings[a.face][EdgeCrossed(cx, cz, Chunks)]
        c == MapCrossFace(p, Clamped(cx, Chunks), Clamped(cz, Chunks), Chunks)
        b == MapCrossFace(p, bx % BlocksPerChunk, bz % BlocksPerChunk, BlocksPerChunk)
    IN  IF OnFace(cx, cz, Chunks)
        THEN Address(a.face, cx, cz, bx % BlocksPerChunk, bz % BlocksPerChunk)
        ELSE Address(p.face, c[1], c[2], b[1], b[2])

BlockCorners(a) ==
    Corners(a.face, a.cx * BlocksPerChunk + a.bx, a.cz * BlocksPerChunk + a.bz, Chunks * BlocksPerChunk)

\* chunks_touching_block
EdgeOffset(b) == IF b = 0 THEN -1 ELSE IF b = BlocksPerChunk - 1 THEN 1 ELSE 0

ChunksTouching(a) ==
    {Place(OffsetChunkAddress(WalkerAt(a.face, a.cx, a.cz), dx, dz)) :
        dx \in {0, EdgeOffset(a.bx)}, dz \in {0, EdgeOffset(a.bz)}}
-----------------------------------------------------------------------------
(* A walk straight ahead, from any chunk in any direction, on and on *)

VARIABLES
    start,      \* the walker at the beginning
    walker,     \* the walker
    before,     \* the walker one step earlier
    heading,    \* the axis walked along and the sign
    taken       \* steps taken on this round of the planet

cube_vars == <<start, walker, before, heading, taken>>

Starts == {WalkerAt(f, x, z) : f \in Faces, x \in 0..(Chunks - 1), z \in 0..(Chunks - 1)}

CubeInit ==
    /\ start \in Starts
    /\ heading \in {"x", "z"} \X {-1, 1}
    /\ walker = start /\ before = start
    /\ taken = 0

Ahead == IF heading[1] = "x" THEN StepX(walker, heading[2]) ELSE StepZ(walker, heading[2])

WalkOn ==
    /\ walker' = Ahead
    /\ before' = walker
    /\ taken' = (taken % (4 * Chunks)) + 1
    /\ UNCHANGED <<start, heading>>

CubeNext == WalkOn

CubeSpec == CubeInit /\ [][CubeNext]_cube_vars
-----------------------------------------------------------------------------
(* Properties *)

\* Once for every start: what is asked of a place is asked here.
AtStart == taken = 0 /\ heading = <<"x", 1>>

\* The streamed area leaves the face in one direction at most.
AwayFromCorners(w) ==
    \E c \in {w.x, w.z} : {c - StreamRadius, c + StreamRadius} \subseteq 0..(Chunks - 1)

\* A walk goes straight: each step leads to a chunk that shares an edge with the
\* one left, opposite to the edge it was entered by, over any number of face edges,
\* and once around the planet it is back where it began, facing the same way.
\* About offset_chunk_address and planet_blocks.cpp: "without that, steps after a
\* crossing kept the old face's axis and sign and drifted sideways or doubled back".
WalksGoStraight ==
    /\ taken > 0 =>
        LET shared == ChunkCorners(before) \cap ChunkCorners(walker)
        IN  Cardinality(shared) = 2 /\ shared \cap ChunkCorners(Ahead) = {}
    /\ taken = 4 * Chunks => walker = start

\* The neighbour of a block is the one that touches it, also across the edges and at
\* the corners of the cube; the mesh builder finds the same one; and an edit of the
\* block remeshes the chunk it is in.  About BlockWorld::neighbors,
\* resolve_neighbor_address and chunks_touching_block.
NeighboursTouch ==
    AtStart =>
        \A bx, bz \in BlocksAlong, d \in BlockSteps :
            LET a == Address(start.face, start.x, start.z, bx, bz)
                b == BlockNeighbour(a, d)
            IN  /\ Cardinality(BlockCorners(a) \cap BlockCorners(b)) = 2
                /\ b = MeshNeighbour(a, d)
                /\ <<b.face, b.cx, b.cz>> \in ChunksTouching(a)

\* Every chunk within the radius is streamed with its neighbours on all sides, on
\* whatever faces they are, as long as the streamed area holds no corner of the cube.
\* About collect_stream_chunks: "generate/mesh neighbors so cross-chunk face culling
\* is correct at sector seams".  Around a corner a chunk may miss a neighbour that
\* no walk along x and then z of the radius leads to.
HaloIsComplete ==
    AtStart /\ AwayFromCorners(start) =>
        LET streamed == StreamChunks(start)
        IN  \A dx, dz \in -Radius..Radius :
                LET w == OffsetChunkAddress(start, dx, dz)
                IN  \A sign \in {-1, 1} :
                        {Place(StepX(w, sign)), Place(StepZ(w, sign))} \subseteq streamed

\* What the player sees at a seam: the blocks on both sides touch, and the mesh of
\* either is built with the chunk that holds the other.
SeamsHold == NeighboursTouch /\ HaloIsComplete

\* A walk over the cube goes straight and comes back; at a seam of the cube blocks
\* touch, and are streamed with their neighbours.
CubeIsWhole == WalksGoStraight /\ SeamsHold
=============================================================================
