--------------------------- MODULE PlanetStreamer ---------------------------
(***************************************************************************)
(* The quadtree of a planet's terrain and what is drawn of it: an update   *)
(* selects nodes by frustum and screen space error, generates some of the  *)
(* meshes that are missing, draws what is there of the selection, and      *)
(* evicts what was not drawn for long.                                     *)
(*                                                                         *)
(* A node is the path to it, a root or a node with the number of a child;  *)
(* nodes that were not created yet count as empty.  The state of a node    *)
(* and of its chunk in resident_chunks_ always agree between updates and   *)
(* are one variable; generation begins and ends within an update.  A view  *)
(* stands for a camera: what it sees and where it wants finer nodes.       *)
(***************************************************************************)
EXTENDS Integers, Sequences, FiniteSets

CONSTANTS
    Roots,          \* how many faces
    Fan,            \* children of a node (4)
    MaxLod,
    Cameras,        \* records: the nodes in the frustum, and those with a large error
    Budget,         \* generation_budget_per_update
    MaxVisible,     \* max_visible_chunks
    EvictAfter      \* k_evict_after_frames

\* The nodes of a face
Face(r) == UNION {{<<r>> \o p : p \in [1..lod -> 1..Fan]} : lod \in 0..MaxLod}
Nodes == UNION {Face(r) : r \in 1..Roots}
IsLeaf(n) == Len(n) = MaxLod + 1

Children(n) == {Append(n, c) : c \in 1..Fan}

ASSUME PlanetStreamerAssumption ==
    /\ {Roots, Fan, MaxLod, Budget, MaxVisible, EvictAfter} \subseteq Nat
    /\ \A v \in Cameras : v.sees \subseteq Nodes /\ IsFiniteSet(v.sees)

\* The node and those above it
Upward(n) == {SubSeq(n, 1, k) : k \in 1..Len(n)}

VARIABLES
    planet,     \* planet_, one of two
    camera,     \* the view of the last update
    state,      \* of each node
    unused,     \* node -> updates since it was last selected, up to EvictAfter + 1
    drawn       \* visible_meshes_, as nodes

streamer_vars == <<planet, camera, state, unused, drawn>>

StreamerTypeOK ==
    /\ planet \in {1, 2}
    /\ camera \in Cameras
    /\ state \in [Nodes -> {"Empty", "Requested", "Resident"}]
    /\ unused \in [Nodes -> 0..EvictAfter + 1]
    /\ drawn \subseteq Nodes

Aged(u) == IF u <= EvictAfter THEN u + 1 ELSE u

\* init
StreamerInit ==
    /\ planet = 1
    /\ camera \in Cameras
    /\ state = [n \in Nodes |-> "Empty"]
    /\ unused = [n \in Nodes |-> 0]
    /\ drawn = {}
-----------------------------------------------------------------------------
(* PlanetLODSelector *)

\* mutant: one child that can be drawn is enough
AnyChildReady(n) == \E c \in Children(n) : state[c] = "Resident"

\* children_ready: all of them can be drawn.
ChildrenReady(n) == \A c \in Children(n) : state[c] = "Resident"

WantsFiner(v, n) == n \in v.finer /\ ~IsLeaf(n)

\* The nodes that select_node is called for and that are in the frustum
Reached(v) ==
    {n \in v.sees :
        \A a \in Upward(n) \ {n} : a \in v.sees /\ WantsFiner(v, a) /\ ChildrenReady(a)}

Visible(v) == {n \in Reached(v) : ~(WantsFiner(v, n) /\ ChildrenReady(n))}

Needed(v) == Reached(v) \cup UNION {Children(n) : n \in {m \in Reached(v) : WantsFiner(v, m)}}

Loaded == {n \in Nodes : state[n] = "Resident"}
-----------------------------------------------------------------------------
(* PlanetStreamer *)

\* last_used_frame
AgedUnless(visible) == [n \in Nodes |-> IF n \in visible THEN 0 ELSE Aged(unused[n])]

\* What of a set is taken when k of it may be, in the order of the selection, which
\* is left open
Upto(k, s) == IF Cardinality(s) <= k THEN {s} ELSE {t \in SUBSET s : Cardinality(t) = k}

Update(v) ==
    LET needed == Needed(v)
        visible == Visible(v)
        aged == AgedUnless(visible)
    IN  \E generated \in Upto(Budget, needed \ Loaded) :
        LET present == Loaded \cup generated
            evicted == {n \in Loaded : aged[n] > EvictAfter}
        IN  /\ camera' = v
            /\ unused' = aged
            /\ drawn' \in Upto(MaxVisible, visible \cap present)
            /\ state' = [n \in Nodes |->
                            IF n \in evicted \ drawn' THEN "Empty"
                            ELSE IF n \in present THEN "Resident"
                            ELSE IF n \in needed THEN "Requested"
                            ELSE state[n]]
            /\ UNCHANGED planet

\* A request for another planet starts over, with an update that follows.
ChangePlanet(v) ==
    /\ planet' = 3 - planet
    /\ camera' = v
    /\ state' = [n \in Nodes |-> "Empty"]
    /\ unused' = [n \in Nodes |-> 0]
    /\ drawn' = {}

StreamerNext == \E v \in Cameras : Update(v) \/ ChangePlanet(v)

StreamerSpec == StreamerInit /\ [][StreamerNext]_streamer_vars
-----------------------------------------------------------------------------
(* Properties *)

\* The parts of the planet that the view shows
InSight(v) == {l \in Nodes : IsLeaf(l) /\ Upward(l) \subseteq v.sees}

\* The nodes drawn for a part of the planet
Over(l) == Upward(l) \cap drawn

\* What is drawn is loaded, and no part of the planet is drawn by two nodes, which
\* would fight for it.  About select_node, which ends at a node or goes on to its
\* children, and about what update evicts.
DrawnOnce ==
    /\ drawn \subseteq Loaded
    /\ \A n \in drawn : Upward(n) \cap drawn = {n}

\* No hole opens by refining or coarsening: a part of the planet in sight is drawn,
\* finer or coarser, wherever the camera goes and whatever is left for later updates,
\* as long as the root above it was or gets loaded.  About children_ready in
\* select_node and generate_requested_chunks.  When the root was evicted a hole does
\* open: last_used_frame is that of the drawn nodes only.  It needs room for all that
\* is selected in max_visible_chunks.
SightIsCovered ==
    [][planet' = planet /\ Cardinality(Visible(camera')) <= MaxVisible =>
           \A l \in InSight(camera') :
               SubSeq(l, 1, 1) \in Loaded \cup Loaded' => Over(l)' # {}]_streamer_vars

\* The two together: each part of the planet in sight is drawn, and once.
NoHoleOpens == []DrawnOnce /\ SightIsCovered
=============================================================================
