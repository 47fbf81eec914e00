------------------------------ MODULE MCGround ------------------------------
(***************************************************************************)
(* The ground of the planets: the chunks around the player and the scene   *)
(* made of them, and next to it four parts that share no state with it or  *)
(* with each other.  A behaviour picks one and runs only that one, while   *)
(* the others rest in an initial state.                                    *)
(***************************************************************************)
EXTENDS TerrainScene, CubeNet, PlanetStreamer, ChunkMesh, GlobeDetail

CONSTANTS Voxov, Aster

VARIABLE part

\* From afar, from close by, and close by looking to either side, and away
CameraViews ==
    {[sees |-> Nodes, finer |-> {}],
     [sees |-> Nodes, finer |-> Nodes],
     [sees |-> Nodes, finer |-> {<<1>>, <<1, 1>>}],
     [sees |-> {<<1>>, <<1, 1>>, <<1, 1, 1>>, <<1, 2>>, <<1, 2, 2>>}, finer |-> Nodes],
     [sees |-> {<<1>>, <<1, 2>>, <<1, 2, 1>>, <<1, 2, 2>>}, finer |-> {<<1>>, <<1, 2>>}],
     [sees |-> {}, finer |-> {}]}

\* On both sides of every threshold, and in between
ThresholdDiameters ==
    UNION {{n - 1, n, n + 1} : n \in {76, 96, 120, 153, 192, 240, 307, 384, 480, 700}}

GroundInit ==
    /\ part \in {"scene", "net", "streamer", "mesh", "globe"}
    /\ Init /\ (part # "scene" => globe.grid = 8)
    /\ CubeInit /\ (part # "net" => start = WalkerAt("PosX", 0, 0) /\ heading = <<"z", 1>>)
    /\ StreamerInit /\ (part # "streamer" => camera.sees = {})
    /\ IF part = "mesh" THEN MeshInit ELSE NothingThere
    /\ DetailInit /\ (part # "globe" => diameter = 700 /\ subdivisions = 64)

\* Everything but the part that was picked
OthersRest ==
    /\ UNCHANGED part
    /\ IF part = "scene" THEN TRUE ELSE UNCHANGED vars
    /\ IF part = "net" THEN TRUE ELSE UNCHANGED cube_vars
    /\ IF part = "streamer" THEN TRUE ELSE UNCHANGED streamer_vars
    /\ IF part = "mesh" THEN TRUE ELSE UNCHANGED mesh_vars
    /\ IF part = "globe" THEN TRUE ELSE UNCHANGED globe_vars

all_vars == <<part, vars, cube_vars, streamer_vars, mesh_vars, globe_vars>>

GroundNext ==
    \/ part = "scene" /\ Frame /\ OthersRest
    \/ part = "net" /\ CubeNext /\ OthersRest
    \/ part = "streamer" /\ StreamerNext /\ OthersRest
    \/ part = "mesh" /\ MeshNext /\ OthersRest
    \/ part = "globe" /\ DetailNext /\ OthersRest
    \/ part = "mesh" /\ UNCHANGED all_vars    \* nothing in reach, or its bound reached

\* Where the scene rests, no frame is due.
GroundSpec ==
    /\ GroundInit
    /\ [][GroundNext]_all_vars
    /\ part = "scene" => WF_vars(Frame)
-----------------------------------------------------------------------------
\* TerrainScene: what the camera asks for is drawn in the end.
GroundIsDrawn == part = "scene" => GroundAppears
=============================================================================
