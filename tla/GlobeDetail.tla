---------------------------- MODULE GlobeDetail ----------------------------
(***************************************************************************)
(* How finely the globe of a body is drawn: planet_globe_subdivisions, and *)
(* what Engine keeps of its last answer.  TerrainScene lets a globe have   *)
(* any grid in any frame; this is which.                                   *)
(*                                                                         *)
(* A camera is where the body appears with some diameter in pixels; from   *)
(* frame to frame it may go anywhere.                                      *)
(***************************************************************************)
EXTENDS Integers

CONSTANT Diameters      \* bound: diameters in pixels, on both sides of every threshold

ASSUME GlobeDetailAssumption == Diameters \subseteq Nat

Finesses == {8, 16, 32, 64}

VARIABLES
    diameter,   \* at which the last frame saw the body
    subdivisions,       \* global_planet_subdivisions_, celestial_subdivisions_; 0: none yet
    turned      \* history: the diameter at which the grid was last changed, and how

globe_vars == <<diameter, subdivisions, turned>>

\* refine_threshold: twelve pixels for each of the cells along an edge the first time
RefineAbove(previous) == IF previous \in Finesses THEN 15 ELSE 12

\* mutant: judged by the cells that there are
TooFineNow(d, g) == g > 8 /\ 10 * d < 96 * g

\* 9.6 pixels for each of the cells of the next coarser grid
TooFine(d, g) == g > 8 /\ 10 * d < 96 * (g \div 2)

\* The first of finer and finer grids at which the loop stops
Refined(d, previous) ==
    LET from  == IF previous \in Finesses THEN previous ELSE 8
        stops == {g \in Finesses : g >= from /\ ~(g < 64 /\ d > RefineAbove(previous) * g)}
    IN  CHOOSE g \in stops : \A h \in stops : g <= h

\* The first of coarser and coarser grids at which the loop stops
Coarsened(d, from) ==
    LET stops == {g \in Finesses : g <= from /\ ~TooFine(d, g)}
    IN  CHOOSE g \in stops : \A h \in stops : g >= h

\* planet_globe_subdivisions
Subdivisions(d, previous) == Coarsened(d, Refined(d, previous))
-----------------------------------------------------------------------------
\* The active body starts with the finest grid, the others without one.
DetailInit ==
    /\ diameter \in Diameters
    /\ subdivisions \in {0, 64}
    /\ turned = [at |-> 0, way |-> "none"]

Turn(d, new) ==
    IF new = subdivisions THEN turned
    ELSE [at |-> d,
          way |-> IF subdivisions = 0 THEN "first" ELSE IF new > subdivisions THEN "finer" ELSE "coarser"]

\* append_celestial_meshes, for the active body as for another
DetailFrame(d) ==
    LET new == Subdivisions(d, subdivisions)
    IN  /\ diameter' = d
        /\ subdivisions' = new
        /\ turned' = Turn(d, new)

\* rebuild_global_planet_surface with its default, at the arrival at a body
Arrive ==
    /\ subdivisions' = 64
    /\ turned' = [at |-> 0, way |-> "none"]
    /\ UNCHANGED diameter

DetailNext == Arrive \/ \E d \in Diameters : DetailFrame(d)

DetailSpec == DetailInit /\ [][DetailNext]_globe_vars
-----------------------------------------------------------------------------
\* A camera that stands still has a globe rebuilt at most once, and one that comes and
\* goes has it refined and coarsened again only when the body has shrunk, or grown, by
\* more than a third: a rebuild samples the whole planet.  About two loops whose
\* thresholds must leave room between them, as test_main.cpp:1520 asks at one distance.
GlobesSettle ==
    subdivisions # 0 =>
        \A d \in Diameters :
             LET new == Subdivisions(d, subdivisions)
             IN  /\ Subdivisions(d, new) = new
                 /\ new < subdivisions /\ turned.way = "finer" => 3 * d < 2 * turned.at
                 /\ new < subdivisions /\ turned.way = "first" => 5 * d <= 4 * turned.at
                 /\ new > subdivisions /\ turned.way = "coarser" => 2 * d > 3 * turned.at
=============================================================================
