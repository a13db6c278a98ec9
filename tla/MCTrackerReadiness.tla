------------------------- MODULE MCTrackerReadiness -------------------------
(***************************************************************************)
(* Two base stations.  One tick is the time between two polls; the cohort  *)
(* settles in two, a map in three, and three samples over two ticks prove  *)
(* the Tracker stable.  A gap of four ticks outlives every window.         *)
(***************************************************************************)
EXTENDS TrackerReadiness

CONSTANTS a, b

Reads(epoch, generation, cohort, scene, covered) ==
  [bridge |-> TRUE, epoch |-> epoch, generation |-> generation,
   cohort |-> cohort, scene |-> scene, covered |-> covered]

One(x) == [l \in {a, b} |-> IF l = a THEN x ELSE None]
Two(x, y) == [l \in {a, b} |-> IF l = a THEN x ELSE y]

MCHealth ==
  { NoReading,
    Reads(0, 0, {}, EmptyScene, FALSE),
    Reads(1, 0, {}, EmptyScene, FALSE),
    Reads(1, 1, {a}, One(0), TRUE),
    Reads(1, 1, {a, b}, One(0), TRUE),          \* b is heard but not solved
    Reads(1, 2, {a, b}, Two(0, 0), FALSE),      \* solved from too few scenes
    Reads(1, 2, {a, b}, Two(0, 0), TRUE),
    Reads(1, 3, {a, b}, Two(1, 0), TRUE),       \* refined by a drift in bounds
    Reads(1, 4, {a, b}, Two(2, 0), TRUE),       \* and once more: out of bounds
    Reads(2, 1, {a}, One(0), TRUE) }            \* libsurvive was restarted

MCSample ==
  { None,
    [seq |-> 1, pose |-> 0, live |-> TRUE],
    [seq |-> 2, pose |-> 0, live |-> TRUE],
    [seq |-> 2, pose |-> 2, live |-> TRUE] }
=============================================================================
