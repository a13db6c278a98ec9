---------------------------- MODULE MCS1Follower ----------------------------
(***************************************************************************)
(* A small S1 follower: four joint positions that are four Cartesian       *)
(* positions, an obstacle at the high end that open fingers (aperture 1)   *)
(* bring one position nearer.                                              *)
(***************************************************************************)
EXTENDS S1Follower

MCFK == [j \in 0 .. 3 |-> j]
MCWorkspace == 0 .. 3
MCClearance == [c \in (0 .. 3) \X {0, 1} |->
                  [pair |-> "wall", dist |-> IF c[1] + c[2] >= 4 THEN 0
                                             ELSE 4 - c[1] - c[2]]]
MCHome == [arm |-> 1, grip |-> 0]
MCDelta == {-1, 0, 2}
=============================================================================
