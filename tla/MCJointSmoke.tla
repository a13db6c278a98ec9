----------------------------- MODULE MCJointSmoke -----------------------------
(***************************************************************************)
(* One body joint, found at 2, with one tier of 2: its range admits the    *)
(* way up to 3 with its margin and no way of the tier beyond it, so one    *)
(* direction is skipped.  The gripper is found closed, or open.            *)
(***************************************************************************)
EXTENDS JointSmoke

CONSTANTS t1, t2

MCPosition == 0 .. 3
MCRest == <<2, 0>>
MCRestOpen == <<2, 2>>
MCLimit == <<[lo |-> -1, hi |-> 4]>>
MCTiers == <<2>>
=============================================================================
