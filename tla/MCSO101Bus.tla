------------------------------ MODULE MCSO101Bus ------------------------------
(***************************************************************************)
(* Callers c1, c2 serve bus calls and k1, k2 are calibration threads; s    *)
(* serves Connect and Disconnect.  get_observation, of the leader          *)
(* get_action, stands for the calls that do not start a calibration:       *)
(* send_action is one with an extra guard, send_feedback one of the same   *)
(* kind, and set_reference one that waits for the lock, as every call here *)
(* may.                                                                    *)
(***************************************************************************)
EXTENDS SO101Bus

CONSTANTS c1, c2, k1, k2, s

OneOfEach == {"get_observation", "get_action", "calibrate"}
BothServers == {"follower", "leader"}
FollowerOnly == {"follower"}
=============================================================================
