----------------------------- MODULE MCPikaLeader -----------------------------
(***************************************************************************)
(* Three positions: a step of one is quarantined, a step of two is a jump. *)
(* A session that is coordinated by its client and one that is not.        *)
(***************************************************************************)
EXTENDS PikaLeader

MCModes == { [auto |-> FALSE, cumulative |-> FALSE],
             [auto |-> TRUE, cumulative |-> TRUE] }
=============================================================================
