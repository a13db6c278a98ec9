-------------------------- MODULE MCPikaCalibration --------------------------
(***************************************************************************)
(* The eight steps of the Pika, two clients that may die, three step       *)
(* threads.                                                                *)
(***************************************************************************)
EXTENDS PikaCalibration

CONSTANTS t1, t2, t3

MCPlace ==
  [k \in 0 .. 7 |-> <<"neutral", "forward", "neutral", "right", "neutral", "up",
                      "closed", "open">>[k + 1]]
=============================================================================
