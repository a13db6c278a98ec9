------------------------------ MODULE MotionGate ------------------------------
(***************************************************************************)
(* What the session-level motion gate of a follower promises to the        *)
(* program that orchestrates a session (protos/device.proto, HoldRequest   *)
(* and ResumeRequest): while the gate is closed no frame, however old or   *)
(* misguided, changes the command; a Hold may only re-anchor it at the     *)
(* measured pose; and the gate opens again only after a reference captured *)
(* since it was closed, or with a new connection.                          *)
(***************************************************************************)
CONSTANT Posture    \* the poses of arm and gripper

VARIABLES
  closed,     \* is the gate closed?
  fresh,      \* has a reference been captured since the gate last closed?
  command,    \* the pose commanded
  measured    \* the pose the robot is in

vars == <<closed, fresh, command, measured>>

Init ==
  /\ closed = FALSE
  /\ fresh = FALSE
  /\ command \in Posture
  /\ measured \in Posture

\* Hold closes an open gate; a repeated Hold keeps the reference it has.
Close ==
  /\ closed' = TRUE
  /\ fresh' = (closed /\ fresh)
  /\ command' = measured
  /\ UNCHANGED measured

Capture ==
  /\ fresh' = TRUE
  /\ UNCHANGED <<closed, command, measured>>

Open ==
  /\ closed
  /\ fresh
  /\ closed' = FALSE
  /\ UNCHANGED <<fresh, command, measured>>

NewSession ==
  /\ closed' = FALSE
  /\ fresh' = TRUE
  /\ command' \in Posture
  /\ measured' \in Posture

\* Frames and the watchdog move the command of an open gate.
Move ==
  /\ ~closed
  /\ command' \in Posture
  /\ measured' \in Posture
  /\ UNCHANGED <<closed, fresh>>

\* The robot settles under a command that does not change.
Settle ==
  /\ measured' \in Posture
  /\ UNCHANGED <<closed, fresh, command>>

Next == Close \/ Capture \/ Open \/ NewSession \/ Move \/ Settle

Spec == Init /\ [][Next]_vars
=============================================================================
