------------------------------ MODULE S1Follower ------------------------------
(***************************************************************************)
(* The MuJoCo S1 follower server (follower/mujoco_s1_follower_server.py,   *)
(* class MuJoCoS1Servicer): one arm and its gripper, driven by pose-delta  *)
(* frames, with an action watchdog, a latched session hold and the         *)
(* reference epochs that gate Resume.                                      *)
(*                                                                         *)
(* Every handler holds self._lock from its first read to its last write,   *)
(* so a handler, and one iteration of the observation stream, is one       *)
(* action.  Time is abstracted to what the code compares: the last frame   *)
(* was never received (None), is within the stale timeout, or beyond it.   *)
(***************************************************************************)
EXTENDS PoseDeltaLaw

CONSTANTS
  Home,             \* the home pose of the arm and the gripper
  Delta,            \* finite deltas a leader sends
  ResetOnConnect,   \* the reset_on_connect option
  MaxEpoch,         \* bound: references captured in one run
  MaxHolds          \* bound: holds latched in one run

ASSUME S1Assumption ==
  /\ Home \in Pose
  /\ Delta \subseteq Int
  /\ Invalid \notin Delta
  /\ ResetOnConnect \in BOOLEAN
  /\ MaxEpoch \in Nat
  /\ MaxHolds \in Nat

VARIABLES
  connected,
  last_action,           \* _last_action_monotonic, as its age
  watchdog_held,
  session_hold_latched,
  hold_epoch,
  reference_epoch,
  hold_reference_epoch,
  law,                   \* the memory of the PoseDeltaLaw
  target,                \* _target_ctrl of the arm and the gripper
  qpos,                  \* _data.qpos of the arm and the gripper
  last_safety            \* _last_safety: its flags and applied mask

vars == <<connected, last_action, watchdog_held, session_hold_latched,
          hold_epoch, reference_epoch, hold_reference_epoch, law, target,
          qpos, last_safety>>

Age == {"never", "fresh", "expired"}
Flag == {"held", "session-hold", "stale", "collision"}
Applied == {"none", "gripper", "all"}
Request == [delta : Delta \cup {Invalid}, grip : Grip]

NoReport == [flags |-> {}, applied |-> "none"]
SessionHold == [flags |-> {"held", "session-hold"}, applied |-> "none"]

TypeOK ==
  /\ connected \in BOOLEAN
  /\ last_action \in Age
  /\ watchdog_held \in BOOLEAN
  /\ session_hold_latched \in BOOLEAN
  /\ hold_epoch \in Nat
  /\ reference_epoch \in Nat
  /\ hold_reference_epoch \in Nat
  /\ law \in LawState
  /\ law.arm_ref # None
  /\ target \in Pose
  /\ qpos \in Pose
  /\ last_safety \in [flags : SUBSET Flag, applied : Applied]

Init ==
  /\ connected = FALSE
  /\ last_action = "never"
  /\ watchdog_held = FALSE
  /\ session_hold_latched = FALSE
  /\ hold_epoch = 0
  /\ reference_epoch = 0
  /\ hold_reference_epoch = 0
  /\ law = LockReference(ResetState, Home)
  /\ target = Home
  /\ qpos = Home
  /\ last_safety = NoReport

-----------------------------------------------------------------------------
(* Connection and reference *)

StartPose == IF ResetOnConnect THEN Home ELSE qpos

NewSession(memory) ==
  /\ reference_epoch < MaxEpoch
  /\ connected' = TRUE
  /\ last_action' = "never"
  /\ watchdog_held' = FALSE
  /\ session_hold_latched' = FALSE
  /\ reference_epoch' = reference_epoch + 1
  /\ law' = memory
  /\ target' = IF ResetOnConnect THEN Home ELSE target
  /\ qpos' = StartPose
  /\ last_safety' = NoReport
  /\ UNCHANGED <<hold_epoch, hold_reference_epoch>>

\* Faulty variant: the law is reset and no reference is locked.
ConnectWithoutReference == NewSession(ResetState)

Connect == NewSession(LockReference(ResetState, StartPose))

\* A client that leaves stops the watchdog, and nothing else.
Disconnect ==
  /\ connected' = FALSE
  /\ UNCHANGED <<last_action, watchdog_held, session_hold_latched, hold_epoch,
                 reference_epoch, hold_reference_epoch, law, target, qpos,
                 last_safety>>

NewEpoch ==
  /\ reference_epoch < MaxEpoch
  /\ reference_epoch' = reference_epoch + 1
  /\ UNCHANGED <<connected, last_action, watchdog_held, session_hold_latched,
                 hold_epoch, hold_reference_epoch, target, qpos, last_safety>>

\* Faulty variant: the epoch advances although the reference was not locked.
SetReferenceUnlocked == NewEpoch /\ UNCHANGED law

SetReference ==
  /\ NewEpoch
  /\ law' = LockReference(law, qpos)

-----------------------------------------------------------------------------
(* Frames *)

\* Arm and gripper both keep still: stale frames, collisions not attributed to
\* one of the two, and everything that could not be judged.
\* Faulty variant: a stale frame counts as a recoverable arm hold.
AtomicHoldButStale(sol) == sol.held /\ sol.collided

AtomicHold(sol) ==
  \/ sol.stale
  \/ sol.held /\ sol.collided
  \/ sol.reason \in {"input-invalid", "checker-error"}

AppliedMask(sol) ==
  IF ~sol.held THEN "all" ELSE IF AtomicHold(sol) THEN "none" ELSE "gripper"

FlagsOf(sol) ==
  { f \in Flag : \/ f = "held" /\ sol.held
                 \/ f = "stale" /\ sol.stale
                 \/ f = "collision" /\ sol.collided /\ sol.reason # "checker-error" }

Stale == watchdog_held \/ last_action = "expired"

\* A frame under a session hold is answered with the commands in force; any
\* other goes through the law, whose answer is what the actuators follow.
SendAction(req) ==
  \/ /\ session_hold_latched
     /\ last_safety' = SessionHold
     /\ UNCHANGED <<connected, last_action, watchdog_held, session_hold_latched,
                    hold_epoch, reference_epoch, hold_reference_epoch, law,
                    target, qpos>>
  \/ /\ ~session_hold_latched
     /\ \E out \in Solve(law, req, qpos, Stale) :
          /\ law' = out.law
          /\ target' = [ arm  |-> IF out.sol.stale THEN qpos.arm
                                  ELSE out.sol.arm,
                         grip |-> IF out.sol.stale THEN qpos.grip
                                  ELSE IF AtomicHold(out.sol) THEN target.grip
                                  ELSE req.grip ]
          /\ last_safety' = [ flags |-> FlagsOf(out.sol),
                              applied |-> AppliedMask(out.sol) ]
     /\ last_action' = "fresh"
     /\ watchdog_held' = FALSE
     /\ UNCHANGED <<connected, session_hold_latched, hold_epoch,
                    reference_epoch, hold_reference_epoch, qpos>>

-----------------------------------------------------------------------------
(* Session hold *)

LatchHold ==
  /\ session_hold_latched \/ hold_epoch < MaxHolds
  /\ IF session_hold_latched
     THEN UNCHANGED <<hold_epoch, hold_reference_epoch>>
     ELSE /\ hold_epoch' = hold_epoch + 1
          /\ hold_reference_epoch' = reference_epoch
  /\ session_hold_latched' = TRUE
  /\ target' = qpos
  /\ last_safety' = SessionHold
  /\ UNCHANGED <<connected, last_action, reference_epoch, law, qpos>>

\* Faulty variant: the watchdog is not told of the hold.
HoldWithoutWatchdog == LatchHold /\ UNCHANGED watchdog_held

Hold == LatchHold /\ watchdog_held' = TRUE

ReleaseHold ==
  /\ session_hold_latched
  /\ session_hold_latched' = FALSE
  /\ watchdog_held' = FALSE
  /\ last_action' = "never"
  /\ last_safety' = NoReport
  /\ UNCHANGED <<connected, hold_epoch, reference_epoch, hold_reference_epoch,
                 law, target, qpos>>

\* Faulty variant: the reference the hold was latched under is good enough.
ResumeOnOldReference ==
  ReleaseHold /\ reference_epoch >= hold_reference_epoch

\* Refused (the call aborts, nothing changes) without a newer reference; a
\* Resume of a gate that is open answers and changes nothing.
Resume == ReleaseHold /\ reference_epoch > hold_reference_epoch

-----------------------------------------------------------------------------
(* The observation stream and time *)

WatchdogDue == connected /\ last_action = "expired" /\ ~watchdog_held

\* The plant: the arm reaches any neighbouring position and the gripper any
\* aperture, whatever is commanded (lag of the smoothed control, gravity,
\* contact).  The guarantees below do not lean on how well it tracks.
PlantStep(from) ==
  { p \in Pose : Distance(p.arm, from.arm) <= 1 }

Watchdog == target' = qpos /\ watchdog_held' = TRUE

Physics ==
  /\ qpos' \in PlantStep(qpos)
  /\ UNCHANGED <<connected, last_action, session_hold_latched, hold_epoch,
                 reference_epoch, hold_reference_epoch, law, last_safety>>

\* Faulty variant: the watchdog re-anchors without recording that it did.
ObserveUnrecorded ==
  /\ target' = IF WatchdogDue THEN qpos ELSE target
  /\ UNCHANGED watchdog_held
  /\ Physics

\* One iteration of GetObservation: the watchdog, then the physics.
Observe ==
  /\ IF WatchdogDue THEN Watchdog ELSE UNCHANGED <<target, watchdog_held>>
  /\ Physics

\* The stale timeout passes without a frame.
Expire ==
  /\ last_action = "fresh"
  /\ last_action' = "expired"
  /\ UNCHANGED <<connected, watchdog_held, session_hold_latched, hold_epoch,
                 reference_epoch, hold_reference_epoch, law, target, qpos,
                 last_safety>>

Next ==
  \/ Connect
  \/ Disconnect
  \/ SetReference
  \/ \E req \in Request : SendAction(req)
  \/ Hold
  \/ Resume
  \/ Observe
  \/ Expire

Spec == Init /\ [][Next]_vars

\* The stream generator is resumed every physics period while a client reads
\* it; nothing forces clients to send, to reconnect or to resume.
FairSpec == Spec /\ WF_vars(Observe)

-----------------------------------------------------------------------------
(* Properties *)

\* The joints the law believes it sent are the joints the actuators are
\* commanded to, unless a hold has re-anchored the actuators at the measured
\* pose: the rate cap and the path check start from those joints.
CommandAnchored ==
  law.last_sent # None /\ ~watchdog_held => target.arm = law.last_sent

\* A frame that is applied moves the arm command by at most one capped step:
\* from the command in force, or from the measured pose when the law has sent
\* nothing since the reference.  It holds across holds, resumes, references and
\* reconnections because of the reference epochs.
AppliedStepBounded ==
  [][ /\ last_safety'.applied = "all"
      /\ last_action' = "fresh"
      /\ target'.arm # target.arm
      => Distance(target'.arm,
                  IF law.last_sent = None THEN qpos.arm ELSE target.arm)
           <= MaxStep ]_vars

\* The first frame after a gap longer than the stale timeout is discarded
\* whole, arm and gripper, whatever else is wrong with it and whether or not an
\* observation stream has let the watchdog notice the gap.
GapDiscardsFrame ==
  [][ (watchdog_held \/ last_action = "expired") /\ last_action' = "fresh"
      => last_safety'.applied = "none" ]_vars

\* The session gate: while a hold is latched only a Hold moves the command, and
\* only to the measured pose; the latch opens with a reference captured since,
\* or with a new connection.
Gate == INSTANCE MotionGate WITH
  Posture  <- Pose,
  closed   <- session_hold_latched,
  fresh    <- reference_epoch > hold_reference_epoch,
  command  <- target,
  measured <- qpos

ImplementsMotionGate == Gate!Spec

\* A connected client that stops sending is noticed: the stream of observations
\* re-anchors the command, unless a frame, a Resume, a hold or a disconnection
\* comes first.
WatchdogReacts == WatchdogDue ~> ~WatchdogDue

\* "re-anchor the hold at measured qpos so a delayed controller target cannot
\* resume after the gap" (tests/test_pose_delta_law.py): a frame that is not
\* applied leaves the arm command in force or re-anchors it at the measured
\* joints.
HeldFrameKeepsCommand ==
  [][ last_safety'.applied # "all"
      => target'.arm \in {target.arm, qpos.arm, Home.arm} ]_vars
=============================================================================
