----------------------------- MODULE PoseDeltaLaw -----------------------------
(***************************************************************************)
(* The control law the follower servers share                              *)
(* (follower/pose_delta_law.py, class PoseDeltaLaw).  The law is a pure    *)
(* step: from its own memory, a request and the measured pose it computes  *)
(* a solution and its next memory, so it is written as operators; a        *)
(* servicer that drives it declares the variables (S1Follower).            *)
(*                                                                         *)
(* Data is abstracted to one arm coordinate.  A pose is a record           *)
(* [arm, grip]: a joint position on the line 0 .. MaxJoint and a gripper   *)
(* aperture.  FK maps a joint position to the hand's Cartesian position;   *)
(* it need not be injective, so one Cartesian target may have several      *)
(* joint solutions (branches).  Clearance gives the distance of a pose to  *)
(* the nearest obstacle and the pair of bodies that distance belongs to.   *)
(*                                                                         *)
(* The solver tries up to five seeds and keeps one result or the worst     *)
(* failure.  What several seeds can lead to is what one of them can lead   *)
(* to, so the operators below quantify over the result of a single one.    *)
(***************************************************************************)
EXTENDS Integers

CONSTANTS
  MaxJoint,       \* joint positions are 0 .. MaxJoint
  Grip,           \* gripper apertures
  FK,             \* [Joint -> Int], Cartesian position of a joint position
  Workspace,      \* Cartesian positions the workspace prefilter admits
  Clearance,      \* [Joint \X Grip -> [pair, dist]]
  MaxStep,        \* max_dq_frame: the largest joint step of one frame
  JumpReset,      \* jump_reset: a solution farther than this changed branch
  EntryMargin,    \* a pose nearer than this to an obstacle collides ...
  ReleaseMargin,  \* ... and the latched gate opens again only beyond this
  None,           \* Python's None
  Invalid         \* a delta that is not finite, or not a rotation

Joint == 0 .. MaxJoint
Pose == [arm : Joint, grip : Grip]

ASSUME LawAssumption ==
  /\ MaxJoint \in Nat
  /\ MaxStep \in Nat \ {0}
  /\ JumpReset \in Nat
  /\ FK \in [Joint -> Int]
  /\ EntryMargin \in Nat
  /\ ReleaseMargin \in Nat
  /\ EntryMargin <= ReleaseMargin
  /\ \A j \in Joint, g \in Grip : Clearance[<<j, g>>].dist \in Nat
  /\ None \notin Int
  /\ Invalid \notin Int

Distance(a, b) == IF a < b THEN b - a ELSE a - b

(***************************************************************************)
(* The law's memory.  _last_sent and _last_joint_action are written at the *)
(* same three places with the same joints, so one field stands for both;   *)
(* _warm_seed is written and never read.                                   *)
(***************************************************************************)
LawState ==
  [ arm_ref          : Int \cup {None},
    last_sent        : Joint \cup {None},
    last_solved      : Joint \cup {None},
    collision_latched : BOOLEAN ]

ResetState ==
  [ arm_ref |-> None, last_sent |-> None, last_solved |-> None,
    collision_latched |-> FALSE ]

LockReference(law, qpos) ==
  [ law EXCEPT !.arm_ref = FK[qpos.arm],
               !.last_sent = None,
               !.last_solved = None ]

-----------------------------------------------------------------------------
(* Collision gate *)

Collided(qpos, release) ==
  Clearance[<<qpos.arm, qpos.grip>>].dist
    < (IF release THEN ReleaseMargin ELSE EntryMargin)

\* A colliding candidate is let through when the pose it leaves collides too,
\* with the same pair of bodies, and the candidate is farther away (or, for the
\* gripper-only probe, not nearer).
Escapes(probe, from, release, nonWorsening) ==
  LET c == Clearance[<<probe.arm, probe.grip>>]
      f == Clearance[<<from.arm, from.grip>>]
  IN /\ Collided(from, release)
     /\ c.pair = f.pair
     /\ c.dist > f.dist \/ (nonWorsening /\ c.dist = f.dist)

CandidateCollides(law, probe, from, nonWorsening) ==
  /\ Collided(probe, law.collision_latched)
  /\ ~Escapes(probe, from, law.collision_latched, nonWorsening)

\* The probes of a joint-space step: every position after the start, the end
\* included.  The aperture is the requested one throughout.
PathProbes(from, to) ==
  LET passed == IF from.arm <= to.arm THEN (from.arm + 1) .. to.arm
                                      ELSE to.arm .. (from.arm - 1)
  IN { [arm |-> j, grip |-> to.grip] : j \in passed \cup {to.arm} }

PathCollides(law, from, to) ==
  \E probe \in PathProbes(from, to) : CandidateCollides(law, probe, from, FALSE)

\* The latch is released by the measured pose alone.
RefreshCollisionLatch(law, qpos) ==
  [ law EXCEPT !.collision_latched = @ /\ Collided(qpos, TRUE) ]

-----------------------------------------------------------------------------
(* Solutions *)

Solution == [ arm : Joint, held : BOOLEAN, stale : BOOLEAN,
              collided : BOOLEAN, reason : STRING ]

\* A rejected frame keeps the law's memory and answers with the last joints
\* sent, or with the measured joints when none were sent since the reference.
HoldSolution(law, qpos, reason, stale, collided) ==
  [ law |-> law,
    sol |-> [ arm |-> IF law.last_sent = None THEN qpos.arm ELSE law.last_sent,
              held |-> TRUE, stale |-> stale, collided |-> collided,
              reason |-> reason ] ]

\* A leader gap: the memory is re-anchored at the measured joints first.
StaleHold(law, qpos) ==
  HoldSolution([law EXCEPT !.last_sent = qpos.arm, !.last_solved = None],
               qpos, "stale", TRUE, FALSE)

StepStart(law, qpos) ==
  IF law.last_sent = None THEN qpos.arm ELSE law.last_sent

CappedStep(start, raw) ==
  IF Distance(start, raw) <= MaxStep THEN raw
  ELSE IF raw > start THEN start + MaxStep ELSE start - MaxStep

\* Distance to the nearer of the previous full solution and the joints sent.
BranchJump(law, start, raw) ==
  /\ law.last_solved # None
  /\ Distance(raw, law.last_solved) > JumpReset
  /\ Distance(raw, start) > JumpReset

IkSolutions(target) == { j \in Joint : FK[j] = target }

\* The gates one IK solution passes, in the order of the code.
Verdict(law, qpos, grip, raw) ==
  LET start == StepStart(law, qpos)
  IN CASE BranchJump(law, start, raw) -> "ik-branch-jump"
       [] CandidateCollides(law, [arm |-> raw, grip |-> grip], qpos, FALSE)
            -> "collision"
       [] PathCollides(law, qpos,
                       [arm |-> CappedStep(start, raw), grip |-> grip])
            -> "collision-path"
       [] OTHER -> "ok"

Commit(law, solved, sent, collisionClipped) ==
  LET latched == law.collision_latched \/ collisionClipped
  IN [ law |-> [ law EXCEPT !.last_solved = solved, !.last_sent = sent,
                            !.collision_latched = latched ],
       sol |-> [ arm |-> sent, held |-> FALSE, stale |-> FALSE,
                 collided |-> latched,
                 reason |-> IF collisionClipped THEN "collision-clipped"
                            ELSE IF latched THEN "collision-hysteresis"
                            ELSE "" ] ]

\* No seed gave a candidate: the most informative failure is reported, and a
\* collision latches the outer margin.
NoCandidate(law, qpos, reason) ==
  HoldSolution([law EXCEPT !.collision_latched =
                   @ \/ reason \in {"collision", "collision-path"}],
               qpos, reason, FALSE,
               reason \in {"collision", "collision-path", "checker-error"})

\* Joints on the Cartesian segment from the step's start to the target, within
\* one step, on the same branch, with a safe endpoint and path.
PrefixCandidates(law, qpos, grip, target) ==
  LET start == StepStart(law, qpos)
      Between(x) == \/ FK[start] <= x /\ x < target
                    \/ target < x /\ x <= FK[start]
  IN { p \in Joint :
         /\ Between(FK[p])
         /\ Distance(p, start) <= MaxStep
         /\ ~BranchJump(law, start, p)
         /\ ~CandidateCollides(law, [arm |-> p, grip |-> grip], qpos, FALSE)
         /\ ~PathCollides(law, qpos, [arm |-> p, grip |-> grip]) }

PrefixRecoverable ==
  {"collision", "collision-path", "ik-branch-jump", "ik-residual"}

\* Every way the seeds can end for one Cartesian target.  An IK run may also
\* diverge, miss the target, or meet a checker that raises.
SolveIk(law, qpos, grip, target) ==
  LET solved   == IkSolutions(target)
      failures == {"ik-nan", "fk-consistency", "ik-residual", "checker-error"}
                    \cup ({ Verdict(law, qpos, grip, j) : j \in solved } \ {"ok"})
      start    == StepStart(law, qpos)
  IN { Commit(law, j, CappedStep(start, j), FALSE) :
         j \in { s \in solved : Verdict(law, qpos, grip, s) = "ok" } }
     \cup { NoCandidate(law, qpos, r) : r \in failures }
     \cup { Commit(law, pr[1], pr[1], pr[2] = "collision") :
              pr \in PrefixCandidates(law, qpos, grip, target)
                       \X (failures \cap PrefixRecoverable) }

SolveFresh(law, req, qpos) ==
  LET target  == law.arm_ref + req.delta
      gripped == [qpos EXCEPT !.grip = req.grip]
  IN { HoldSolution(law, qpos, "checker-error", FALSE, TRUE) }
     \cup (IF CandidateCollides(law, gripped, qpos, TRUE)
           THEN { HoldSolution(law, qpos, "collision-gripper", FALSE, TRUE) }
           ELSE IF target \notin Workspace
           THEN { HoldSolution(law, qpos, "workspace-arm-base", FALSE, FALSE) }
           ELSE SolveIk(law, qpos, req.grip, target))

(***************************************************************************)
(* solve(): the set of [law, sol] outcomes.  The finite check and the      *)
(* refresh of the collision latch, whose checker may raise, come before    *)
(* the stale check.                                                        *)
(***************************************************************************)
Solve(law, req, qpos, stale) ==
  IF req.delta = Invalid
  THEN { HoldSolution(law, qpos, "input-invalid", FALSE, FALSE) }
  ELSE LET refreshed == RefreshCollisionLatch(law, qpos)
           anchored  == IF refreshed.arm_ref = None
                        THEN LockReference(refreshed, qpos)
                        ELSE refreshed
       IN (IF law.collision_latched
           THEN { HoldSolution(law, qpos, "checker-error", FALSE, TRUE) }
           ELSE {})
          \cup (IF stale THEN { StaleHold(anchored, qpos) }
                ELSE SolveFresh(anchored, req, qpos))
=============================================================================
