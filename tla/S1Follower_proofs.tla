-------------------------- MODULE S1Follower_proofs --------------------------
(***************************************************************************)
(* Proofs about the S1 follower, for every model of the arm, every set of  *)
(* deltas and every bound.                                                 *)
(***************************************************************************)
EXTENDS S1Follower, TLAPS

\* The integers alone keep None apart from positions and deltas.
LEMMA NoneNotJoint == None \notin Joint /\ None \notin Int /\ Joint \subseteq Int
  BY LawAssumption, SMT DEF Joint

\* A capped step stays on the joint line and within the cap.
LEMMA CappedStepBound ==
  ASSUME NEW a \in Joint, NEW b \in Joint
  PROVE  CappedStep(a, b) \in Joint /\ Distance(a, CappedStep(a, b)) <= MaxStep
  BY LawAssumption DEF CappedStep, Distance, Joint

\* What one call of solve() may do to the law's memory and what its answer
\* says: a frame that is not held moves at most one step from where the law
\* starts; a held one keeps the joints sent, or re-anchors them when stale.
SolveContract(l, q, stale, out) ==
  /\ out.law \in LawState
  /\ out.law.arm_ref # None
  /\ out.sol.arm \in Joint
  /\ out.sol.held \in BOOLEAN
  /\ out.sol.stale \in BOOLEAN
  /\ out.sol.collided \in BOOLEAN
  /\ stale => out.sol.held /\ AtomicHold(out.sol)
  /\ ~out.sol.held => /\ ~out.sol.stale
                      /\ out.law.last_sent = out.sol.arm
                      /\ Distance(StepStart(l, q), out.sol.arm) <= MaxStep
  /\ out.sol.stale => out.law.last_sent = q.arm
  /\ out.sol.held /\ ~out.sol.stale =>
       /\ out.law.last_sent = l.last_sent
       /\ out.sol.arm = IF l.last_sent = None THEN q.arm ELSE l.last_sent

\* A hold that is not stale keeps the contract, whatever its reason, from any
\* memory that agrees with the law's on the joints sent.
LEMMA HoldContract ==
  ASSUME NEW l \in LawState, NEW m \in LawState, NEW q \in Pose,
         NEW stale \in BOOLEAN, NEW collided \in BOOLEAN, NEW reason,
         m.arm_ref # None, m.last_sent = l.last_sent,
         stale => collided \/ reason \in {"input-invalid", "checker-error"}
  PROVE  SolveContract(l, q, stale, HoldSolution(m, q, reason, FALSE, collided))
  BY NoneNotJoint DEF SolveContract, HoldSolution, LawState, Pose, AtomicHold

\* So does the re-anchoring stale hold.
LEMMA StaleContract ==
  ASSUME NEW l \in LawState, NEW m \in LawState, NEW q \in Pose,
         m.arm_ref # None, m.last_sent = l.last_sent
  PROVE  SolveContract(l, q, TRUE, StaleHold(m, q))
  BY NoneNotJoint
  DEF SolveContract, StaleHold, HoldSolution, LawState, Pose, AtomicHold

\* And so does a commit of one step from where the law starts.
LEMMA CommitContract ==
  ASSUME NEW l \in LawState, NEW m \in LawState, NEW q \in Pose,
         NEW solved \in Joint, NEW sent \in Joint, NEW clipped \in BOOLEAN,
         m.arm_ref # None, m.last_sent = l.last_sent,
         Distance(StepStart(l, q), sent) <= MaxStep
  PROVE  SolveContract(l, q, FALSE, Commit(m, solved, sent, clipped))
  BY NoneNotJoint DEF SolveContract, Commit, LawState

\* A distance does not depend on the direction it is measured in.
LEMMA DistanceSymmetric ==
  ASSUME NEW a \in Int, NEW b \in Int PROVE Distance(a, b) = Distance(b, a)
  BY DEF Distance

\* Every way the seeds can end keeps the contract.
LEMMA SolveIkContract ==
  ASSUME NEW l \in LawState, NEW m \in LawState, NEW q \in Pose,
         NEW grip, NEW goal,
         m.arm_ref # None, m.last_sent = l.last_sent,
         NEW out \in SolveIk(m, q, grip, goal)
  PROVE  SolveContract(l, q, FALSE, out)
<1> DEFINE start    == StepStart(m, q)
           solved   == IkSolutions(goal)
           failures == {"ik-nan", "fk-consistency", "ik-residual", "checker-error"}
                    \cup ({ Verdict(m, q, grip, j) : j \in solved } \ {"ok"})
<1>1. start = StepStart(l, q) /\ start \in Joint
  BY NoneNotJoint DEF StepStart, LawState, Pose
<1>2. solved \subseteq Joint
  BY DEF IkSolutions
<1>3. CASE \E j \in solved : out = Commit(m, j, CappedStep(start, j), FALSE)
  <2>1. PICK j \in solved : out = Commit(m, j, CappedStep(start, j), FALSE)
    BY <1>3
  <2>2. CappedStep(start, j) \in Joint /\ Distance(start, CappedStep(start, j)) <= MaxStep
    BY <1>1, <1>2, CappedStepBound
  <2> QED BY <1>1, <1>2, <2>1, <2>2, CommitContract
<1>4. CASE \E r \in failures : out = NoCandidate(m, q, r)
  <2>1. PICK r \in failures : out = NoCandidate(m, q, r)
    BY <1>4
  <2> DEFINE k == [m EXCEPT !.collision_latched =
                     @ \/ r \in {"collision", "collision-path"}]
             c == r \in {"collision", "collision-path", "checker-error"}
  <2>2. k \in LawState /\ k.arm_ref # None /\ k.last_sent = l.last_sent
    BY DEF LawState
  <2>3. c \in BOOLEAN /\ out = HoldSolution(k, q, r, FALSE, c)
    BY <2>1 DEF NoCandidate
  <2> QED BY <2>2, <2>3, HoldContract
<1>5. CASE \E p \in PrefixCandidates(m, q, grip, goal), r \in failures :
              out = Commit(m, p, p, r = "collision")
  <2>1. PICK p \in PrefixCandidates(m, q, grip, goal), r \in failures :
                out = Commit(m, p, p, r = "collision")
    BY <1>5
  <2>2. p \in Joint /\ Distance(p, start) <= MaxStep
    BY DEF PrefixCandidates
  <2>3. Distance(start, p) <= MaxStep
    BY <1>1, <2>2, DistanceSymmetric, NoneNotJoint
  <2> QED BY <1>1, <2>1, <2>2, <2>3, CommitContract
<1>6. QED
  BY <1>3, <1>4, <1>5 DEF SolveIk

\* The contract of solve(), which every servicer of the law may lean on.
LEMMA SolveKeepsContract ==
  ASSUME NEW l \in LawState, NEW req \in Request, NEW q \in Pose,
         NEW stale \in BOOLEAN, l.arm_ref # None,
         NEW out \in Solve(l, req, q, stale)
  PROVE  SolveContract(l, q, stale, out)
<1> DEFINE m == RefreshCollisionLatch(l, q)
<1>1. CASE req.delta = Invalid
  BY <1>1, HoldContract DEF Solve
<1>2. CASE req.delta # Invalid
  <2>1. m \in LawState /\ m.arm_ref # None /\ m.last_sent = l.last_sent
    BY DEF RefreshCollisionLatch, LawState
  <2>2. CASE out = HoldSolution(l, q, "checker-error", FALSE, TRUE)
    BY <2>2, HoldContract
  <2>3. CASE stale /\ out = StaleHold(m, q)
    BY <2>1, <2>3, StaleContract
  <2>4. CASE ~stale /\ out \in SolveFresh(m, req, q)
    <3>1. CASE out = HoldSolution(m, q, "checker-error", FALSE, TRUE)
      BY <2>1, <2>4, <3>1, HoldContract
    <3>2. CASE out = HoldSolution(m, q, "collision-gripper", FALSE, TRUE)
      BY <2>1, <2>4, <3>2, HoldContract
    <3>3. CASE out = HoldSolution(m, q, "workspace-arm-base", FALSE, FALSE)
      BY <2>1, <2>4, <3>3, HoldContract
    <3>4. CASE out \in SolveIk(m, q, req.grip, m.arm_ref + req.delta)
      BY <2>1, <2>4, <3>4, SolveIkContract
    <3> QED BY <2>4, <3>1, <3>2, <3>3, <3>4 DEF SolveFresh
  <2> QED BY <1>2, <2>1, <2>2, <2>3, <2>4 DEF Solve
<1> QED BY <1>1, <1>2

-----------------------------------------------------------------------------
(***************************************************************************)
(* The inductive invariant.  A latched hold keeps the watchdog held, so a  *)
(* Resume is the only way out of it that trusts the law's memory; and a    *)
(* Resume finds that memory empty, because a reference newer than the hold *)
(* was captured while no frame could reach the law.  The last conjunct     *)
(* says what the report of a held follower is.                             *)
(***************************************************************************)
IInv ==
  /\ TypeOK
  /\ CommandAnchored
  /\ session_hold_latched => watchdog_held
  /\ hold_reference_epoch <= reference_epoch
  /\ session_hold_latched /\ reference_epoch > hold_reference_epoch
       => law.last_sent = None
  /\ watchdog_held /\ last_action = "fresh" => last_safety.applied = "none"

\* Locking a reference forgets the joints sent and knows where the arm is.
LEMMA LockReferenceType ==
  ASSUME NEW l \in LawState, NEW q \in Pose
  PROVE  /\ LockReference(l, q) \in LawState
         /\ LockReference(l, q).arm_ref # None
         /\ LockReference(l, q).last_sent = None
  BY LawAssumption, NoneNotJoint DEF LockReference, LawState, Pose

\* The memory of a law that was just reset is a memory of the law.
LEMMA ResetStateType == ResetState \in LawState
  BY DEF ResetState, LawState

\* The handler of a frame that reaches the law, in the terms of the contract.
LEMMA SendActionEffect ==
  ASSUME TypeOK, NEW req \in Request, ~session_hold_latched, SendAction(req)
  PROVE  \E out \in Solve(law, req, qpos, Stale) :
           /\ SolveContract(law, qpos, Stale, out)
           /\ law' = out.law
           /\ target'.arm = (IF out.sol.stale THEN qpos.arm ELSE out.sol.arm)
           /\ target' \in Pose
           /\ last_safety' = [ flags |-> FlagsOf(out.sol),
                               applied |-> AppliedMask(out.sol) ]
<1>1. PICK out \in Solve(law, req, qpos, Stale) :
          /\ law' = out.law
          /\ target' = [ arm  |-> IF out.sol.stale THEN qpos.arm
                                  ELSE out.sol.arm,
                         grip |-> IF out.sol.stale THEN qpos.grip
                                  ELSE IF AtomicHold(out.sol) THEN target.grip
                                  ELSE req.grip ]
          /\ last_safety' = [ flags |-> FlagsOf(out.sol),
                              applied |-> AppliedMask(out.sol) ]
  BY DEF SendAction
<1>2. Stale \in BOOLEAN
  BY DEF Stale, TypeOK
<1>3. SolveContract(law, qpos, Stale, out)
  BY <1>2, SolveKeepsContract DEF TypeOK
<1>4. target' \in Pose
  BY <1>1, <1>3 DEF TypeOK, Pose, Request, SolveContract
<1>5. target'.arm = (IF out.sol.stale THEN qpos.arm ELSE out.sol.arm)
  BY <1>1
<1> QED BY <1>1, <1>3, <1>4, <1>5

\* What a frame reports is a report.
LEMMA ReportType ==
  ASSUME NEW sol PROVE [flags |-> FlagsOf(sol), applied |-> AppliedMask(sol)]
                         \in [flags : SUBSET Flag, applied : Applied]
  BY DEF FlagsOf, AppliedMask, Applied

\* The empty report and that of a session hold say that nothing was applied.
LEMMA ReportConstants ==
  /\ NoReport \in [flags : SUBSET Flag, applied : Applied]
  /\ SessionHold \in [flags : SUBSET Flag, applied : Applied]
  /\ NoReport.applied = "none"
  /\ SessionHold.applied = "none"
  BY DEF NoReport, SessionHold, Flag, Applied

\* The server starts with a reference locked, nothing sent and no hold.
LEMMA InitIInv == Init => IInv
<1> SUFFICES ASSUME Init PROVE IInv
  OBVIOUS
<1>1. Home \in Pose
  BY S1Assumption
<1>2. /\ law \in LawState /\ law.arm_ref # None /\ law.last_sent = None
  BY <1>1, LockReferenceType, ResetStateType DEF Init
<1>3. target \in Pose /\ qpos \in Pose
  BY <1>1 DEF Init
<1>4. last_safety \in [flags : SUBSET Flag, applied : Applied]
  BY ReportConstants DEF Init
<1>5. /\ connected = FALSE /\ last_action = "never" /\ watchdog_held = FALSE
      /\ session_hold_latched = FALSE /\ hold_epoch = 0
      /\ reference_epoch = 0 /\ hold_reference_epoch = 0
  BY DEF Init
<1>6. TypeOK
  BY <1>2, <1>3, <1>4, <1>5 DEF TypeOK, Age
<1> QED
  BY <1>2, <1>5, <1>6 DEF IInv, CommandAnchored

\* Every handler keeps the invariant.
LEMMA NextIInv == IInv /\ [Next]_vars => IInv'
<1> SUFFICES ASSUME IInv, [Next]_vars PROVE IInv'
  OBVIOUS
<1> USE DEF IInv
<1>1. CASE Connect
  <2>1. StartPose \in Pose
    BY S1Assumption DEF StartPose, TypeOK
  <2>2. law' \in LawState /\ law'.arm_ref # None /\ law'.last_sent = None
    BY <1>1, <2>1, LockReferenceType, ResetStateType DEF Connect, NewSession
  <2>3. target' \in Pose /\ qpos' \in Pose
    BY <1>1, <2>1, S1Assumption DEF Connect, NewSession, TypeOK
  <2>4. /\ last_safety' \in [flags : SUBSET Flag, applied : Applied]
        /\ last_safety'.applied = "none"
    BY <1>1, ReportConstants DEF Connect, NewSession
  <2>5. /\ connected' = TRUE /\ last_action' = "never" /\ watchdog_held' = FALSE
        /\ session_hold_latched' = FALSE /\ hold_epoch' = hold_epoch
        /\ reference_epoch' = reference_epoch + 1
        /\ hold_reference_epoch' = hold_reference_epoch
    BY <1>1 DEF Connect, NewSession
  <2>6. /\ hold_epoch' \in Nat
        /\ reference_epoch' \in Nat
        /\ hold_reference_epoch' \in Nat
    BY <2>5 DEF TypeOK
  <2>7. hold_reference_epoch' <= reference_epoch'
    BY <2>5 DEF TypeOK
  <2>8. CommandAnchored'
    BY <2>2 DEF CommandAnchored
  <2>9. TypeOK'
    BY ONLY <2>2, <2>3, <2>4, <2>5, <2>6 DEF TypeOK, Age
  <2> QED BY <2>5, <2>7, <2>8, <2>9
<1>2. CASE Disconnect
  BY <1>2 DEF Disconnect, TypeOK, CommandAnchored
<1>3. CASE SetReference
  <2>1. law' \in LawState /\ law'.arm_ref # None /\ law'.last_sent = None
    BY <1>3, LockReferenceType DEF SetReference, TypeOK
  <2> QED
    BY <1>3, <2>1 DEF SetReference, NewEpoch, TypeOK, CommandAnchored
<1>4. ASSUME NEW req \in Request, SendAction(req) PROVE IInv'
  <2>1. CASE session_hold_latched
    BY <1>4, <2>1, ReportConstants DEF SendAction, TypeOK, CommandAnchored
  <2>2. CASE ~session_hold_latched
    <3>1. PICK out \in Solve(law, req, qpos, Stale) :
             /\ SolveContract(law, qpos, Stale, out)
             /\ law' = out.law
             /\ target'.arm = (IF out.sol.stale THEN qpos.arm ELSE out.sol.arm)
             /\ target' \in Pose
             /\ last_safety' = [ flags |-> FlagsOf(out.sol),
                                 applied |-> AppliedMask(out.sol) ]
      BY <1>4, <2>2, SendActionEffect
    <3>2. /\ last_action' = "fresh" /\ watchdog_held' = FALSE
          /\ UNCHANGED <<connected, session_hold_latched, hold_epoch,
                         reference_epoch, hold_reference_epoch, qpos>>
      BY <1>4, <2>2 DEF SendAction
    <3>3. TypeOK'
      BY <3>1, <3>2, ReportType DEF TypeOK, Age, SolveContract
    <3>4. law'.last_sent # None => target'.arm = law'.last_sent
      BY <3>1 DEF SolveContract
    <3> QED BY <2>2, <3>2, <3>3, <3>4 DEF CommandAnchored
  <2> QED BY <2>1, <2>2
<1>5. CASE Hold
  BY <1>5, ReportConstants DEF Hold, LatchHold, TypeOK, CommandAnchored
<1>6. CASE Resume
  BY <1>6, ReportConstants
  DEF Resume, ReleaseHold, TypeOK, Age, CommandAnchored
<1>7. CASE Observe
  BY <1>7
  DEF Observe, Watchdog, WatchdogDue, Physics, PlantStep, TypeOK, CommandAnchored
<1>8. CASE Expire
  BY <1>8 DEF Expire, TypeOK, Age, CommandAnchored
<1>9. CASE UNCHANGED vars
  BY <1>9 DEF vars, TypeOK, CommandAnchored
<1> QED
  BY <1>1, <1>2, <1>3, <1>4, <1>5, <1>6, <1>7, <1>8, <1>9 DEF Next

\* So the invariant holds in every reachable state.
LEMMA SpecIInv == Spec => []IInv
  BY InitIInv, NextIInv, PTL DEF Spec

\* The state of the follower is always of its type; in particular a reference
\* is always locked, so a frame never composes with a missing one.
THEOREM TypeCorrect == Spec => []TypeOK
<1>1. IInv => TypeOK
  BY DEF IInv
<1> QED BY <1>1, SpecIInv, PTL

\* The law's memory and the actuators agree unless a hold re-anchored them.
THEOREM CommandAnchoredAlways == Spec => []CommandAnchored
<1>1. IInv => CommandAnchored
  BY DEF IInv
<1> QED BY <1>1, SpecIInv, PTL

\* An applied frame moves the command by one capped step at most, across every
\* hold, resume, reference and reconnection.
THEOREM AppliedStepBoundedAlways == Spec => AppliedStepBounded
<1> DEFINE Bounded ==
      /\ last_safety'.applied = "all"
      /\ last_action' = "fresh"
      /\ target'.arm # target.arm
      => Distance(target'.arm,
                  IF law.last_sent = None THEN qpos.arm ELSE target.arm)
           <= MaxStep
<1>1. IInv /\ [Next]_vars => [Bounded]_vars
  <2> SUFFICES ASSUME IInv, Next, last_safety'.applied = "all",
                      last_action' = "fresh", target'.arm # target.arm
               PROVE  Distance(target'.arm,
                        IF law.last_sent = None THEN qpos.arm ELSE target.arm)
                        <= MaxStep
    OBVIOUS
  <2>1. PICK req \in Request : SendAction(req)
    BY DEF Next, Connect, NewSession, Disconnect, SetReference, NewEpoch, Hold, LatchHold,
           SessionHold, Resume, ReleaseHold, Observe, Watchdog, WatchdogDue,
           Physics, Expire
  <2>2. ~session_hold_latched
    BY <2>1 DEF SendAction
  <2>3. PICK out \in Solve(law, req, qpos, Stale) :
           /\ SolveContract(law, qpos, Stale, out)
           /\ law' = out.law
           /\ target'.arm = (IF out.sol.stale THEN qpos.arm ELSE out.sol.arm)
           /\ target' \in Pose
           /\ last_safety' = [ flags |-> FlagsOf(out.sol),
                               applied |-> AppliedMask(out.sol) ]
    BY <2>1, <2>2, SendActionEffect DEF IInv
  <2>4. ~out.sol.held
    BY <2>3 DEF AppliedMask
  <2>5. /\ ~watchdog_held
        /\ target'.arm = out.sol.arm
        /\ Distance(StepStart(law, qpos), out.sol.arm) <= MaxStep
    BY <2>3, <2>4 DEF SolveContract, Stale
  <2>6. StepStart(law, qpos)
          = IF law.last_sent = None THEN qpos.arm ELSE target.arm
    BY <2>5 DEF StepStart, IInv, CommandAnchored
  <2>7. StepStart(law, qpos) \in Int /\ out.sol.arm \in Int
    BY <2>3, <2>6, NoneNotJoint DEF SolveContract, IInv, TypeOK, Pose
  <2> QED BY <2>5, <2>6, <2>7, DistanceSymmetric
<1> QED
  BY <1>1, SpecIInv, PTL DEF Spec, AppliedStepBounded

\* The first frame after a gap is discarded whole, whatever it holds.
THEOREM GapDiscardsFrameAlways == Spec => GapDiscardsFrame
<1> DEFINE Discards ==
      (watchdog_held \/ last_action = "expired") /\ last_action' = "fresh"
        => last_safety'.applied = "none"
<1>1. IInv /\ [Next]_vars => [Discards]_vars
  <2> SUFFICES ASSUME IInv, Next, watchdog_held \/ last_action = "expired",
                      last_action' = "fresh"
               PROVE  last_safety'.applied = "none"
    OBVIOUS
  <2>1. ASSUME NEW req \in Request, SendAction(req)
        PROVE  last_safety'.applied = "none"
    <3>1. CASE session_hold_latched
      BY <2>1, <3>1, ReportConstants DEF SendAction
    <3>2. CASE ~session_hold_latched
      <4>1. PICK out \in Solve(law, req, qpos, Stale) :
               /\ SolveContract(law, qpos, Stale, out)
               /\ last_safety' = [ flags |-> FlagsOf(out.sol),
                                   applied |-> AppliedMask(out.sol) ]
        BY <2>1, <3>2, SendActionEffect DEF IInv
      <4>2. out.sol.held /\ AtomicHold(out.sol)
        BY <4>1 DEF SolveContract, Stale
      <4> QED BY <4>1, <4>2 DEF AppliedMask
    <3> QED BY <3>1, <3>2
  <2>2. ASSUME ~(\E req \in Request : SendAction(req))
        PROVE  last_safety'.applied = "none"
    BY <2>2, ReportConstants
    DEF Next, IInv, Connect, NewSession, Disconnect, SetReference, NewEpoch,
        Hold, LatchHold,
        Resume, ReleaseHold, Observe, Watchdog, WatchdogDue, Physics, Expire
  <2> QED BY <2>1, <2>2
<1> QED
  BY <1>1, SpecIInv, PTL DEF Spec, GapDiscardsFrame

\* The session hold, its epochs and the watchdog implement the motion gate.
THEOREM MotionGateImplemented == Spec => ImplementsMotionGate
<1>1. Init => Gate!Init
  BY S1Assumption DEF Init, Gate!Init
<1>2. IInv /\ IInv' /\ [Next]_vars => [Gate!Next]_Gate!vars
  <2> SUFFICES ASSUME IInv, IInv', [Next]_vars PROVE [Gate!Next]_Gate!vars
    OBVIOUS
  <2> USE DEF IInv, TypeOK
  <2>1. CASE Connect
    BY <2>1 DEF Connect, NewSession, StartPose, Gate!Next, Gate!NewSession
  <2>2. CASE Disconnect
    BY <2>2 DEF Disconnect, Gate!vars
  <2>3. CASE SetReference
    BY <2>3 DEF SetReference, NewEpoch, Gate!Next, Gate!Capture
  <2>4. ASSUME NEW req \in Request, SendAction(req)
        PROVE  [Gate!Next]_Gate!vars
    <3>1. CASE session_hold_latched
      BY <2>4, <3>1 DEF SendAction, Gate!vars
    <3>2. CASE ~session_hold_latched
      BY <2>4, <3>2 DEF SendAction, Gate!Next, Gate!Move
    <3> QED BY <3>1, <3>2
  <2>5. CASE Hold
    BY <2>5 DEF Hold, LatchHold, Gate!Next, Gate!Close
  <2>6. CASE Resume
    BY <2>6 DEF Resume, ReleaseHold, Gate!Next, Gate!Open
  <2>7. CASE Observe
    <3>1. CASE WatchdogDue
      BY <2>7, <3>1
      DEF WatchdogDue, Observe, Watchdog, Physics, Gate!Next, Gate!Move
    <3>2. CASE ~WatchdogDue
      BY <2>7, <3>2 DEF Observe, Physics, Gate!Next, Gate!Settle
    <3> QED BY <3>1, <3>2
  <2>8. CASE Expire
    BY <2>8 DEF Expire, Gate!vars
  <2>9. CASE UNCHANGED vars
    BY <2>9 DEF vars, Gate!vars
  <2> QED
    BY <2>1, <2>2, <2>3, <2>4, <2>5, <2>6, <2>7, <2>8, <2>9 DEF Next
<1> QED
  BY <1>1, <1>2, SpecIInv, PTL DEF Spec, ImplementsMotionGate, Gate!Spec
=============================================================================
