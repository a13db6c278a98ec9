------------------------------ MODULE JointSmoke ------------------------------
(***************************************************************************)
(* The joint smoke test (examples/joint_smoke_client.py in scan mode, with *)
(* follower/joint_smoke.py): before a real arm may follow a hand, every    *)
(* body joint is driven a little off the pose the arm was found in and     *)
(* back, through the client of FollowerClient, whose server may lose its   *)
(* robot at any time.                                                      *)
(***************************************************************************)
EXTENDS FollowerClient, Sequences, FiniteSetsExt

CONSTANTS
  Limit,       \* the calibrated range of every body joint
  Margin,      \* margin_deg
  Tiers,       \* the sequence of tiers
  Opening,     \* the gripper's full opening
  MaxStep,     \* ramp_step_deg, ramp_step_gripper
  Tolerance,   \* what evaluate_dwell lets pass
  Attempts,    \* attempts of retrying_rpc
  WholeTick    \* has a whole tick arrived before the application looks?

Gripper == Joints
Body == Joint \ {Gripper}

ASSUME SmokeAssumption ==
  /\ Joints > 1
  /\ Limit \in [Body -> [lo : Int, hi : Int]]
  /\ Margin \in Nat
  /\ \A j \in Body : (Limit[j].lo + Margin) .. (Limit[j].hi - Margin) \subseteq Position
  /\ Tiers \in Seq(Nat) /\ Opening \in Position
  /\ MaxStep \in Nat \ {0} /\ Tolerance \in Nat /\ Attempts \in Nat \ {0}
  /\ WholeTick \in BOOLEAN

VARIABLE app
vars == <<server, client, consumer, app>>

\* leaving: retrying_rpc has called disconnect and will call connect.  motion is
\* the index of the motion under way, forward its direction, check the position
\* at its last stall check, if any.
App ==
  [pc : {"start", "connecting", "base", "ramp", "check", "dwell", "over", "failed"},
   attempts : 1 .. Attempts, leaving : BOOLEAN,
   base : Arm, command_state : Arm, motion : Nat, ramp : Seq(Int),
   forward : BOOLEAN,
   check : Seq(Position), failures : SUBSET Body]

-----------------------------------------------------------------------------
(* The plan.                                                                 *)

\* Faulty variant: the target is compared with the range, not with the margin.
ApprovedNoMargin(joint, target) ==
  Limit[joint].lo <= target /\ target <= Limit[joint].hi

\* check_target: a target too near to the end of its joint's range is skipped.
Approved(joint, target) ==
  Limit[joint].lo + Margin <= target /\ target <= Limit[joint].hi - Margin

\* The excursions of a scan from base: per tier, per body joint, up and down.
\* One that is not approved is skipped.
Excursions == 2 * (Joints - 1) * Len(Tiers)
Excursion(base, e) ==
  LET joint == 1 + ((e \div 2) % (Joints - 1))
      tier == Tiers[1 + e \div (2 * (Joints - 1))]
      target == base[joint] + (IF e % 2 = 0 THEN tier ELSE -tier)
  IN [joint |-> joint, target |-> target, driven |-> Approved(joint, target)]

\* The motions of one scan: an excursion is driven forth and back, both judged; at
\* the end the gripper, which nobody judges.
Scan(base) ==
  [m \in 1 .. 2 * Excursions + 3 |->
     IF m <= 2 * Excursions
     THEN LET x == Excursion(base, (m - 1) \div 2)
          IN [joint |-> x.joint, driven |-> x.driven, judged |-> TRUE,
              target |-> IF m % 2 = 1 THEN x.target ELSE base[x.joint]]
     ELSE [joint |-> Gripper, driven |-> TRUE, judged |-> FALSE,
           target |-> <<0, Opening, base[Gripper]>>[m - 2 * Excursions]]]

\* ramp_goal: equal steps of at most MaxStep, the last of them on the target.
RampGoal(current, target) ==
  LET distance == target - current
      needed == (Gap(0, distance) + MaxStep - 1) \div MaxStep
      steps == IF needed = 0 THEN 1 ELSE needed
  IN [i \in 1 .. steps |-> IF i = steps THEN target
                           ELSE current + (distance * i) \div steps]

Motion(a) == Scan(a.base)[a.motion]

\* The next motion of the plan that is driven.  _send_joint begins from what was
\* last commanded, not from where the joint is.
StartMotion(a, i) ==
  LET driven == {m \in i .. Len(Scan(a.base)) : Scan(a.base)[m].driven}
      b == [a EXCEPT !.motion = Min(driven), !.check = <<>>]
  IN IF driven = {} THEN [a EXCEPT !.pc = "over"]
     ELSE [b EXCEPT !.pc = "ramp",
                    !.forward = Motion(b).target >= a.command_state[Motion(b).joint],
                    !.ramp = RampGoal(a.command_state[Motion(b).joint], Motion(b).target)]

\* After the last goal of a ramp: the dwell that judges it, or the next motion.
EndRamp(a) ==
  IF Motion(a).judged THEN [a EXCEPT !.pc = "dwell"] ELSE StartMotion(a, a.motion + 1)

-----------------------------------------------------------------------------
(* retrying_rpc                                                              *)

\* The application runs when no connect or disconnect of its own is under way.
Ready == ~app.leaving /\ client.link \in {"up", "down"}
Calls == {"base", "ramp", "check", "dwell"}

\* Faulty variant: there is always another attempt.
RetryForever(c) ==
  /\ app' = [app EXCEPT !.leaving = At("up")]
  /\ client' = IF At("up") THEN CleanUp(c) ELSE [c EXCEPT !.link = "calling"]

\* A failed call is followed by a reconnection and another attempt, or it ends
\* the scan.  c is the client as the call leaves it.
Retry(c) ==
  IF app.attempts = 1
  THEN app' = [app EXCEPT !.pc = "failed"] /\ client' = c
  ELSE /\ app' = [app EXCEPT !.attempts = @ - 1, !.leaving = At("up")]
       /\ client' = IF At("up") THEN CleanUp(c) ELSE [c EXCEPT !.link = "calling"]

\* The client is not connected or knows no features, the server has no robot,
\* nothing has been observed, or the call took too long.
CallFails ==
  /\ Ready /\ app.pc \in Calls
  /\ Retry(client)
  /\ UNCHANGED <<server, consumer>>

Reenter ==
  /\ app.leaving /\ At("down")
  /\ app' = [app EXCEPT !.leaving = FALSE]
  /\ client' = [client EXCEPT !.link = "calling"]
  /\ UNCHANGED <<server, consumer>>

Succeeded(a) == [a EXCEPT !.attempts = Attempts]

-----------------------------------------------------------------------------
(* run_scan                                                                  *)

Begin ==
  /\ app.pc = "start"
  /\ app' = [app EXCEPT !.pc = "connecting"]
  /\ client' = [client EXCEPT !.link = "calling"]
  /\ UNCHANGED <<server, consumer>>

Connected ==
  /\ Ready /\ app.pc = "connecting"
  /\ app' = [app EXCEPT !.pc = IF At("up") THEN "base" ELSE "failed"]
  /\ UNCHANGED <<server, client, consumer>>

\* Whether the first look comes after the first feature or after the first tick
\* is a race of the application with the consumer.
Observe(pc) ==
  /\ Ready /\ app.pc = pc
  /\ Observable
  /\ WholeTick => client.heard = Joint
  /\ UNCHANGED <<server, client, consumer>>

\* The pose the arm was found in is what every joint is commanded from now on.
ReadBase ==
  /\ Observe("base")
  /\ app' = StartMotion([Succeeded(app) EXCEPT !.base = client.obs,
                                               !.command_state = client.obs], 1)

\* Faulty variant: only the joint that moves is sent.
PartialAction(goal) == [j \in {Motion(app).joint} |-> goal]

\* "Full dicts are mandatory".
FullAction(goal) == [app.command_state EXCEPT ![Motion(app).joint] = goal]

\* An action can be encoded, and the server has a robot to apply it to.
CanSend == At("up") /\ client.known /\ server.up

\* The next goal of the ramp is applied, and its answer arrives; every second
\* the joint is looked at.
SendGoal ==
  /\ Ready /\ app.pc = "ramp" /\ CanSend
  /\ LET goal == Head(app.ramp)
         a == [Succeeded(app) EXCEPT !.ramp = Tail(@),
                                     !.command_state[Motion(app).joint] = goal]
     IN  /\ Send(FullAction(goal)) /\ Apply(FullAction(goal))
         /\ \/ app' = [a EXCEPT !.pc = "check"]
            \/ app' = IF a.ramp = <<>> THEN EndRamp(a) ELSE a
  /\ UNCHANGED consumer

\* The action is applied, but the call has failed for its client.
AnswerLost ==
  /\ Ready /\ app.pc = "ramp" /\ CanSend
  /\ Apply(FullAction(Head(app.ramp)))
  /\ Retry([client EXCEPT !.act = Merged(FullAction(Head(app.ramp)))])
  /\ UNCHANGED consumer

\* A joint that makes no progress is not pushed further.
CheckProgress ==
  /\ Observe("check")
  /\ LET pos == client.obs[Motion(app).joint]
         stalled == /\ app.check # <<>>
                    /\ IF app.forward THEN pos <= Head(app.check) ELSE pos >= Head(app.check)
         a == [Succeeded(app) EXCEPT !.check = <<pos>>, !.pc = "ramp",
                                     !.ramp = IF stalled THEN <<>> ELSE @]
     IN  app' = IF a.ramp = <<>> THEN EndRamp(a) ELSE a

\* Faulty variant: the way back is not judged.
JudgeOutOnly(pos) ==
  Gap(pos, Motion(app).target) <= Tolerance \/ Motion(app).target = app.base[Motion(app).joint]

\* evaluate_dwell: has the joint arrived?
Judge(pos) == Gap(pos, Motion(app).target) <= Tolerance

Dwell ==
  /\ Observe("dwell")
  /\ LET j == Motion(app).joint
         a == [Succeeded(app) EXCEPT !.failures =
                 IF Judge(client.obs[j]) THEN @ ELSE @ \cup {j}]
     IN  app' = StartMotion(a, app.motion + 1)

Init ==
  /\ ClientInit
  /\ app = [pc |-> "start", attempts |-> Attempts, leaving |-> FALSE, base |-> Zero,
            command_state |-> Zero, motion |-> 0, ramp |-> <<>>,
            forward |-> TRUE, check |-> <<>>, failures |-> {}]

AppStep ==
  \/ CallFails \/ Reenter \/ Begin \/ Connected \/ ReadBase
  \/ SendGoal \/ AnswerLost \/ CheckProgress \/ Dwell

LinkStep == Close \/ ConnectFails \/ \E t \in Thread : Connect(t)

Next ==
  \/ AppStep
  \/ (LinkStep \/ GrowStale \/ DropRobot) /\ UNCHANGED app
  \/ \E t \in Thread : (ConsumerStep(t) \/ StreamDies(t)) /\ UNCHANGED app
  \/ \E j \in Joint : Servo(j) /\ UNCHANGED app

Spec == Init /\ [][Next]_vars

\* The threads of the client run and time passes; the server and the servos may
\* stop.
FairSpec ==
  /\ Spec
  /\ WF_vars(GrowStale /\ UNCHANGED app)
  /\ WF_vars(AppStep)
  /\ WF_vars(LinkStep /\ UNCHANGED app)
  /\ \A t \in Thread : WF_vars(ConsumerStep(t) /\ UNCHANGED app)

-----------------------------------------------------------------------------
(* Properties.                                                               *)

\* Types.
TypeOK == ClientTypeOK /\ app \in App

\* "The server-side zero-initialised action cache can never leak a 0.0 onto
\* joints we did not mean to move" (_send_joint): no command takes any joint
\* further than one ramp step from its last one, the pose the arm was found in
\* for the first, over reconnections that zero both caches, repeated actions,
\* lost answers and broken ramps.
CommandsAreSmall ==
  [][ \A j \in Joint : Gap(server'.goal[j], server.goal[j]) <= MaxStep ]_vars

\* No body joint is ever commanded nearer to an end of its range than the margin,
\* unless it was found there, and then not further.
CommandsStayInRange ==
  \A j \in Body :
    /\ server.goal[j] >= Limit[j].lo + Margin \/ server.goal[j] >= Rest[j]
    /\ server.goal[j] <= Limit[j].hi - Margin \/ server.goal[j] <= Rest[j]

\* "ALL STEPS PASS" is printed only with every body joint back where it was
\* found, as near as the dwell lets pass: no stall, drop, reconnection or
\* observation of an earlier time hides a joint that did not return.  For an arm
\* that keeps its pose while its server is without its robot.
PassMeansHome ==
  app.pc = "over" /\ app.failures = {} =>
    \A j \in Body : Gap(server.arm[j], Rest[j]) <= Tolerance

\* A client whose connection, server and streams last observes again and again,
\* whatever ended the streams before, if it has read the feature tables.  Without
\* them it never does: only another connect would read them.
StreamRecovers ==
  <>[](/\ At("up") /\ client.known /\ server.up
       /\ \A t \in Thread : consumer[t].pc = "reading" => consumer[t].live)
    => []<>(client.obs_time = "fresh")

\* The scan ends, with a verdict or an error, though the server may lose its
\* robot after every reconnection.
ScanEnds == <>(app.pc \in {"over", "failed"})

=============================================================================
