# TLA+ models of lerobot_robot_grpc

TLA+ specifications of the remote-teleoperation core of this repository: the
pose-delta control law and the MuJoCo S1 follower that runs it, the readiness
gate that decides when a tracking frame may be trusted, the runtime pose gate of
the Pika leader and its calibration dialogue, the clutch protocol between
operator, leader, client and follower, the serial bus of the SO-101 servers, and
the follower's client with the joint smoke test that drives it. Small instances are checked
with TLC; every invariant and action property that a run checks also has a
TLAPS proof, for every value of the constants. Liveness is only model-checked.

    tlc -config MCS1Follower.cfg MCS1Follower      # one run; see "Runs"
    tlapm S1Follower_proofs.tla                    # one module of proofs

File names without a directory are under `src/lerobot_robot_grpc/`.
`PROJECT.json` holds the same information for tools: `map` gives the source
lines every definition stands for, `hazards` what is hard to test and which
property covers it, `mutants` a plausible fault for every property.

## 1. The system

A *leader* (a hand-held Pika Sense tracked by base stations, or an SO-101 arm)
and a *follower* (an SO-101 arm, a MuJoCo SO-101, a MuJoCo S1 humanoid) are two
gRPC servers. A *client* on the operator's machine loops: fetch an action from
the leader, poll its status, decide what the clutch says, send the action to the
follower, show the follower's camera stream. In the pose-delta mode an action
is the displacement of the hand from a *reference*; the follower adds it to the
pose its hand had at *its* reference. Leader and follower reference must be
taken as a pair.

| component (files) | state | operations | interacts with | hard behaviour | what makes it correct | model |
|---|---|---|---|---|---|---|
| Control law (`follower/pose_delta_law.py`, `dls_ik.py`, `collision_distance.py`) | arm reference, joints last sent, last full solution, collision latch | `solve`, `lock_reference`, `reset` | called by every pose-delta follower under its lock | hysteresis, branch jumps, re-anchoring after a gap, a checker that raises | a frame moves at most one capped step; a held frame moves nothing; a gap discards a frame | `PoseDeltaLaw` |
| S1 follower (`follower/mujoco_s1_follower_server.py`) | actuator targets, measured pose, action age, watchdog, session hold, reference epochs | Connect, Disconnect, SetReference, SendAction, Hold, Resume, GetObservation | law; client; orchestrator | watchdog runs only inside the stream; late frames; hold/resume in any order | law's memory and actuators agree; the hold gate opens only on a newer reference | `S1Follower`, `MotionGate` |
| Readiness gate (`leader/tracker_readiness.py`) | cohort and map clocks, ready identity and scene, generation, token, sample window | `update`, `token_is_current` | polled by the Pika leader; token goes to the operator and back in SetReference | drift, map changes, loss and recovery in every order | a token accepted describes the present map; none comes back; calm leads to READY | `TrackerReadiness`, `ReadinessLease` |
| Clutch (`teleop_clutch.py`, `src/examples/teleop_pika_mujoco.py`, leader latch in `leader/pika_sense_leader_server.py`, `leader/grpc_leader.py`) | leader's latch, the Pika Command bit, client's `engaged`, follower's reference | alignment, auto_clutch_step, keyboard_clutch_step, relatch, GetAction, GetStatus, SetReference | three processes by RPC | lost answers, refused halves of a transaction, a squeeze between two RPCs, a client that dies | following only from a pair of references; loss needs a new reference; engagements complete | `ClutchSession` |
| SO-101 follower (`follower/so101_follower_server.py`) | bus lock and owner record, poison, calibration flag, thread, events, watchdogs | Connect, Disconnect, GetObservation, SendAction, SetReference, Calibrate, CalibrateDone | gRPC thread pool, two kinds of watchdog, calibration thread, serial port | a wedged serial call, a late return after a reset, orphaned calibrations | one thread on the port; the lock is never leaked; the right call is blamed | `SO101Bus` |
| SO-101 leader (`leader/so101_leader_server.py`) | the same lock, non-blocking | the same, without actions to execute | as above | reads and may write calibration unlocked in Calibrate, another order in Connect | as above | a world of `SO101Bus` |
| Pika leader (`leader/pika_sense_leader_server.py`) | sampler, recovery windows, decoder restart, eight-step calibration, cumulative mode | Connect, GetAction, GetStatus, SetReference, Calibrate, ... | SDK, sampler thread, readiness gate, client | decoder restarts, late samples, calibration thread | no pose over a silence of the optics, a jump or a restart; a restart ends; a calibration is computed from points taken where they were asked for | `PikaLeader`, `PikaCalibration`, latch also in `ClutchSession` |
| MuJoCo SO-101 follower (`follower/mujoco_follower_server.py`) | the law and a simulator | as S1, without hold | law, client | physics inside the stream | as the law | its SetReference in `ClutchSession`; the rest is `PoseDeltaLaw` |
| Leader client (`leader/grpc_leader.py`, `utils.py`) | channel, reference serial | get_action, get_device_status, set_reference, calibrate | leader | deadlines, lost answers | as the clutch; every calibration dialogue ends | steps of `ClutchSession` and `PikaCalibration` |
| Follower client (`follower/grpc_follower.py`, `utils.py`) | stream thread, observation and action caches, H.264 decoder | connect, disconnect, get_observation, send_action | follower | reconnection under a thread that outlives its connection, zeroed caches | the stream recovers; what is served is what was observed | `FollowerClient` |
| Joint smoke test (`follower/joint_smoke.py`, `src/examples/joint_smoke_client.py`) | plan of motions, base pose, ramp, last command, verdicts | plan, ramp, stall check, dwell, retrying_rpc | follower client | every call may reconnect in the middle of a motion | no command jumps or leaves the range; a pass means the arm is back | `JointSmoke` |
| Contract (`protos/device.proto`, `pose_delta_schema.py`, `action_safety.py`) | none | schemas, masks | all | none | mask and flags agree | masks in `S1Follower`; Hold/Resume promise is `MotionGate` |
| Servers' `main`s, launchers (`*_server.py` wrappers, `src/examples/serve_*.py`) | none beyond their servicer | argument parsing, thread pools | | | | not modelled: no behaviour of their own |
| Benchmarks, response harness (`src/examples/encoding_benchmark.py`, `src/tests/response/`), assets | | measurement, meshes | | | | not modelled |

The hazards, each at its line and with the properties that cover it, are the
list `hazards` of `PROJECT.json`; a hazard without a property says why.

## 2. Modules

| module | what it is |
|---|---|
| `PoseDeltaLaw` | the law as operators: `Solve(law, req, qpos, stale)` is the set of outcomes |
| `S1Follower` EXTENDS `PoseDeltaLaw` | the S1 servicer: one action per handler |
| `MotionGate` | abstract: what HoldRequest and ResumeRequest promise |
| `S1Follower_proofs` | proofs about `S1Follower` |
| `TrackerReadiness` | the gate: one action per return of `update` |
| `ReadinessLease` | abstract: tokens are numbered upwards and never come back |
| `TrackerReadiness_proofs` | proofs about `TrackerReadiness` |
| `ClutchSession` | leader latch + client alignment and loop + follower reference, one action per RPC |
| `ClutchSession_proofs` | proofs about `ClutchSession` |
| `PikaLeader` | the pose gate of the Pika leader: one action per handler, sampler pass and outcome of the restart worker |
| `PikaLeader_proofs` | proofs about `PikaLeader` |
| `PikaCalibration` | the calibration dialogue: client, server and step threads |
| `PikaCalibration_proofs` | proofs about `PikaCalibration` |
| `SO101Bus` | the bus lock, record, poison, calibration and session threads of both SO-101 servers |
| `SO101Bus_proofs` | proofs about `SO101Bus` |
| `FollowerClient` | GRPCFollower: connection, consumer threads, caches, with the follower behind it |
| `JointSmoke` EXTENDS `FollowerClient` | the scan that drives it |
| `JointSmoke_proofs` | proofs about `JointSmoke`: types and commands |
| `JointSmokeVerdict_proofs` EXTENDS `JointSmoke_proofs` | the proof that a pass means the arm is home |
| `MC*` | constants of the TLC instances |

### PoseDeltaLaw and S1Follower

One arm coordinate `0 .. MaxJoint` stands for the arm. `FK` need not be
injective, so one target may have several branches; `Clearance` gives each pose
(arm and aperture) a distance and the pair of bodies it belongs to. What the law
decides on - which joints it last sent, how far a solution is from them, whether
a pose or a path collides inside the inner or the outer margin, whether a
collision is being left - is computed; what the numerics produce is a set:

* an IK run for a target may return any joint with that `FK`, or fail in any way
  the code names (divergence, residual, inconsistent FK, a checker that raises);
* the up to five seeds are not enumerated: what several can lead to, one of them
  can lead to, since the code keeps either one candidate or one failure;
* the order of the gates after the IK is the code's, because the first that
  fails names the reason and the reason decides what may be recovered.

Left out: `_reject_streak`, `_latest_action` and `hold_reason` (diagnostics
only), `_warm_seed` (written, never read), features and their encoding.
`_last_joint_action` and `_last_sent` are written together with the same value
and are one field.

Every S1 handler holds `self._lock` from its first read to its last write, and
one iteration of the observation generator does too, so each is one action:
`Connect`, `Disconnect`, `SetReference`, `SendAction`, `Hold`, `Resume`,
`Observe` (watchdog, then physics). `_last_action_monotonic` is abstracted to
what the code compares: never, fresh, expired; `Expire` is the passing of the
timeout. The plant is over-approximated: the arm reaches any neighbouring
position and the gripper any aperture, whatever is commanded, so no safety
result leans on tracking.

### TrackerReadiness

`update` is a sequence of early returns; each is one action, in the order of the
code: `BridgeDown`, `ContextStarting`, `NoLighthouse`, `CohortSettling`,
`MapIncomplete`, `MapSettling`, `OpticsLost`, `LeaseHeld`, `Verifying`,
`Granted`. The helpers (`_observe_cohort`, `_map_change_reason`,
`_observe_complete_map`, `_append_sample`, `_stability`, `_invalidate`) are
operators from gate to gate. The SDK's readings, the Tracker samples and the
time between polls are arbitrary members of `Health`, `Sample`, `Elapsed`.
Remembered times are ages, capped where no comparison tells larger ones apart.
A token is the record its hash is computed from. A station's pose is one
integer. `minted` is a history variable: the scene a token was granted under;
nothing reads it except the properties. Two fields of a sample in the window
(its map and readiness generation) are history too.

### ClutchSession

A session from the alignment on. The leader's latch is `Track`, `Edge`,
`Publish` in the order of `_compute_action`; every loss of tracking (stale
optics, a pose jump, LOST, MAP_CHANGED, ERROR) is one input, because all lead to
`_require_new_reference`. `Align` is the readiness dialogue with its reference,
which only the leader takes: the follower's is the one of its Connect, so
`AlignedAt` gives it the leader's number only while no action has moved the arm
since (`at_reference`). `GetStatus` is `auto_clutch_step`, `PollKey` is
`keyboard_clutch_step`. A reference RPC may be refused, find no stable sample, or
do its work and lose its answer, on either side; `Restart` is a client that dies
anywhere and is started again: `Reconnected` is what the leader's Connect resets
of the latch, and what it does not. References are numbered; the numbers wrap at
`MaxFailures + 2`, beyond what a run can tell apart, because only failed
transactions and deaths leave the two sides on different ones. `world` is fixed
in the initial state and says which failures there are, at which points the
operator squeezes and who holds the clutch; one run covers several. The sampler
thread is not in this module: a loss is seen by GetAction (`PikaLeader` has
both). Left out: a leader process that restarts, and the follower's own holds.

### PikaLeader

Handlers and the sampler hold `self._lock`, so each is one action: `GetAction`
(readiness update, `RuntimePose`, clutch edge, relatch, publish, in that order),
`Sample`, `Connect`, `AutoLatch` (GetTrackingReadiness). SetReference holds the
lock for seconds while the Tracker moves and is `BeginReference` and
`EndReference` or `NoStableSample`. The restart worker runs without the lock; its
outcomes are `Rebuilt`, `NotRebuilt`, `Overdue`. Ages are abstracted to the
thresholds the code compares: a decoded sweep is fresh, late (beyond
`tracker_stale_s`) or silent (beyond what readiness tolerates); the freshness
baseline is recent, old or ancient (long enough silent for a restart). A pose is
a position on a line with the libsurvive context it was measured in. Readiness
may answer ready only while the Tracker is readable, and otherwise what it
likes (`TrackerReadiness` says what exactly). Whether raw light is seen, a fast
motion is coherent or the restart's cooldown is over is a choice. `Pausing =
FALSE` is a client that calls GetAction at least once before the optics age and
while they are silent. `gapped` and `noticed` are history. Left out: frame
qualities, status texts, the gripper.

### PikaCalibration

The eight steps are four pairs of places; a pair with both points at the same
place is what `_finalize_calibration` refuses (`Sound`). The last pair is the
gripper's, `Closing` and `Opening`. `Calibrate` and the
client's two polls are `Ask`, `_run_calib_step` is `Capture`, the user goes where
some prompt asks and presses Enter in `PressEnter`, and stays there until the
point is taken. A tracker that cannot be read is an
error and the step is not counted; a gripper that cannot be read is a step
without a value (`_read_gripper` returns None), which is counted, and refused only
by `_finalize_calibration` (`Unread`). A calibration whose file cannot be written
is in use all the same, reported as an error and its last step not counted
(`Unsaved`). A client may fail, disconnect
or die between any two steps. After a death its step thread goes on, shows its
frame on the one queue there is, ends with the next client's Enter and then
counts on `_calib_step`; the model has all of it, and with it the next client's
thread may skip a step. What follows is a `_finalize_calibration` with a missing
point, an error and not a wrong calibration. Assumption `Settled`: a thread that
has been told to stop, and looks every tenth of a second, has stopped when the
client polls again (the code waits 0.2 s and more) or reconnects. A client that
reconnects within a tenth of a second is not in the model.

### SO101Bus

A step is what happens between two points at which another thread may run: a
region under `_calibration_state_lock`, an acquire or release of
`_calibration_lock`, the beginning and the end of serial I/O. So `_acquire_bus`
is `BeginCall` (poison), `Take` or `GiveUp`, `RecordOwner`; `_release_bus` is
`Release` and `Unlock`; `_reset_bus_lock_state` is `Reset` and `ResetUnlock`.
What I/O does is not modelled, only who does it and on which opening of the
port (`live`). `suspect` is what the watchdog compares `_bus_owner_start` for:
whether the call it sampled is still the one on record. `server` is which of the
two servers runs: they differ in the calls they serve, in the order in which
Connect aborts a calibration and resets the lock, in whether it then reads
anything, and in Calibrate. Both servers' Calibrate opens a closed port before it
looks at anything else (`OpenForCalibrate`). The follower's then is a bus call
(`BeginCalibrate`, `EnterCalibrate`); the leader's reads `is_calibrated` and may
write the stored calibration without the lock (`UnlockedCalibrate`,
`EndUnlocked`).

`Overlap` is what clients do without regard to Connect and Disconnect; `Overlap =
{}` is clients that keep to this protocol:

* Connect comes when no call is under way and nothing of an earlier session could
  still reach the port (`Quiet`), and calls come once it has returned. A call may
  still run, or begin, while Disconnect does.
* No Calibrate arrives during a Connect or a Disconnect, and none at a closed port
  that an earlier session could still reach. One that arrived before a
  Disconnect may still run in the middle of it.

One of this repository's clients does that by itself: it calls
Calibrate only from `connect`, after the Connect RPC has returned, or from
`calibrate`, which wants a connected client (`follower/grpc_follower.py:358`, `430`),
and it is sequential. Two clients of one server, or one that is restarted while
its old calls run, need not. Left out: the frames of StreamCalibration, the law's
reference, cameras.

### FollowerClient and JointSmoke

A feature is a joint. The server samples the arm once per tick and streams its
joints one by one; `Consume` stores each where `get_observation` reads it, so a
cache may hold parts of two ticks. `connect` and `disconnect` are cut where
another thread can see something: `CleanUp` (the event), `Close` (join with a
timeout, Disconnect, caches), `Connect`. A consumer that has not looked at the
event before the next `connect` clears it lives on, as in the code, and reads the
new connection's stream. `FeatureInfo` is `_ensure_feature_info`: a GetInfo that
fails is swallowed, and the client is connected without feature tables; it
stores nothing it is streamed, and can send no action, until it has connected
again. `DropRobot` is a camera thread that takes the robot
down, which `retrying_rpc` is there for. The servos follow their goals or stop.
`send_action` merges into the cache of the last action and may be applied without
an answer. `JointSmoke` is the application: `Scan` is the plan, a sequence of
motions in which `Excursion` e is motions 2e + 1 (out) and 2e + 2 (back to the
base) and the gripper's three come last; a tier whose target is not `Approved`
stays in the sequence and is not `driven`, which is how `build_scan_steps` leaves
it out. `RampGoal` is the ramps, `CheckProgress` the stall check, `Dwell` the verdict, `Retry` the
reconnection, which any call may need. Parameters that stand for timing: `Lag` is
how far a joint gets while one tick is stored; `WholeTick = TRUE` is an
application that looks at a new connection only when a whole tick has arrived
(finding 5 is what happens otherwise). One assumption about the arm: it keeps
its pose, and its goal, while the server is without its robot (`Close`,
`DropRobot`). The server's Disconnect calls `robot.disconnect()`
(`follower/so101_follower_server.py:693-694`), which is lerobot's, not part of
this repository, and normally turns the torque off; an arm that sinks then is not
in the model. Left out: `--send-mode step`, the reposing
before the scan, the stream-cut pause, preflight and observe; a dwell is one look
instead of twenty; H.264, statistics, hold and resume.

## 3. Runs

Every property of a passing run is broken by the mutant of the code that
`PROJECT.json` lists for it. States are distinct states.

| run | instance | states | shows |
|---|---|---|---|
| `s1_session` | 4 joints, 2 apertures, an obstacle, cap 1, deltas -1, 0, 2 and an invalid one, 2 epochs, 1 hold | 407,352 | `CommandAnchored`, `AppliedStepBounded`, `GapDiscardsFrame`, the session hold implements `MotionGate`, `WatchdogReacts` |
| `s1_regap` | the same | violation | an invalid frame after a gap brings an old command back (finding 1) |
| `readiness` | 2 stations, 10 readings, 4 samples, gaps of 1 and 4 ticks, 3 generations | 17 thousand | a token describes the present map, its evidence is of one map, no token comes back, calm leads to READY |
| `clutch` | 2 hand positions, 2 failures; four worlds: any failure and squeezes anywhere, with the leader's clutch or the keyboard's; refusals and deaths of the client with a careful operator or with any | 251 thousand | the client follows only from a pair; a loss ends only with a reference; a hold freezes the arm as long as answers arrive; a careful operator's every engagement is completed or given up |
| `clutch_missed_edge` | the leader may refuse; squeezes anywhere | violation | finding 2 |
| `bus` | follower and leader, 1 caller, 2 calibrations, clients that keep to the protocol | 456,097 | one thread on the port, one releaser, the right call is poisoned, stuck calls are, calibrations end |
| `bus_overlap` | the follower, 2 callers, 2 calibrations, a Connect at any time | violation | finding 3 |
| `pika` | 3 positions, soft limit 0, absolute limit 1, 2 confirmations, 2 rechecks, 2 contexts, client-coordinated and automatic sessions | 1.84 million | no pose over a silence or a restart, no jump, a cumulative squeeze keeps the target, a restart ends or is reported |
| `pika_gap` | 2 positions, 1 context, a client that pauses | violation | finding 4 |
| `calibration` | 8 steps, 3 step threads, 2 deaths, 2 failed reads or writes | 43,623 | a calibration is computed only from points taken where they were asked for; "calibrated" is true; without deaths the tracker steps counted are those with a point; every dialogue ends |
| `joint_smoke` | a body joint and a gripper, 4 positions, 1 tier, 2 threads, 2 attempts, whole ticks | 648 thousand | no command jumps, leaves the range or leaks a zero; a pass means the arm is back; the scan ends; the stream of a client with its feature tables recovers |
| `joint_smoke_first_frame` | the same with an open gripper, any first look | violation | finding 5 |

Deadlock is checked in every run but those of the joint smoke test: a scan ends,
and its client then stays as it is.

**Why the bounds are enough to meet the hard cases.** *S1*: with cap 1, a delta
of 2 needs two capped steps; the obstacle is met by the path, by the endpoint
and by an opening gripper, and the outer margin (2) differs from the inner (1),
so the latch matters; joints last sent and measured joints can be up to three
positions apart; two epochs allow a reference after a hold and one before it.
*Readiness*: the ten readings contain an unsolved station, a map from too few
scenes, a drift inside the tolerance followed by one that exceeds it only in
sum, and a restarted SDK; one tick and four ticks lie on both sides of every
window; three generations allow a lease, its revocation and the next one.
*Clutch*: two failures can put the two sides on different references and then
fail again, or let a client die in the middle of that; two hand positions tell
offsets of different references apart. *Pika*: with three positions a step of one
is quarantined and a step of two is a jump; two contexts are one restart; two
confirmations let a quarantine be resolved, confirmed and lost; offsets are cut
off at 2, where one more segment has been added to a full one. *Calibration*: two
deaths leave up to two threads behind, and the third belongs to a live client.
Seven threads left behind at the same step, by seven clients that died, would
together count `_calib_step` up to eight, and Calibrate would answer
"calibrated" without a calibration; `CalibratedIsTrue` is for fewer. *Joint
smoke*: the body joint is found at 2, is driven by 2 in two ramp steps, and its
range admits one direction only; two attempts are one reconnection per call, and
any number in a scan; two threads are one that outlived its connection and its
successor. The dwell's tolerance is 0 and the lag 1; the proof covers the others.
*Bus*: two calibrations are one orphan and its successor; one caller suffices
for a call that returns after a reset while the session thread or a calibration
holds the lock. Two callers with one calibration give 534,912 states and the same
result; two of each are beyond a few minutes.

**Fairness.** `s1_session`: weak fairness of `Observe`: the stream generator is
resumed every physics period while a client reads it. Nothing forces clients to
send, reconnect or resume. `readiness`: no fairness in the specification; the
liveness property itself assumes that the sampler goes on polling a Tracker at
rest in an unchanged map (`Calm`), which is what its sampler thread does.
`clutch`: weak fairness of the client loop as a whole; neither the operator nor
the optics have to do anything. `pika`: the sampler runs, a capture times out,
the restart's timeout passes; the worker itself need not return. `bus`: both
watchdogs run, and a calibration thread whose serial reads return takes its next
step; no bus call ever has to end. `StopRecording` has strong fairness: the
recording looks at its events every 20 ms, an event that is set stays set until
the next Calibrate clears it, and a client cannot for ever fall between two looks.
`calibration`: the user presses Enter, the client goes on, the step threads run.
`joint_smoke`: the application and the threads of the client run and time passes;
the server need not stay up and the servos may stop.

**What the properties say about the code.** `CommandAnchored` is why the law may
start its capped step from its own memory although the watchdog and Hold write
the actuators behind its back: when they did, `watchdog_held` or the missing
reference makes the next frame stale or starts it from the measured pose.
`GapDiscardsFrame` holds whether the watchdog or the next frame notices a gap
first. `ImplementsLease` needs the generation to be counted at a revocation as
well as at a grant. `LockHasOneReleaser` ties the Python lock, the record and
the program counters together: it is what a reset under a running owner, a late
return, or a rejected calibration could break. `OneOnBus` is for clients that
keep to the protocol of section 2, and excepts what the leader does on the port
without the lock: its reads of `is_calibrated`, in Calibrate and in Connect, and
the write of the stored calibration in Calibrate
(`leader/so101_leader_server.py:409-410`). They overlap a call at once; that they
break neither the lock nor a calibration is what the leader's world shows.

`FollowingIsPaired` speaks of a client that is engaged. A client whose reference
transaction failed half-way is not, but if the leader then reports IDLE it goes
on transporting, for the gripper (`teleop_clutch.py:77`), and those actions carry
the leader's new reference to a follower on the old one. So `HoldFreezesArm` is
stated for servers whose answers arrive (they may refuse, and the client may die)
and for the leader's clutch; where the operator squeezes does not matter to it.
With the keyboard's clutch the client sends nothing while it holds.

`UsedPointsAreTrue` is about the stored calibration, not about the order of
events: with the thread of a dead client steps are skipped, in spite of the
comment in Calibrate, and it is the missing point that saves the result. So
`StepsInOrder` is limited to sessions in which no client died. It is also limited
to the tracker's steps: the gripper's first step is counted although nothing was
read, and the dialogue then goes to its end before it is refused.

`StreamRecovers` is for a client that has read the feature tables. One whose
GetInfo failed in `connect` stays connected, reads its stream and never observes
anything; nothing in the session reads the tables again (its properties would, but
the scan does not use them). `ScanEnds` says that the scan gets out of it.

`PassMeansHome` is for an arm that keeps its pose while its server is
without its robot (see section 2). It promises the dwell's own tolerance, although the verdict reads a
stream that may be late and a cache that may be of an earlier tick. That holds
because every judged motion has a partner the other way: a joint that was seen at
its tier has left, and one that is seen at home after that has returned. It needs
tiers that a late, tolerant look can tell from home: with tolerance 2, a tier of 3
and no lag at all TLC finds a scan that passes with the joint out. The defaults
are a tolerance of 2 degrees and tiers of 5 and 10
(`follower/joint_smoke.py:99`); operators who pass smaller tiers are not covered.

## 4. Proofs

Every invariant and action property of every passing run, the two refinements
included, is a theorem `Spec => ...`. Constants are arbitrary up to the named
assumptions of their modules (`LawAssumption`, `S1Assumption`,
`ReadinessAssumption`, `ClutchAssumption`, `PikaAssumption`,
`CalibrationAssumption`, `BusAssumption`, `ClientAssumption`, `SmokeAssumption`),
which TLC evaluates in the runs of the modules that extend them: any number of
threads, callers, stations, joints, positions, references, steps, deaths and
attempts. Nine theorems assume something besides; each such hypothesis is about
how the program is run, and holds of the instance of the passing run:

| hypothesis | where | meaning | without it |
|---|---|---|---|
| `Overlap = {}` | `OneOnBusAlways` | clients that keep to the protocol: no Connect while somebody is at work, no Calibrate while connecting or disconnecting | false: run `bus_overlap` for the first; TLC also finds a violation with `Overlap = {"calibrate"}` (finding 3) |
| `~Pausing` | three theorems of `PikaLeader_proofs` | a client that calls GetAction before the optics age | false for `GapInvalidatesReference`: run `pika_gap` (finding 4) |
| `WholeTick` | commands and verdict of the smoke test | the first look finds a whole tick | false for `CommandsAreSmall`: run `joint_smoke_first_frame` (finding 5) |
| `FewThreads` | `CalibratedIsTrueAlways`, `TypeCorrect` of the calibration | fewer step threads alive than the dialogue has steps | as many threads as steps, alive at one Enter, count `_calib_step` to the end (see the bounds of *Calibration*) |
| `Discerning` | `PassMeansHomeAlways` | every tier exceeds twice the tolerance and the lag | a hypothesis of this kind is needed, see above |

The pattern is the same throughout: an inductive invariant, `Init => Inv`,
`Inv /\ [Next]_vars => Inv'` with one step per action, and `Inv => property`. A
handler that is a pipeline of operators gets one lemma per stage, which says what
the stage keeps of the record it is given, and later proofs cite only that.

**S1Follower_proofs.** `TypeCorrect`, `CommandAnchoredAlways`,
`AppliedStepBoundedAlways`, `GapDiscardsFrameAlways`, `MotionGateImplemented`.
The law is used only through `SolveContract` (`SolveKeepsContract`): an answer
that is not held is one capped step from where the law starts and is what the
law remembers; a stale answer re-anchors the memory at the measured joints; any
other answer keeps the joints sent and repeats them. `CommandAnchored` is not
inductive alone. `IInv` adds what it depends on: types with a locked reference,
and the epoch facts by which a Resume, which clears `watchdog_held`, is possible
only after a reference has cleared the law's memory. The action properties and
the refinement follow from `IInv` at both ends of a step.

**TrackerReadiness_proofs.** `TypeCorrect`, `LeaseDescribesMapAlways`,
`WindowOfOneMapAlways`, `LeaseImplemented`. `update` is a pipeline, so the proof
is one lemma per stage (`...Stage`): each keeps `GateInv` (types, what a token in
force implies, what the samples have in common) and leaves the lease alone or
ends it (`Evolves`, which is transitive). `LeaseDescribesMap` is about the
present reading, which changes at every call; the strengthening says instead
that the remembered ready scene is the scene the token was granted under, and
that a READY answer was checked against the reading it came from.

**ClutchSession_proofs.** `TypeCorrect`, `FollowingIsPairedAlways`,
`LossNeedsReferenceAlways`, `HoldFreezesArmAlways`, for every set of worlds.
Three invariants above the types. `LatchInv` relates the leader's flags
(a loss or an unconfirmed reference requires a reference, and who requires one is
not engaged); it is `LossNeedsReference` made inductive. `PairInv` says at which
points of the client's loop the two references agree: always where the client is
engaged, and in `fetch`, which follows a committed pair; it also says whose the
action in hand is, and that a client which aligns stands at a follower that has
not moved. `HoldInv` says where, as long as answers arrive, the follower already
has the action the leader would publish: a leader publishes live poses only to a
client that is engaged, and a transaction starts only when it does not.

**SO101Bus_proofs.** `TypeCorrect`, `LockHasOneReleaserAlways`,
`PoisonBlamesStuckCallAlways` for any clients, overlapping sessions included;
`OneOnBusAlways` for clients that keep to the protocol. `LockInv` names for every
held lock the one thread that will release it (`Releases`): a thread that has it
and is not yet on record, the thread on record while it is on the bus, a thread
between clearing the record and unlocking, or the session thread in the middle of
a reset. A reset clears the record under a thread on the bus, which by that stops
being a releaser. `SessionInv` ties the session thread's place in Connect to
its place in `_acquire_bus`; `SuspectInv` is the watchdog's sample. `PortInv`
adds for `Overlap = {}` that only an open port is used, that who uses the present
opening is on record, and that nothing can reach the port while a Connect is
under way (`Quiet`), so its reset takes the lock from nobody.

**PikaLeader_proofs.** `TypeCorrect`, `EngageKeepsTargetAlways` for any client;
`FollowingInOneContextAlways`, `GapInvalidatesReferenceAlways`,
`PublishedMotionBoundedAlways` for one that does not pause. GetAction is taken
apart into its stages (`Update`, the forced recheck, the outcome of the runtime
pose - lost or used -, the pressed clutch, the published offset), each with a
lemma about the fields. `GateInv` has five parts above the types: the runtime
checks see a sweep no earlier than readiness does (`SeenInv`); poses that are kept
are of the present decoder context unless a restart's result is waiting, and then
nobody follows (`ContextInv`); who follows or is about to recover does so with a
recent baseline, or an old one that no GetAction has met yet (`LiveInv`); a gap
under a followed reference is exactly that case, and the readiness update has no
new sweep to hide it with (`GapInv` - with a pausing client it has one, which is
finding 4); what is published is the offset of the last valid pose (`OffsetInv`),
so two published poses differ by what the motion gate let through.

**PikaCalibration_proofs.** `UsedPointsAreTrueAlways` without any hypothesis:
whatever number of clients died, however many threads they left and wherever those
threads' prompts sent the user. `PointsInv` distinguishes what the stored points
can be: none; all taken at the place where the user stands (`Uniform`), which no
`_finalize_calibration` accepts; with a first pair that is missing a point or not
apart (`Spoilt`), which none will accept later either; or the right ones up to
the present step, with the one thread of that step (`Prefix`, `Single`). Orphans
answer to the first Enter after a new beginning, and all of them from the one
place where the user then is, so what two threads leave is uniform, and spoilt
until the next beginning; what one leaves is a prefix of the right points, but for the closed gripper, which
may have been counted without a value. `CountInv` counts threads alive against
steps left, and is what `CalibratedIsTrueAlways` and `TypeCorrect` need
`FewThreads` for. `StepsInOrderAlways` rests on `OrderInv`: until a client dies
the tracker steps counted are those with a point, and there is at most one thread, of the next step, and it has been told to stop by
the time another client comes.

**JointSmoke_proofs.** `TypeCorrect` for any first look; with whole ticks
`CommandsStayInRangeAlways` and `CommandsAreSmallAlways`. The arithmetic of a ramp
comes first: the equal, floored steps of `RampGoal` are at most `MaxStep` long,
stay between start and target and end at the target (`EqualSteps`, `RampFacts`).
Then the plan: every motion's target is approved or the base (`ScanFacts`). The
invariant says that until the first command nothing is touched and the plan's
base is the pose the arm was found in (`BaseInv`); that the present command and
the rest of the ramp are in range (`RangeInv`) and in small steps from what the
servos have, or already from the command whose answer was lost (`StepInv`).

**JointSmokeVerdict_proofs.** `PassMeansHomeAlways`. At any moment every body
joint is on one leg of the plan: home, on its way out, or on its way back. On
each, where the arm and its goal may be and what the stream and the cache may show
(`Seen`) are bounded (`AtHome`, `OnWayOut`, `OnWayBack`, kept together as
`VerdictInv`); the servos, the ticks, the consumers and the reconnections keep the
bounds, because a sample is at most `Lag` from the arm and a ramp on its way out
or home does not turn back. A dwell that passes at the tier proves that the joint
has left (`Turns`: what was seen exceeds what home could show, here `Discerning`
is used), and one that passes at home proves that it has returned (`Returns`). A
dwell that fails, and a stall, end in `failures` and promise nothing.

**Only model-checked.** Liveness: `WatchdogReacts`, `CalmBecomesReady`,
`CarefulEngageGetsReference`, `StuckCallPoisons`, `CalibrationEnds`,
`RestartEnds`, `DialogueEnds`, `StreamRecovers`, `ScanEnds`. Fairness and ENABLED
are out of this prover's reach. What is proved is proved of the models; that a
model is the code is what `map` and section 2 are for.

## 5. Findings

Each is a behaviour of the code that contradicts one of its own comments, docs
or tests; `PROJECT.json` quotes them.

1. `follower/pose_delta_law.py:842` - a frame that is not finite, or whose
   collision checker raises, is answered before the staleness test, so the first
   frame after a gap can put the pre-gap command back (`s1_regap`).
2. `teleop_clutch.py:73` - two squeezes around the first fetch of a new reference
   leave leader and client both engaged, and the leader waiting for a
   SetReference that never comes (`clutch_missed_edge`).
3. `follower/so101_follower_server.py:550` - a Connect that arrives while a call
   or an orphaned calibration is on the open port frees their lock, and two
   threads use the port (`bus_overlap`). A Calibrate that arrives between the close
   and the reset of a Disconnect reopens the port (line 621) and loses its lock to
   the reset in the same way (the same run with `Overlap = {"calibrate"}`).
4. `leader/pika_sense_leader_server.py:1672` - the gap test of GetAction compares
   with a baseline that the readiness update has just refreshed, so a silence
   of the optics between two GetActions, a decoder restart included, does not
   invalidate the reference (`pika_gap`).
5. `follower/grpc_follower.py:508` - the first feature of a frame makes the whole
   zeroed cache look observed, so the first `get_observation` may return zeros for
   joints that have not arrived; the smoke test takes them for the base pose and
   commands them (`joint_smoke_first_frame`).

## 6. Not modelled, and what remains

Modelled, in this order: the law and the S1 follower (the motion-safety core),
the readiness gate, the clutch, the SO-101 bus with both servers, the Pika
leader's pose gate, its calibration, the follower's client and the smoke test.

Worth doing next:

1. More abstract specifications that the proved invariants make cheap: a lock
   that `SO101Bus` implements for clients that keep to the protocol, and a
   two-phase reference that `ClutchSession` implements. A lag in the smoke test
   that may exceed the tier, with the sharpest hypothesis for `PassMeansHome`.
2. The law with a plant that tracks its command: the gripper that moves while the
   arm is held (`follower/mujoco_s1_follower_server.py:1046`), escape from the
   outer margin as liveness (`follower/pose_delta_law.py:518`), and the reference
   that is locked after the bus was released
   (`follower/so101_follower_server.py:536`).
3. `PikaLeader` composed with `TrackerReadiness` in place of its free answer; each
   alone is near what TLC does in a few minutes.

Not modelled: the frame queue of the SO-101's StreamCalibration (its reader polls
and no one waits for its end); statistics, quality fields and status texts;
camera encoding, H.264, feature encoding and the numerics of IK and collision
distances (data, not control); the smoke test's other modes; argument parsing,
launchers, generated protocol code, benchmarks.
