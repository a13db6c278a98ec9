---------------------------- MODULE ClutchSession ----------------------------
(***************************************************************************)
(* The clutch of a pose-delta session: the Pika leader's latch state       *)
(* machine (pika_sense_leader_server.py), the client's alignment, its loop *)
(* with auto_clutch_step or keyboard_clutch_step (teleop_clutch.py) and    *)
(* relatch (examples/teleop_pika_mujoco.py), and the follower's reference. *)
(* Every RPC is one step; the hand moves, the operator squeezes and the    *)
(* optics fail between any two of them, and the client may die and be      *)
(* started again while both servers live on.                               *)
(*                                                                         *)
(* A reference is a number, new at every commit of the leader.  The        *)
(* follower's is the number of the leader's reference it was committed     *)
(* after, or, at an alignment, of the one that was committed while the arm *)
(* stood where it was connected: equal numbers are "current hand =         *)
(* current arm".                                                           *)
(***************************************************************************)
EXTENDS Integers

CONSTANTS
  MaxHand,       \* hand positions 0 .. MaxHand
  MaxFailures,   \* bound on failed reference RPCs and deaths of the client
  Worlds         \* what may fail, when the operator squeezes, --clutch-source

FailureKind == {"not_ready", "unstable", "leader_answer_lost",
                "follower_down", "follower_answer_lost", "client_dies"}
PC == {"align", "get_action", "get_status", "set_leader", "set_follower",
       "fetch", "send"}
World == [failures : SUBSET FailureKind, squeeze_at : SUBSET PC,
          source : {"auto", "keyboard"}]

ASSUME ClutchAssumption ==
  MaxHand \in Nat /\ MaxFailures \in Nat /\ Worlds \subseteq World

VARIABLES
  leader,     \* the PikaSenseServicer's latch state
  command,    \* the Pika Command bit a quick squeeze flips
  hand,       \* where the Tracker is
  client,     \* the teleop loop
  follower,   \* the follower's reference and the last action it was sent
  failures,   \* failures so far
  world       \* the world of this run

vars == <<leader, command, hand, client, follower, failures, world>>

-----------------------------------------------------------------------------
Bit == {0, 1}
NoCommand == 2       \* no Command state has been seen yet
Hand == 0 .. MaxHand
Offset == -MaxHand .. MaxHand
\* Numbers wrap around; more failures than are allowed would be needed for two
\* different references to have the same number.
Reference == 0 .. MaxFailures + 1
NextReference(r) == (r + 1) % (MaxFailures + 2)

Leader == [clutched : BOOLEAN, pending_relatch : BOOLEAN,
           reference_required : BOOLEAN, recovery_ready : BOOLEAN,
           confirmation_pending : BOOLEAN, prev_command : Bit \cup {NoCommand},
           t_begin : Hand, published : Offset,
           reference : Reference,
           lost : BOOLEAN]            \* tracking was lost since the reference
Action == [reference : Reference, offset : Offset]
Client == [pc : PC, engaged : BOOLEAN, raw_action : Action,
           reference_pending : BOOLEAN]
Follower == [reference : Reference, action : Action,
             at_reference : BOOLEAN]  \* no action since the reference was taken

-----------------------------------------------------------------------------
(* The leader.                                                              *)

\* _require_new_reference; the first form leaves the clutch as it is.
RequireOnly(l) ==
  [l EXCEPT !.reference_required = TRUE, !.confirmation_pending = FALSE,
            !.recovery_ready = FALSE, !.lost = TRUE]
RequireReference(l) ==
  [l EXCEPT !.reference_required = TRUE, !.confirmation_pending = FALSE,
            !.clutched = FALSE, !.pending_relatch = TRUE,
            !.recovery_ready = FALSE, !.lost = TRUE]

\* What the optics can do in one GetAction: nothing new, a fresh pose, a fresh
\* pose that completes the recovery window, or a loss of any kind (stale
\* optics, a pose jump, readiness LOST, MAP_CHANGED or ERROR).
Optics == {"held", "fresh", "recovered", "lost"}

Track(l, optics) ==
  CASE optics = "lost" -> RequireReference(l)
    [] optics = "recovered" /\ l.reference_required ->
         [l EXCEPT !.recovery_ready = TRUE]
    [] OTHER -> l

\* The Command edge: a confirmation while a reference is required, a toggle of
\* the clutch otherwise.
Edge(l, cmd) ==
  CASE cmd = l.prev_command -> l
    [] l.prev_command = NoCommand -> [l EXCEPT !.prev_command = cmd]
    [] l.reference_required /\ l.recovery_ready ->
         [l EXCEPT !.confirmation_pending = TRUE, !.clutched = FALSE,
                   !.pending_relatch = TRUE, !.prev_command = cmd]
    [] l.reference_required /\ ~l.recovery_ready ->
         [l EXCEPT !.clutched = FALSE, !.prev_command = cmd]
    [] OTHER ->
         [l EXCEPT !.clutched = ~@, !.prev_command = cmd,
                   !.pending_relatch = IF l.clutched THEN @ ELSE TRUE]

\* The published offset: relative to the latch, or added to the last one.
SummedOffset(l, h) == l.published + (h - l.t_begin)
LatchedOffset(l, h) == h - l.t_begin

Publish(l, h, optics) ==
  IF /\ l.clutched /\ ~l.pending_relatch /\ ~l.reference_required
     /\ optics \in {"fresh", "recovered"}
  THEN [l EXCEPT !.published = LatchedOffset(l, h)] ELSE l

\* _compute_action.
ComputeAction(l, cmd, h, optics) ==
  Publish(Edge(Track(l, optics), cmd), h, optics)

ActionOf(l) == [reference |-> l.reference, offset |-> l.published]

\* SetReference that commits, and SetReference that finds no stable sample.
Commit(l, cmd, h) ==
  [l EXCEPT !.reference_required = FALSE, !.confirmation_pending = FALSE,
            !.recovery_ready = FALSE, !.prev_command = cmd,
            !.t_begin = h, !.published = 0, !.clutched = TRUE,
            !.pending_relatch = FALSE,
            !.reference = NextReference(@), !.lost = FALSE]
Reject(l) ==
  [l EXCEPT !.confirmation_pending = FALSE, !.reference_required = TRUE,
            !.clutched = FALSE, !.pending_relatch = TRUE,
            !.recovery_ready = FALSE]

\* Connect resets the latch of the session; a loss of tracking outlives it.
Reconnected(l) ==
  [l EXCEPT !.published = 0, !.confirmation_pending = FALSE, !.clutched = FALSE,
            !.pending_relatch = FALSE, !.prev_command = NoCommand]

-----------------------------------------------------------------------------
(* The client loop.                                                         *)

\* The action fetched at the top of an iteration, with its tracking state.
GetAction ==
  /\ client.pc = "get_action"
  /\ \E optics \in Optics :
       LET l == ComputeAction(leader, command, hand, optics)
       IN  /\ leader' = l
           /\ client' = [client EXCEPT !.pc = "get_status", !.raw_action = ActionOf(l),
                                       !.reference_pending = l.confirmation_pending]
  /\ UNCHANGED <<command, hand, follower, failures, world>>

\* get_device_status and the decision of auto_clutch_step: an engage edge or a
\* confirmed recovery starts the reference transaction.
GetStatus ==
  /\ client.pc = "get_status" /\ world.source = "auto"
  /\ LET engaged_now == leader.clutched
     IN  client' =
           IF \/ engaged_now /\ ~client.engaged
              \/ client.reference_pending /\ ~engaged_now
           THEN [client EXCEPT !.pc = "set_leader"]
           ELSE [client EXCEPT !.pc = "send", !.engaged = engaged_now]
  /\ UNCHANGED <<leader, command, hand, follower, failures, world>>

\* With --clutch-source keyboard the client holds the clutch and does not ask
\* for the leader's; on hold it sends nothing at all.
PollKey ==
  /\ client.pc = "get_status" /\ world.source = "keyboard"
  /\ \E key \in BOOLEAN :
       LET engaged == IF key THEN ~client.engaged ELSE client.engaged
       IN  client' =
             [client EXCEPT !.engaged = engaged,
                            !.pc = IF ~engaged THEN "get_action"
                                   ELSE IF key THEN "set_leader" ELSE "send"]
  /\ UNCHANGED <<leader, command, hand, follower, failures, world>>

\* A failed transaction sends nothing and leaves the client disengaged; the
\* first form keeps the engagement it was about to enter.
FailEngaged(kind) ==
  /\ kind \in world.failures /\ failures < MaxFailures
  /\ failures' = failures + 1
  /\ client' = [client EXCEPT !.pc = "get_action", !.engaged = TRUE]
Fail(kind) ==
  /\ kind \in world.failures /\ failures < MaxFailures
  /\ failures' = failures + 1
  /\ client' = [client EXCEPT !.pc = "get_action", !.engaged = FALSE]

SetLeaderReference ==
  /\ client.pc = "set_leader"
  /\ \/ /\ leader' = Commit(leader, command, hand)
        /\ \/ client' = [client EXCEPT !.pc = "set_follower"] /\ UNCHANGED failures
           \/ Fail("leader_answer_lost")
     \/ leader' = Reject(leader) /\ Fail("unstable")
     \/ UNCHANGED leader /\ Fail("not_ready")
  /\ UNCHANGED <<command, hand, follower, world>>

\* The follower latches the arm where it is for the leader's new reference.
SetFollowerReference ==
  /\ client.pc = "set_follower"
  /\ \/ /\ follower' = [follower EXCEPT !.reference = leader.reference,
                                        !.at_reference = TRUE]
        /\ \/ client' = [client EXCEPT !.pc = "fetch"] /\ UNCHANGED failures
           \/ Fail("follower_answer_lost")
     \/ UNCHANGED follower /\ Fail("follower_down")
  /\ UNCHANGED <<leader, command, hand, world>>

\* The fresh action of the engage edge; the first form sends the one fetched
\* before the references moved.
KeepRawAction ==
  /\ client.pc = "fetch"
  /\ client' = [client EXCEPT !.pc = "send", !.engaged = TRUE]
  /\ UNCHANGED <<leader, command, hand, follower, failures, world>>
FetchAction ==
  /\ client.pc = "fetch"
  /\ \E optics \in Optics :
       LET l == ComputeAction(leader, command, hand, optics)
       IN  /\ leader' = l
           /\ client' = [pc |-> "send", engaged |-> TRUE, raw_action |-> ActionOf(l),
                         reference_pending |-> l.confirmation_pending]
  /\ UNCHANGED <<command, hand, follower, failures, world>>

SendAction ==
  /\ client.pc = "send"
  /\ follower' = [follower EXCEPT !.action = client.raw_action,
                                  !.at_reference = FALSE]
  /\ client' = [client EXCEPT !.pc = "get_action"]
  /\ UNCHANGED <<leader, command, hand, failures, world>>

MoveHand ==
  /\ \E h \in Hand \ {hand} : hand' = h
  /\ UNCHANGED <<leader, command, client, follower, failures, world>>

Squeeze ==
  /\ client.pc \in world.squeeze_at
  /\ command' = 1 - command
  /\ UNCHANGED <<leader, hand, client, follower, failures, world>>

\* The client dies anywhere and is started again: it connects to the leader
\* and then to the follower, which takes its reference where the arm stands;
\* the first form has a follower that keeps the one it has.
KeepReference(f) == f
ConnectFollower(f) == [f EXCEPT !.at_reference = TRUE]

Restart ==
  /\ "client_dies" \in world.failures /\ failures < MaxFailures
  /\ failures' = failures + 1
  /\ leader' = Reconnected(leader)
  /\ follower' = ConnectFollower(follower)
  /\ client' = [client EXCEPT !.pc = "align", !.engaged = TRUE,
                              !.reference_pending = FALSE]
  /\ UNCHANGED <<command, hand, world>>

\* wait_for_tracking_readiness, the operator's Enter and the leader's reference;
\* a reference that is refused or whose answer is late is asked for again.
\* The follower's is the one of its Connect: it is at the leader's new one as
\* long as the arm stands there, and there is where it was last sent.
AlignedAt(f, n) ==
  IF f.at_reference
  THEN [f EXCEPT !.reference = n, !.action = [reference |-> n, offset |-> 0]] ELSE f

FailAlign(kind) ==
  /\ kind \in world.failures /\ failures < MaxFailures
  /\ failures' = failures + 1 /\ UNCHANGED client

Align ==
  /\ client.pc = "align"
  /\ \/ /\ leader' = Commit(leader, command, hand)
        /\ follower' = AlignedAt(follower, leader'.reference)
        /\ \/ /\ client' = [client EXCEPT !.pc = "get_action",
                                           !.engaged = (world.source = "keyboard")
                                                       \/ leader'.clutched]
              /\ UNCHANGED failures
           \/ FailAlign("leader_answer_lost")
     \/ leader' = Reject(leader) /\ UNCHANGED follower /\ FailAlign("unstable")
     \/ UNCHANGED <<leader, follower>> /\ FailAlign("not_ready")
  /\ UNCHANGED <<command, hand, world>>

\* The first connection to a leader that was just started.
Init ==
  /\ world \in Worlds
  /\ command = 0 /\ hand = 0 /\ failures = 0
  /\ leader = [clutched |-> FALSE, pending_relatch |-> FALSE,
               reference_required |-> FALSE, recovery_ready |-> FALSE,
               confirmation_pending |-> FALSE, prev_command |-> NoCommand,
               t_begin |-> 0, published |-> 0, reference |-> 0, lost |-> FALSE]
  /\ client = [pc |-> "align", engaged |-> TRUE, reference_pending |-> FALSE,
               raw_action |-> [reference |-> 0, offset |-> 0]]
  /\ follower = [reference |-> 0, at_reference |-> TRUE,
                 action |-> [reference |-> 0, offset |-> 0]]

Loop == \/ Align \/ GetAction \/ GetStatus \/ PollKey
        \/ SetLeaderReference \/ SetFollowerReference \/ FetchAction \/ SendAction

Next == Loop \/ MoveHand \/ Squeeze \/ Restart

Spec == Init /\ [][Next]_vars

\* The client loop never stops on its own, and the operator aligns.
FairSpec == Spec /\ WF_vars(Loop)

-----------------------------------------------------------------------------
(* Properties.                                                              *)

\* Types; the published offset stays within the reach of the hand.
TypeOK ==
  /\ leader \in Leader /\ client \in Client /\ follower \in Follower
  /\ command \in Bit /\ hand \in Hand /\ failures \in 0 .. MaxFailures
  /\ world \in Worlds

\* An action sent while following was computed from the reference that the
\* follower was committed for, however the transactions before it failed: the
\* frozen action of the engage edge and a half-committed one never reach it.
FollowingIsPaired ==
  client.pc = "send" /\ client.engaged =>
    /\ client.raw_action.reference = follower.reference
    /\ client.raw_action.reference = leader.reference

\* The leader publishes live poses only from a reference committed after the
\* last loss of tracking: neither a squeeze nor a failed SetReference ends a
\* loss.
LossNeedsReference ==
  leader.clutched /\ ~leader.pending_relatch =>
    ~leader.lost /\ ~leader.reference_required /\ ~leader.confirmation_pending

\* What the servers answer arrives, and the clutch is the leader's.
Answering ==
  /\ world.failures \subseteq {"not_ready", "unstable", "client_dies"}
  /\ world.source = "auto"

\* Besides, the operator does not squeeze inside a reference transaction.
Careful == Answering /\ world.squeeze_at \cap {"set_follower", "fetch"} = {}

\* While the clutch is open the client keeps sending, for the gripper, and the
\* arm's offset in every such action is the one the follower already has,
\* wherever the operator squeezes and whatever was refused before.
HoldFreezesArm ==
  Answering /\ client.pc = "send" /\ ~client.engaged =>
    client.raw_action = follower.action

\* An engaged leader that waits for a reference gets one, or is disengaged
\* again: the client never takes a clutch it has to relatch for one it has
\* already relatched.
EngageGetsReference ==
  leader.clutched /\ leader.pending_relatch
    ~> ~leader.clutched \/ ~leader.pending_relatch

\* So it does for a careful operator, whatever the leader refuses and whenever
\* the client is started again.
CarefulEngageGetsReference == Careful => EngageGetsReference

=============================================================================
