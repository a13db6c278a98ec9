-------------------------- MODULE ClutchSession_proofs --------------------------
(***************************************************************************)
(* Proofs about the clutch session, for every reach of the hand, every     *)
(* number of failures and every set of worlds.                             *)
(***************************************************************************)
EXTENDS ClutchSession, TLAPS

-----------------------------------------------------------------------------
(***************************************************************************)
(* The leader.  It publishes live poses when it is engaged and has latched *)
(* them; LatchInv relates the flags from which it decides that.            *)
(***************************************************************************)
Publishing(l) == l.clutched /\ ~l.pending_relatch

LatchInv(l) ==
  /\ l.lost => l.reference_required
  /\ l.confirmation_pending => l.reference_required
  /\ l.reference_required => ~l.clutched

\* What a GetAction does to the latch: it keeps the reference, publishes only
\* when it is publishing, and starts publishing never.
Tracks(l, m) ==
  /\ m \in Leader
  /\ LatchInv(l) => LatchInv(m)
  /\ m.reference = l.reference
  /\ ~Publishing(m) => m.published = l.published
  /\ Publishing(m) => Publishing(l)

LEMMA ComputeActionTracks ==
  ASSUME NEW l \in Leader, NEW cmd \in Bit, NEW h \in Hand, NEW optics \in Optics
  PROVE  Tracks(l, ComputeAction(l, cmd, h, optics))
<1> DEFINE t == Track(l, optics)
           e == Edge(t, cmd)
<1>1. Tracks(l, t) /\ t.published = l.published
  BY DEF Tracks, Track, RequireReference, Leader, LatchInv, Publishing
<1>2. Tracks(t, e) /\ e.published = t.published
  BY <1>1 DEF Tracks, Edge, Leader, LatchInv, Publishing, Bit, NoCommand
<1>3. Tracks(e, Publish(e, h, optics))
  <2>1. e \in Leader BY <1>2 DEF Tracks
  <2>2. LatchedOffset(e, h) \in Offset
    BY <2>1, ClutchAssumption DEF LatchedOffset, Leader, Hand, Offset
  <2> QED BY <2>1, <2>2 DEF Publish, Tracks, Leader, LatchInv, Publishing
<1> HIDE DEF t, e
<1>4. Tracks(l, Publish(e, h, optics))
  BY <1>1, <1>2, <1>3 DEF Tracks
<1> QED BY <1>4 DEF ComputeAction, t, e

\* The other things that happen to a latch.
LEMMA CommitFacts ==
  ASSUME NEW l \in Leader, NEW cmd \in Bit, NEW h \in Hand
  PROVE  /\ Commit(l, cmd, h) \in Leader /\ LatchInv(Commit(l, cmd, h))
         /\ Commit(l, cmd, h).published = 0 /\ Commit(l, cmd, h).clutched
         /\ Commit(l, cmd, h).reference = NextReference(l.reference)
<1>1. NextReference(l.reference) \in Reference
  BY ClutchAssumption DEF NextReference, Reference, Leader
<1>2. 0 \in Offset
  BY ClutchAssumption DEF Offset
<1> QED BY <1>1, <1>2 DEF Commit, Leader, LatchInv

LEMMA RejectFacts ==
  ASSUME NEW l \in Leader
  PROVE  /\ Reject(l) \in Leader /\ LatchInv(Reject(l)) /\ ~Publishing(Reject(l))
         /\ ActionOf(Reject(l)) = ActionOf(l)
BY DEF Reject, Leader, LatchInv, Publishing, ActionOf

LEMMA ReconnectedFacts ==
  ASSUME NEW l \in Leader
  PROVE  /\ Reconnected(l) \in Leader
         /\ LatchInv(l) => LatchInv(Reconnected(l))
         /\ Reconnected(l).reference = l.reference
<1>1. 0 \in Offset
  BY ClutchAssumption DEF Offset
<1> QED BY <1>1 DEF Reconnected, Leader, LatchInv, Bit, NoCommand

LEMMA ActionOfType == ASSUME NEW l \in Leader PROVE ActionOf(l) \in Action
  BY DEF ActionOf, Leader, Action

LEMMA AlignedAtFacts ==
  ASSUME NEW f \in Follower, NEW n \in Reference
  PROVE  /\ AlignedAt(f, n) \in Follower
         /\ f.at_reference => /\ AlignedAt(f, n).reference = n
                              /\ AlignedAt(f, n).action = [reference |-> n, offset |-> 0]
                              /\ AlignedAt(f, n).at_reference
<1>1. [reference |-> n, offset |-> 0] \in Action
  BY ClutchAssumption DEF Action, Offset
<1> QED BY <1>1 DEF AlignedAt, Follower

-----------------------------------------------------------------------------
(***************************************************************************)
(* The inductive invariant.                                                *)
(***************************************************************************)

\* Whoever is engaged, or about to be, is on a pair of references; the action in
\* hand is of the leader's.  An alignment trusts that the arm still stands where
\* the follower was connected.
PairInv ==
  /\ client.pc = "align" => follower.at_reference
  /\ client.pc = "fetch" => follower.reference = leader.reference
  /\ client.pc \in {"get_action", "get_status", "send"} /\ client.engaged
       => follower.reference = leader.reference
  /\ client.pc \in {"get_status", "send"}
       => client.raw_action.reference = leader.reference

\* When what the servers answer arrives, the follower has the action the leader
\* would publish, except for a live one in the hand of an engaged client: a
\* leader publishes only to a client that is engaged, and a transaction starts
\* only when it does not publish.
HoldInv ==
  Answering =>
    /\ client.pc = "get_action" => follower.action = ActionOf(leader)
    /\ client.pc \in {"get_action", "get_status"} /\ ~client.engaged
         => ~Publishing(leader)
    /\ client.pc \in {"get_status", "send"} => client.raw_action = ActionOf(leader)
    /\ client.pc = "get_status" /\ ~Publishing(leader)
         => follower.action = client.raw_action
    /\ client.pc = "set_leader" =>
         ~Publishing(leader) /\ follower.action = ActionOf(leader)
    /\ client.pc = "send" /\ ~client.engaged => ~Publishing(leader)
    /\ client.pc = "send" /\ ~client.engaged => follower.action = client.raw_action

IInv ==
  /\ TypeOK
  /\ LatchInv(leader)
  /\ PairInv
  /\ HoldInv

LEMMA InitIInv == Init => IInv
<1> SUFFICES ASSUME Init PROVE IInv
  OBVIOUS
<1>1. TypeOK
  <2>1. 0 \in Offset /\ 0 \in Hand /\ 0 \in Reference /\ 0 \in 0 .. MaxFailures
    BY ClutchAssumption DEF Offset, Hand, Reference
  <2> QED
    BY <2>1 DEF Init, TypeOK, Leader, Client, Follower, Action, Bit, NoCommand, PC
<1>2. LatchInv(leader) /\ PairInv /\ HoldInv
  BY DEF Init, LatchInv, PairInv, HoldInv
<1> QED BY <1>1, <1>2 DEF IInv

\* What the two steps that fetch an action do.
LEMMA GetActionEffect ==
  ASSUME TypeOK, GetAction
  PROVE  /\ client.pc = "get_action" /\ client'.pc = "get_status"
         /\ client' \in Client /\ client'.engaged = client.engaged
         /\ client'.raw_action = ActionOf(leader')
         /\ Tracks(leader, leader')
         /\ UNCHANGED <<command, hand, follower, failures, world>>
<1>1. PICK optics \in Optics :
        /\ leader' = ComputeAction(leader, command, hand, optics)
        /\ client' = [client EXCEPT !.pc = "get_status",
                                    !.raw_action = ActionOf(leader'),
                                    !.reference_pending = leader'.confirmation_pending]
  BY DEF GetAction
<1>2. Tracks(leader, leader')
  BY <1>1, ComputeActionTracks DEF TypeOK
<1>3. leader' \in Leader /\ leader'.confirmation_pending \in BOOLEAN
      /\ ActionOf(leader') \in Action
  BY <1>2, ActionOfType DEF Tracks, Leader
<1>4. client' \in Client /\ client'.raw_action = ActionOf(leader')
      /\ client'.engaged = client.engaged /\ client'.pc = "get_status"
  BY <1>1, <1>3 DEF TypeOK, Client, PC
<1> QED BY <1>2, <1>4 DEF GetAction

LEMMA FetchActionEffect ==
  ASSUME TypeOK, FetchAction
  PROVE  /\ client.pc = "fetch" /\ client'.pc = "send"
         /\ client' \in Client /\ client'.engaged
         /\ client'.raw_action = ActionOf(leader')
         /\ Tracks(leader, leader')
         /\ UNCHANGED <<command, hand, follower, failures, world>>
<1>1. PICK optics \in Optics :
        /\ leader' = ComputeAction(leader, command, hand, optics)
        /\ client' = [pc |-> "send", engaged |-> TRUE, raw_action |-> ActionOf(leader'),
                      reference_pending |-> leader'.confirmation_pending]
  BY DEF FetchAction
<1>2. Tracks(leader, leader')
  BY <1>1, ComputeActionTracks DEF TypeOK
<1>3. leader' \in Leader /\ leader'.confirmation_pending \in BOOLEAN
      /\ ActionOf(leader') \in Action
  BY <1>2, ActionOfType DEF Tracks, Leader
<1>4. client' \in Client /\ client'.raw_action = ActionOf(leader')
      /\ client'.engaged /\ client'.pc = "send"
  BY <1>1, <1>3 DEF Client, PC
<1> QED BY <1>2, <1>4 DEF FetchAction

\* Types are kept.
LEMMA NextType == TypeOK /\ [Next]_vars => TypeOK'
<1> SUFFICES ASSUME TypeOK, [Next]_vars PROVE TypeOK'
  OBVIOUS
<1> DEFINE committed == Commit(leader, command, hand)
<1>a. failures < MaxFailures => failures + 1 \in 0 .. MaxFailures
  BY ClutchAssumption DEF TypeOK
<1>b. /\ committed \in Leader /\ committed.reference \in Reference
      /\ Reject(leader) \in Leader /\ Reconnected(leader) \in Leader
  BY CommitFacts, RejectFacts, ReconnectedFacts DEF TypeOK, Leader
<1> HIDE DEF committed
<1>1. CASE GetAction
  BY <1>1, GetActionEffect DEF Tracks, TypeOK
<1>2. CASE GetStatus
  BY <1>2 DEF GetStatus, PC, Leader, TypeOK, Client
<1>3. CASE PollKey
  BY <1>3 DEF PollKey, PC, TypeOK, Client
<1>4. CASE SetLeaderReference
  <2>1. leader' \in {committed, Reject(leader), leader}
    BY <1>4 DEF SetLeaderReference, committed
  <2>2. client' \in Client
    BY <1>4 DEF SetLeaderReference, Fail, TypeOK, Client, PC
  <2>3. failures' \in 0 .. MaxFailures
    BY <1>4, <1>a DEF SetLeaderReference, Fail, TypeOK
  <2> QED BY <1>4, <1>b, <2>1, <2>2, <2>3 DEF SetLeaderReference, TypeOK
<1>5. CASE SetFollowerReference
  BY <1>a, <1>5 DEF SetFollowerReference, Fail, PC, Follower, Leader, TypeOK, Client
<1>6. CASE FetchAction
  BY <1>6, FetchActionEffect DEF Tracks, TypeOK
<1>7. CASE SendAction
  BY <1>7 DEF SendAction, PC, Follower, TypeOK, Client
<1>8. CASE MoveHand
  BY <1>8 DEF MoveHand, TypeOK
<1>9. CASE Squeeze
  BY <1>9 DEF Squeeze, Bit, TypeOK
<1>10. CASE Restart
  BY <1>a, <1>b, <1>10 DEF Restart, ConnectFollower, PC, Follower, TypeOK, Client
<1>11. CASE Align
  <2>1. leader' \in {committed, Reject(leader), leader}
    BY <1>11 DEF Align, committed
  <2>2. client' \in Client
    BY <1>11, <1>b, <2>1 DEF Align, FailAlign, TypeOK, Client, PC, Leader
  <2>3. failures' \in 0 .. MaxFailures
    BY <1>11, <1>a DEF Align, FailAlign, TypeOK
  <2>4. follower' \in {follower, AlignedAt(follower, committed.reference)}
    BY <1>11 DEF Align, committed
  <2>5. follower' \in Follower
    BY <1>b, <2>4, AlignedAtFacts DEF TypeOK
  <2> QED BY <1>11, <1>b, <2>1, <2>2, <2>3, <2>5 DEF Align, TypeOK
<1>12. CASE UNCHANGED vars
  BY <1>12 DEF vars, TypeOK
<1> QED
  BY <1>1, <1>2, <1>3, <1>4, <1>5, <1>6, <1>7, <1>8, <1>9, <1>10, <1>11, <1>12
  DEF Next, Loop

\* The flags of the latch keep their relations.
LEMMA NextLatch == TypeOK /\ LatchInv(leader) /\ [Next]_vars => LatchInv(leader)'
<1> SUFFICES ASSUME TypeOK, LatchInv(leader), [Next]_vars PROVE LatchInv(leader')
  BY DEF LatchInv
<1>1. CASE GetAction \/ FetchAction
  BY <1>1, GetActionEffect, FetchActionEffect DEF Tracks
<1>2. CASE SetLeaderReference \/ Align
  <2>1. leader' \in {Commit(leader, command, hand), Reject(leader), leader}
    BY <1>2 DEF SetLeaderReference, Align
  <2>2. LatchInv(Commit(leader, command, hand)) /\ LatchInv(Reject(leader))
    BY CommitFacts, RejectFacts DEF TypeOK
  <2> QED BY <2>1, <2>2
<1>3. CASE Restart
  BY <1>3, ReconnectedFacts DEF Restart, TypeOK
<1>4. CASE UNCHANGED leader
  BY <1>4
<1> QED
  BY <1>1, <1>2, <1>3, <1>4
  DEF Next, Loop, GetStatus, PollKey, SetFollowerReference, SendAction, MoveHand,
      Squeeze, vars

\* So do the references.
LEMMA NextPair == TypeOK /\ PairInv /\ [Next]_vars => PairInv'
<1> SUFFICES ASSUME TypeOK, PairInv, [Next]_vars PROVE PairInv'
  OBVIOUS
<1>1. CASE GetAction
  BY <1>1, GetActionEffect DEF PairInv, Tracks, ActionOf
<1>2. CASE GetStatus
  BY <1>2 DEF GetStatus, PairInv, TypeOK, Client
<1>3. CASE PollKey
  BY <1>3 DEF PollKey, PairInv, TypeOK, Client
<1>4. CASE SetLeaderReference
  BY <1>4 DEF SetLeaderReference, Fail, PairInv, TypeOK, Client
<1>5. CASE SetFollowerReference
  BY <1>5 DEF SetFollowerReference, Fail, PairInv, TypeOK, Client, Follower
<1>6. CASE FetchAction
  BY <1>6, FetchActionEffect DEF PairInv, Tracks, ActionOf
<1>7. CASE SendAction
  BY <1>7 DEF SendAction, PairInv, TypeOK, Client, Follower
<1>8. CASE Restart
  BY <1>8 DEF Restart, ConnectFollower, PairInv, TypeOK, Client, Follower
<1>9. CASE Align
  <2>1. follower.at_reference
    BY <1>9 DEF Align, PairInv
  <2>2. CASE /\ leader' = Commit(leader, command, hand)
             /\ follower' = AlignedAt(follower, leader'.reference)
    <3>1. follower'.reference = leader'.reference /\ follower'.at_reference
      BY <2>1, <2>2 DEF AlignedAt, TypeOK, Follower
    <3>2. client'.pc \in {"align", "get_action"}
      BY <1>9 DEF Align, FailAlign, TypeOK, Client
    <3> QED BY <3>1, <3>2 DEF PairInv
  <2>3. CASE UNCHANGED <<follower, client>>
    BY <1>9, <2>1, <2>3 DEF PairInv, Align
  <2> QED BY <1>9, <2>2, <2>3 DEF Align, FailAlign
<1>10. CASE UNCHANGED <<leader, client, follower>>
  BY <1>10 DEF PairInv
<1> QED
  BY <1>1, <1>2, <1>3, <1>4, <1>5, <1>6, <1>7, <1>8, <1>9, <1>10
  DEF Next, Loop, MoveHand, Squeeze, vars

\* And what the follower has while the client is not following.
LEMMA NextHold == TypeOK /\ PairInv /\ HoldInv /\ [Next]_vars => HoldInv'
<1> SUFFICES ASSUME TypeOK, PairInv, HoldInv, [Next]_vars, Answering'
             PROVE  HoldInv'
  BY DEF HoldInv
<1>0. Answering
  <2>1. UNCHANGED world
    BY DEF Next, Loop, GetAction, GetStatus, PollKey, SetLeaderReference,
           SetFollowerReference, FetchAction, SendAction, Align, MoveHand,
           Squeeze, Restart, vars
  <2> QED BY <2>1 DEF Answering
<1> USE <1>0 DEF HoldInv
<1>1. CASE GetAction
  BY <1>1, GetActionEffect DEF Tracks, ActionOf
<1>2. CASE GetStatus
  BY <1>2 DEF GetStatus, TypeOK, Client, Publishing
<1>3. CASE PollKey
  BY <1>3 DEF PollKey, Answering
<1>4. CASE SetLeaderReference
  <2>1. CASE client'.pc = "set_follower"
    BY <1>4, <2>1 DEF SetLeaderReference
  <2>2. CASE /\ leader' = Reject(leader) \/ leader' = leader
             /\ client' = [client EXCEPT !.pc = "get_action", !.engaged = FALSE]
    BY <1>4, <2>2, RejectFacts DEF SetLeaderReference, TypeOK, Client
  <2> QED
    BY <1>4, <2>1, <2>2 DEF SetLeaderReference, Fail, Answering, TypeOK, Client
<1>5. CASE SetFollowerReference
  BY <1>5 DEF SetFollowerReference, Fail, Answering, TypeOK, Client
<1>6. CASE FetchAction
  BY <1>6, FetchActionEffect
<1>7. CASE SendAction
  BY <1>7 DEF SendAction, TypeOK, Client, Follower
<1>8. CASE Restart
  BY <1>8 DEF Restart, TypeOK, Client
<1>9. CASE Align
  <2>1. CASE client'.pc = "get_action"
    <3>1. /\ leader' = Commit(leader, command, hand)
          /\ follower' = AlignedAt(follower, leader'.reference)
          /\ client' = [client EXCEPT !.pc = "get_action",
                                      !.engaged = (world.source = "keyboard")
                                                  \/ leader'.clutched]
      BY <1>9, <2>1 DEF Align, FailAlign
    <3>2. leader'.published = 0 /\ leader'.clutched /\ leader' \in Leader
      BY <3>1, CommitFacts DEF TypeOK
    <3>3. leader'.reference \in Reference /\ follower.at_reference
      BY <1>9, <3>2 DEF Align, PairInv, Leader
    <3>4. follower'.action = ActionOf(leader')
      BY <3>1, <3>2, <3>3, AlignedAtFacts DEF ActionOf, TypeOK
    <3>5. client'.engaged
      BY <3>1, <3>2 DEF TypeOK, Client
    <3> QED BY <2>1, <3>4, <3>5
  <2>2. CASE client'.pc = "align"
    BY <2>2
  <2> QED BY <1>9, <2>1, <2>2 DEF Align, FailAlign, TypeOK, Client
<1>10. CASE UNCHANGED <<leader, client, follower>>
  BY <1>10
<1> QED
  BY <1>1, <1>2, <1>3, <1>4, <1>5, <1>6, <1>7, <1>8, <1>9, <1>10
  DEF Next, Loop, MoveHand, Squeeze, vars

LEMMA NextIInv == IInv /\ [Next]_vars => IInv'
  BY NextType, NextLatch, NextPair, NextHold DEF IInv

LEMMA Invariance == Spec => []IInv
  BY InitIInv, NextIInv, PTL DEF Spec

-----------------------------------------------------------------------------
\* Every reachable state is well typed; the published offset is within the reach
\* of the hand.
THEOREM TypeCorrect == Spec => []TypeOK
<1>1. IInv => TypeOK BY DEF IInv
<1> QED BY <1>1, Invariance, PTL

\* Whatever transactions fail, lose their answers or are overtaken, and however
\* often the client dies, it follows only from a pair of references committed
\* together (auto_clutch_step, keyboard_clutch_step, relatch, main's alignment).
THEOREM FollowingIsPairedAlways == Spec => []FollowingIsPaired
<1>1. IInv => FollowingIsPaired BY DEF IInv, PairInv, FollowingIsPaired
<1> QED BY <1>1, Invariance, PTL

\* The leader publishes live poses only from a reference committed after the last
\* loss of tracking (_compute_action, SetReference, Connect).
THEOREM LossNeedsReferenceAlways == Spec => []LossNeedsReference
<1>1. IInv => LossNeedsReference
  BY DEF IInv, LatchInv, LossNeedsReference
<1> QED BY <1>1, Invariance, PTL

\* With servers whose answers arrive, no action sent while the clutch is open
\* moves the arm, however often the servers refuse, the operator squeezes or the
\* client dies.
THEOREM HoldFreezesArmAlways == Spec => []HoldFreezesArm
<1>1. IInv => HoldFreezesArm BY DEF IInv, HoldInv, HoldFreezesArm
<1> QED BY <1>1, Invariance, PTL

=============================================================================
