---------------------------- MODULE FollowerClient ----------------------------
(***************************************************************************)
(* The client of a follower (GRPCFollower in follower/grpc_follower.py):   *)
(* the observation stream and the thread that consumes it, the caches it   *)
(* fills, and the connection that starts and ends it.  The follower is an  *)
(* SO-101 arm in joint mode.  An application drives the client: it is      *)
(* another module, which says when connect, disconnect, get_observation    *)
(* and send_action are called.                                             *)
(*                                                                         *)
(* A feature is a joint.  The server samples the arm once per tick and     *)
(* sends its features one after the other; the consumer stores each where  *)
(* the application reads it.  Both caches start at zero.                   *)
(***************************************************************************)
EXTENDS Integers

CONSTANTS
  Joints,      \* joints 1 .. Joints, in the order of the stream
  Position,    \* where a joint can be: an interval, zero among it
  Rest,        \* the arm when it is switched on
  Thread,      \* bound: consumer threads alive at the same time
  Lag          \* how far a joint gets while a tick is under way, at most

Joint == 1 .. Joints

Gap(a, b) == IF a < b THEN b - a ELSE a - b

ASSUME ClientAssumption ==
  /\ Joints \in Nat \ {0}
  /\ Position \subseteq Int /\ 0 \in Position
  /\ \A p, q \in Position : p .. q \subseteq Position
  /\ Rest \in [Joint -> Position]
  /\ Lag \in Nat

VARIABLES
  server,      \* the follower
  client,      \* the GRPCFollower
  consumer     \* its observation threads; one may outlive its connection

Arm == [Joint -> Position]
Zero == [j \in Joint |-> 0]

\* up: the server has its robot; a camera thread that dies takes it down until
\* the next Connect.  goal is what the servos were last told.
Server == [up : BOOLEAN, goal : Arm, arm : Arm]

\* link: where the client is in connect or disconnect.  known: the feature
\* tables are filled.  heard: features stored since the caches were zeroed.
Link == {"down", "joining", "calling", "up"}
Client ==
  [link : Link, stop : BOOLEAN, known : BOOLEAN,
   obs : Arm, obs_time : {"never", "fresh", "stale"}, heard : SUBSET Joint,
   act : Arm]

\* live: the stream is one of the channel that is open now.
Consumer ==
  [pc : {"none", "opening", "reading"}, live : BOOLEAN,
   sample : Arm, next : Joint]
NoConsumer == [pc |-> "none", live |-> FALSE, sample |-> Zero, next |-> 1]
CutOff(c) == [NoConsumer EXCEPT !.pc = c.pc]

ClientInit ==
  /\ server = [up |-> TRUE, goal |-> Rest, arm |-> Rest]
  /\ client = [link |-> "down", stop |-> FALSE, known |-> FALSE, obs |-> Zero,
               obs_time |-> "never", heard |-> {}, act |-> Zero]
  /\ consumer = [t \in Thread |-> NoConsumer]

-----------------------------------------------------------------------------
(* connect and disconnect, a step for everything another thread can see.    *)

At(link) == client.link = link

\* _cleanup: the consumer is told to stop ...
CleanUp(c) == [c EXCEPT !.link = "joining", !.stop = TRUE]

\* ... and waited for, but not for ever; the server, if it can be reached, is told
\* to disconnect, the channel is closed, and everything is forgotten.  The arm is
\* assumed to keep its pose while the server has no robot: what the disconnect of
\* a robot does with its torque is not in this repository.
Close ==
  /\ At("joining")
  /\ client' = [client EXCEPT !.link = "down", !.known = FALSE, !.obs = Zero,
                              !.obs_time = "never", !.heard = {}, !.act = Zero]
  /\ consumer' = [t \in Thread |-> CutOff(consumer[t])]
  /\ server' \in {server, [server EXCEPT !.up = FALSE]}

\* _ensure_feature_info: a GetInfo that fails is swallowed, and connect goes on
\* without the feature tables.  Such a client stores nothing that is streamed and
\* can encode no action until it has connected again.
FeatureInfo(c) == {[c EXCEPT !.known = known] : known \in BOOLEAN}

\* connect: the Connect RPC gives the server its robot back, the caches are zeroed
\* and a consumer starts.  Clearing the event that ends consumers clears it for
\* one that has not looked yet, too.
Connect(t) ==
  /\ At("calling")
  /\ consumer[t].pc = "none"
  /\ server' = [server EXCEPT !.up = TRUE]
  /\ client' \in FeatureInfo([client EXCEPT !.link = "up", !.stop = FALSE])
  /\ consumer' = [consumer EXCEPT ![t] = [NoConsumer EXCEPT !.pc = "opening"]]

\* The RPC fails: what was begun is cleaned up again.
ConnectFails ==
  /\ At("calling")
  /\ client' = CleanUp(client)
  /\ UNCHANGED <<server, consumer>>

-----------------------------------------------------------------------------
(* _obs_stream_loop                                                          *)

\* Faulty variant: an interrupted stream ends the thread.
BreakThread(t) == consumer' = [consumer EXCEPT ![t] = NoConsumer]

\* The end of a stream: back to the top of the loop, after a pause, or out of it.
LeaveStream(t) ==
  consumer' = [consumer EXCEPT ![t] =
                 IF client.stop THEN NoConsumer
                 ELSE [NoConsumer EXCEPT !.pc = "opening"]]

\* The stub is that of the connection there is now, whoever started the thread.
\* A stream begins with a new sample of the arm.
OpenStream(t) ==
  /\ consumer[t].pc = "opening"
  /\ IF client.stop THEN consumer' = [consumer EXCEPT ![t] = NoConsumer]
     ELSE IF At("up") /\ server.up
     THEN consumer' = [consumer EXCEPT ![t] =
            [pc |-> "reading", live |-> TRUE, sample |-> server.arm, next |-> 1]]
     ELSE LeaveStream(t)
  /\ UNCHANGED <<server, client>>

\* The network drops a stream; the connection stays.
StreamDies(t) ==
  /\ consumer[t].live
  /\ consumer' = [consumer EXCEPT ![t] = CutOff(@)]
  /\ UNCHANGED <<server, client>>

\* The thread learns that its stream is gone: dropped, closed with its channel, or
\* without the robot it is about.
Interrupted(t) ==
  /\ consumer[t].pc = "reading"
  /\ ~consumer[t].live \/ ~server.up
  /\ LeaveStream(t)
  /\ UNCHANGED <<server, client>>

\* _consume_obs_feature: one feature goes to the cache and makes it fresh.
Store(c, j, value) ==
  [c EXCEPT !.obs[j] = value, !.obs_time = "fresh", !.heard = @ \cup {j}]

Consume(t) ==
  /\ consumer[t].pc = "reading" /\ consumer[t].live /\ server.up
  /\ IF client.stop
     THEN LeaveStream(t) /\ UNCHANGED client
     ELSE LET c == consumer[t]
          IN  /\ client' = IF client.known THEN Store(client, c.next, c.sample[c.next])
                           ELSE client
              /\ consumer' = [consumer EXCEPT ![t] =
                   IF c.next < Joints THEN [c EXCEPT !.next = @ + 1]
                   ELSE [c EXCEPT !.sample = server.arm, !.next = 1]]
  /\ UNCHANGED server

\* data_timeout_s passes without a feature.
GrowStale ==
  /\ client.obs_time = "fresh"
  /\ client' = [client EXCEPT !.obs_time = "stale"]
  /\ UNCHANGED <<server, consumer>>

-----------------------------------------------------------------------------
(* The follower.                                                             *)

\* The robot of the server is gone; every RPC fails until the next Connect.
DropRobot ==
  /\ server.up
  /\ server' = [server EXCEPT !.up = FALSE]
  /\ UNCHANGED <<client, consumer>>

\* A servo on its way to its goal.  The streams of the open channel keep up.
Servo(j) ==
  LET next == IF server.arm[j] < server.goal[j] THEN server.arm[j] + 1
              ELSE server.arm[j] - 1
  IN  /\ server.arm[j] # server.goal[j]
      /\ \A t \in Thread : consumer[t].live => Gap(consumer[t].sample[j], next) <= Lag
      /\ server' = [server EXCEPT !.arm[j] = next]
      /\ UNCHANGED <<client, consumer>>

-----------------------------------------------------------------------------
(* What the application calls, when the client is connected.                *)

\* send_action: the given joints are merged into the cache of the last action,
\* and the whole cache is sent.  The action may be applied or not, and if it is
\* the answer may be lost or lack a feature.
Merged(action) ==
  [j \in Joint |-> IF j \in DOMAIN action THEN action[j] ELSE client.act[j]]

Send(action) == client' = [client EXCEPT !.act = Merged(action)]
Apply(action) == server' = [server EXCEPT !.goal = Merged(action)]

\* get_observation: the cache, if anything has been stored since it was zeroed
\* and the last of it is recent.
Observable == At("up") /\ client.obs_time = "fresh"

ConsumerStep(t) == OpenStream(t) \/ Interrupted(t) \/ Consume(t)

ClientTypeOK ==
  /\ server \in Server
  /\ client \in Client
  /\ consumer \in [Thread -> Consumer]
=============================================================================
