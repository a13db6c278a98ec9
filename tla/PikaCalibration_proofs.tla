------------------------ MODULE PikaCalibration_proofs ------------------------
(***************************************************************************)
(* Proofs about the calibration dialogue, for any number of pairs of       *)
(* steps, step threads, deaths and faults.                                 *)
(***************************************************************************)
EXTENDS PikaCalibration, FiniteSetTheorems, TLAPS

-----------------------------------------------------------------------------
(* Types, without a bound on the count of steps.                             *)

LooseServer ==
  [calibrated : BOOLEAN, error : BOOLEAN, done : BOOLEAN,
   calib_step : Nat, calib_data : Points, used : Points, thread : Thread \cup {None}]

LooseType ==
  /\ server \in LooseServer
  /\ recorder \in [Thread -> Recorder]
  /\ client \in Client
  /\ hand \in Places
  /\ deaths \in 0 .. MaxDeaths /\ faults \in 0 .. MaxFaults

\* The steps, and the first and the last pair of them.
LEMMA StepFacts ==
  /\ Pairs \in Nat /\ Pairs >= 1 /\ Step \subseteq Nat
  /\ 0 \in Step /\ 1 \in Step /\ 2 * Pairs - 1 \in Step /\ 2 * Pairs - 2 \in Step
  /\ Place \in Points /\ NoPoints \in Points
  /\ \A k \in Step : Place[k] \in Places /\ Place[k] # None
  /\ None \notin Places
  /\ Closing = 2 * Pairs - 2 /\ Opening = 2 * Pairs - 1
  BY CalibrationAssumption DEF Step, Points, NoPoints, Closing, Opening

\* What a sound calibration has, at the first pair and at the last.
LEMMA SoundFacts ==
  ASSUME NEW data \in Points, Sound(data)
  PROVE  /\ \A k \in Step : data[k] # None
         /\ data[0] # data[1]
         /\ data[2 * Pairs - 2] # data[2 * Pairs - 1]
<1>1. 0 \in 0 .. Pairs - 1 /\ Pairs - 1 \in 0 .. Pairs - 1
  BY StepFacts
<1>2. /\ data[2 * 0] # data[2 * 0 + 1]
      /\ data[2 * (Pairs - 1)] # data[2 * (Pairs - 1) + 1]
  BY <1>1 DEF Sound, Apart
<1>3. /\ 2 * 0 = 0 /\ 2 * 0 + 1 = 1 /\ 2 * (Pairs - 1) = 2 * Pairs - 2
      /\ 2 * (Pairs - 1) + 1 = 2 * Pairs - 1
  BY StepFacts
<1> QED BY <1>2, <1>3 DEF Sound, Complete

LEMMA ClientUpdate ==
  ASSUME NEW c \in Client
  PROVE  /\ [c EXCEPT !.pc = "failed"] \in Client
         /\ [c EXCEPT !.pc = "status"] \in Client
         /\ [c EXCEPT !.pc = "ask"] \in Client
  BY DEF Client

\* What a captured point does to the server.
LEMMA CapturedFacts ==
  ASSUME NEW s \in LooseServer, NEW k \in Step, NEW point \in Places \cup {None},
         NEW data, data = [s.calib_data EXCEPT ![k] = point],
         NEW n, n = Captured(s, k, point)
  PROVE  /\ n \in LooseServer
         /\ n.calib_data = data
         /\ n.done = s.done
         /\ k # Opening =>
              /\ n.calib_step = s.calib_step + 1 /\ n.used = s.used
              /\ n.calibrated = s.calibrated /\ n.error = s.error
         /\ k = Opening /\ Sound(data) =>
              /\ n.calib_step = s.calib_step + 1 /\ n.used = data
              /\ n.calibrated /\ ~n.error
         /\ k = Opening /\ ~Sound(data) =>
              /\ n.calib_step = s.calib_step /\ n.used = s.used
              /\ n.calibrated = s.calibrated /\ n.error
<1>1. data \in Points
  BY DEF LooseServer, Points
<1>2. CASE k # Opening
  <2>1. PICK c \in Nat : c = s.calib_step + 1
    BY DEF LooseServer
  <2>2. n = [s EXCEPT !.calib_data = data, !.calib_step = c]
    BY <1>2, <2>1 DEF Captured
  <2>3. n \in LooseServer
    BY <1>1, <2>2 DEF LooseServer
  <2> QED BY <1>2, <2>1, <2>2, <2>3 DEF LooseServer
<1>3. CASE k = Opening /\ Sound(data)
  <2>1. PICK c \in Nat : c = s.calib_step + 1
    BY DEF LooseServer
  <2>2. n = [[s EXCEPT !.calib_data = data, !.calib_step = c] EXCEPT
                !.calibrated = TRUE, !.error = FALSE, !.used = data]
    BY <1>3, <2>1 DEF Captured
  <2>3. n \in LooseServer
    BY <1>1, <2>2 DEF LooseServer
  <2>4. /\ n.calib_data = data /\ n.done = s.done /\ n.used = data
        /\ n.calib_step = c /\ n.calibrated /\ ~n.error
    BY <2>2 DEF LooseServer
  <2> QED BY <1>3, <2>1, <2>3, <2>4
<1>4. CASE k = Opening /\ ~Sound(data)
  <2>1. n = [s EXCEPT !.calib_data = data, !.error = TRUE]
    BY <1>4 DEF Captured
  <2> QED BY <1>1, <1>4, <2>1 DEF LooseServer
<1> QED BY <1>2, <1>3, <1>4

\* What a point read at a step can be: a gripper that cannot be read leaves none.
PointAt(k) == IF k < Closing THEN {hand} ELSE {hand, None}

\* The three outcomes of a step that is told to stop: it is counted, it is refused,
\* or its calibration is in use and not saved.
Outcome(k, data) ==
  \/ /\ server'.error /\ server'.used = server.used
     /\ server'.calibrated = server.calibrated
     /\ server'.calib_step = server.calib_step
     /\ \/ server'.calib_data = server.calib_data
        \/ k = Opening /\ server'.calib_data = data
  \/ /\ k = Opening => Sound(data)
     /\ server'.calib_data = data
     /\ server'.calib_step = server.calib_step + 1
     /\ server'.used = IF k = Opening THEN data ELSE server.used
     /\ server'.calibrated = (server.calibrated \/ k = Opening)
     /\ k # Opening => server'.error = server.error
  \/ /\ k = Opening /\ Sound(data)
     /\ server'.calib_data = data
     /\ server'.calib_step = server.calib_step
     /\ server'.used = data /\ server'.calibrated /\ server'.error

LEMMA UnsavedFacts ==
  ASSUME NEW s \in LooseServer, NEW k \in Step, hand \in Places, Calibrates(s, k),
         NEW data, data = [s.calib_data EXCEPT ![k] = hand],
         NEW n, n = Unsaved(s, k)
  PROVE  /\ n \in LooseServer /\ k = Opening /\ Sound(data)
         /\ n.calib_data = data /\ n.done = s.done /\ n.used = data
         /\ n.calib_step = s.calib_step /\ n.calibrated /\ n.error
<1>1. k = Opening /\ Sound(data)
  BY DEF Calibrates
<1>2. PICK c : c = Captured(s, k, hand)
  OBVIOUS
<1>3. /\ c \in LooseServer /\ c.calib_data = data /\ c.done = s.done
      /\ c.used = data /\ c.calibrated
  BY <1>1, <1>2, CapturedFacts
<1>4. n = [c EXCEPT !.calib_step = s.calib_step, !.error = TRUE]
  BY <1>2 DEF Unsaved
<1> QED BY <1>1, <1>3, <1>4 DEF LooseServer

\* What Capture does to the server.
LEMMA CaptureServer ==
  ASSUME LooseType, NEW t \in Thread, Capture(t), NEW k, k = recorder[t].step
  PROVE  /\ server' \in LooseServer /\ server'.done = server.done
         /\ \E point \in PointAt(k) :
              Outcome(k, [server.calib_data EXCEPT ![k] = point])
<1>1. k \in Step /\ hand \in Places /\ server \in LooseServer
  BY DEF LooseType, Recorder
<1>2. hand \in PointAt(k) /\ (k >= Closing => None \in PointAt(k))
  BY <1>1, StepFacts DEF PointAt
<1>3. CASE server' = Captured(server, k, hand)
  <2>1. PICK data : data = [server.calib_data EXCEPT ![k] = hand]
    OBVIOUS
  <2>2. Outcome(k, data) /\ server' \in LooseServer /\ server'.done = server.done
    BY <1>1, <1>3, <2>1, CapturedFacts DEF Outcome, LooseServer
  <2> QED BY <1>2, <2>1, <2>2
<1>4. CASE server' = Unread(server, k)
  <2>1. CASE k < Closing
    <3>1. server' = [server EXCEPT !.error = TRUE]
      BY <1>4, <2>1 DEF Unread
    <3>2. /\ server' \in LooseServer /\ server'.error /\ server'.done = server.done
          /\ server'.used = server.used /\ server'.calibrated = server.calibrated
          /\ server'.calib_step = server.calib_step
          /\ server'.calib_data = server.calib_data
      BY <1>1, <3>1 DEF LooseServer
    <3> QED BY <1>2, <3>2 DEF Outcome
  <2>2. CASE ~(k < Closing)
    <3>1. server' = Captured(server, k, None) /\ None \in PointAt(k)
      BY <1>1, <1>2, <1>4, <2>2, StepFacts DEF Unread
    <3>2. PICK data : data = [server.calib_data EXCEPT ![k] = None]
      OBVIOUS
    <3>3. Outcome(k, data) /\ server' \in LooseServer /\ server'.done = server.done
      BY <1>1, <3>1, <3>2, CapturedFacts DEF Outcome, LooseServer
    <3> QED BY <3>1, <3>2, <3>3
  <2> QED BY <2>1, <2>2
<1>5. CASE Calibrates(server, k) /\ server' = Unsaved(server, k)
  <2>1. PICK data : data = [server.calib_data EXCEPT ![k] = hand]
    OBVIOUS
  <2>2. Outcome(k, data) /\ server' \in LooseServer /\ server'.done = server.done
    BY <1>1, <1>5, <2>1, UnsavedFacts DEF Outcome
  <2> QED BY <1>2, <2>1, <2>2
<1> QED BY <1>3, <1>4, <1>5 DEF Capture

LEMMA FreshFacts ==
  ASSUME NEW s \in LooseServer
  PROVE  /\ Fresh(s) \in LooseServer
         /\ Fresh(s).calib_step = 0 /\ Fresh(s).calib_data = NoPoints
         /\ Fresh(s).used = s.used /\ Fresh(s).calibrated = s.calibrated
         /\ Fresh(s).done = s.done /\ Fresh(s).error = s.error
  BY StepFacts DEF Fresh, LooseServer

LEMMA ForgottenFacts ==
  ASSUME NEW s \in LooseServer, NEW force \in BOOLEAN
  PROVE  /\ Forgotten(s, force) \in LooseServer
         /\ Forgotten(s, force).used = s.used
         /\ ~force => Forgotten(s, force) = s
         /\ force => /\ Forgotten(s, force).calib_step = 0
                     /\ Forgotten(s, force).calib_data = NoPoints
                     /\ ~Forgotten(s, force).calibrated
                     /\ ~Finished(Forgotten(s, force))
<1>1. CASE ~force
  BY <1>1 DEF Forgotten
<1>2. CASE force
  <2>1. PICK f \in LooseServer :
          /\ f = Fresh(s) /\ f.calib_step = 0 /\ f.calib_data = NoPoints /\ f.used = s.used
    BY FreshFacts
  <2>2. Forgotten(s, force) = [f EXCEPT !.calibrated = FALSE]
    BY <1>2, <2>1 DEF Forgotten
  <2> DEFINE n == [f EXCEPT !.calibrated = FALSE]
  <2>3. n \in LooseServer /\ n.used = s.used /\ n.calib_step = 0
        /\ n.calib_data = NoPoints /\ ~n.calibrated
    BY <2>1 DEF LooseServer
  <2>4. ~Finished(n)
    BY <2>3, StepFacts DEF Finished
  <2> QED BY <1>2, <2>2, <2>3, <2>4
<1> QED BY <1>1, <1>2

LEMMA StartedFacts ==
  ASSUME NEW s \in LooseServer, NEW t \in Thread
  PROVE  /\ Started(s, t) \in LooseServer
         /\ ~Started(s, t).done /\ ~Started(s, t).error
         /\ Started(s, t).calib_step = s.calib_step
         /\ Started(s, t).calib_data = s.calib_data
         /\ Started(s, t).used = s.used /\ Started(s, t).calibrated = s.calibrated
  BY DEF Started, LooseServer

LEMMA NextLooseType == LooseType /\ [Next]_vars => LooseType'
<1> SUFFICES ASSUME LooseType, [Next]_vars PROVE LooseType'
  OBVIOUS
<1>1. CASE Ask
  <2> DEFINE s == Forgotten(server, client.force)
  <2>1. s \in LooseServer
    BY ForgottenFacts DEF LooseType, Client
  <2>2. client' \in Client
    <3>1. PICK pc \in {"in", "prompt"} : Answered(pc)
      BY <1>1 DEF Ask
    <3>2. [pc |-> pc, force |-> FALSE] \in Client
      BY DEF Client
    <3> QED BY <3>1, <3>2, ClientUpdate DEF Answered, LooseType
  <2>3. server' \in LooseServer /\ recorder' \in [Thread -> Recorder]
    <3>1. CASE Finished(s)
      BY <1>1, <2>1, <3>1 DEF Ask, LooseType
    <3>2. CASE ~Finished(s)
      <4>1. PICK t \in Thread :
              /\ server' = Started(s, t)
              /\ recorder' =
                   [recorder EXCEPT ![t] = [alive |-> TRUE, step |-> s.calib_step]]
        BY <1>1, <3>2 DEF Ask, StartStep
      <4>2. s.calib_step \in Step
        BY <2>1, <3>2, StepFacts DEF Finished, LooseServer, Step
      <4> HIDE DEF s
      <4> QED BY <2>1, <4>1, <4>2, StartedFacts DEF LooseType, Recorder
    <3> QED BY <3>1, <3>2
  <2> QED BY <1>1, <2>2, <2>3 DEF Ask, LooseType
<1>2. CASE PressEnter
  <2>1. hand' \in Places
    BY <1>2 DEF PressEnter, Shown, LooseType, Recorder, Places
  <2> QED BY <1>2, <2>1 DEF PressEnter, LooseType, LooseServer, Client
<1>3. CASE GetStatus
  BY <1>3 DEF GetStatus, LooseType, Client
<1>4. ASSUME NEW t \in Thread, Capture(t) PROVE LooseType'
  <2>1. server' \in LooseServer
    BY <1>4, CaptureServer
  <2>2. Resting \in Recorder
    BY StepFacts DEF Resting, Recorder
  <2> QED BY <1>4, <2>1, <2>2, CalibrationAssumption DEF Capture, LooseType
<1>5. CASE Connect
  BY <1>5, FreshFacts DEF Connect, Connected, LooseType, Client
<1>6. CASE Recalibrate \/ CallFails \/ Disconnect
  <2>1. CASE Recalibrate
    BY <2>1 DEF Recalibrate, LooseType, Client
  <2>2. CASE CallFails
    BY <2>2, ClientUpdate DEF CallFails, LooseType
  <2>3. CASE Disconnect
    BY <2>3 DEF Disconnect, LooseType, LooseServer, Client
  <2> QED BY <1>6, <2>1, <2>2, <2>3
<1>7. CASE Die
  BY <1>7, CalibrationAssumption DEF Die, LooseType, Client
<1>8. CASE UNCHANGED vars
  BY <1>8 DEF vars, LooseType
<1> QED
  BY <1>1, <1>2, <1>3, <1>4, <1>5, <1>6, <1>7, <1>8 DEF Next, Dialogue

-----------------------------------------------------------------------------
(***************************************************************************)
(* The points.  A thread that a dead client left behind can only answer to *)
(* the first Enter after a new beginning, and then every thread that       *)
(* captures does so at the one place the user is: what they leave is       *)
(* Uniform, and with two of them, Spoilt until the next beginning, for the *)
(* points of the first pair are not apart.  With one it is a Prefix of the *)
(* true points, which later rounds, of a Single thread, can only extend,   *)
(* and in which at most the closed gripper has no value.                   *)
(* A thread stopped by a Disconnect and not by Enter captures where the    *)
(* user was Before: its own pair is not apart then.                        *)
(***************************************************************************)
Alive == {t \in Thread : recorder[t].alive}

Untouched == server.calib_step = 0 /\ server.calib_data = NoPoints

Uniform == \A k \in Step : server.calib_data[k] \in {None, hand}

Spoilt ==
  /\ server.calib_step >= 2
  /\ \/ None \in {server.calib_data[0], server.calib_data[1]}
     \/ server.calib_data[0] = server.calib_data[1]

Prefix ==
  /\ server.calib_step \in 1 .. 2 * Pairs
  /\ \A k \in Step :
       IF k < server.calib_step
       THEN \/ server.calib_data[k] = Place[k]
            \/ k = Closing /\ server.calib_data[k] = None
       ELSE server.calib_data[k] = None

Before == Place[server.calib_step - 1]

Single ==
  \A t \in Alive :
    recorder[t].step = server.calib_step /\ \A u \in Alive : t = u

\* Whoever captures next adds no wrong point to a calibration that counts.
Harmless ==
  \/ Alive = {}
  \/ Uniform
  \/ Spoilt /\ \A t \in Alive : recorder[t].step >= 2
  \/ Prefix /\ Single /\ hand \in {Before, Place[server.calib_step]}

AtAsk ==
  \/ Untouched /\ (Alive # {} => ~server.done)
  \/ /\ Alive = {}
     /\ server.calibrated \/ client.force \/ Spoilt \/ (Prefix /\ hand = Before)

AtPrompt ==
  /\ ~server.done
  /\ \/ Untouched /\ \E t \in Alive : recorder[t].step = 0
     \/ Alive # {} /\ Single /\ (Spoilt \/ (Prefix /\ hand = Before))

FirstRound ==
  /\ Uniform
  /\ server.calib_step = 0 =>
       /\ server.calib_data = NoPoints
       /\ \E t \in Alive : recorder[t].step = 0 /\ (Alive = {t} => hand = Place[0])
  /\ server.calib_step = 1 /\ Alive = {} => Prefix /\ hand = Before

LaterRound ==
  /\ Single
  /\ \/ Spoilt
     \/ Prefix /\ hand = IF Alive = {} THEN Before ELSE Place[server.calib_step]

AtStatus ==
  /\ server.done
  /\ \/ server.error /\ (Alive = {} \/ Uniform)
     \/ FirstRound
     \/ LaterRound

PointsInv ==
  /\ server.used = Place
  /\ server.calibrated => Alive = {}
  /\ Harmless
  /\ client.pc = "in" => Alive = {}
  /\ client.pc = "ask" => AtAsk
  /\ client.pc = "prompt" => AtPrompt
  /\ client.pc = "status" => AtStatus

\* One thread captures, or fails to.
LEMMA CaptureEffect ==
  ASSUME LooseType, NEW t \in Thread, Capture(t), NEW k, k = recorder[t].step
  PROVE  /\ k \in Step /\ t \in Alive /\ Alive' = Alive \ {t}
         /\ \A u \in Alive' : recorder'[u] = recorder[u]
         /\ server.done /\ server'.done /\ UNCHANGED <<client, hand, deaths>>
         /\ \E point \in PointAt(k), data \in Points :
              /\ \A j \in Step : data[j] = IF j = k THEN point ELSE server.calib_data[j]
              /\ Outcome(k, data)
<1>1. k \in Step /\ hand \in Places /\ server \in LooseServer
  BY DEF LooseType, Recorder
<1>2. t \in Alive /\ Alive' = Alive \ {t} /\ \A u \in Alive' : recorder'[u] = recorder[u]
  BY DEF Capture, Alive, Resting, LooseType
<1>3. PICK point \in PointAt(k) : Outcome(k, [server.calib_data EXCEPT ![k] = point])
  BY CaptureServer
<1>4. PICK data : data = [server.calib_data EXCEPT ![k] = point]
  OBVIOUS
<1>5. point \in Places \cup {None}
  BY <1>1 DEF PointAt
<1>6. /\ data \in Points
      /\ \A j \in Step : data[j] = IF j = k THEN point ELSE server.calib_data[j]
  BY <1>1, <1>4, <1>5 DEF LooseServer, Points
<1>7. server.done /\ server'.done /\ UNCHANGED <<client, hand, deaths>>
  BY CaptureServer DEF Capture
<1> QED BY <1>1, <1>2, <1>3, <1>4, <1>6, <1>7

\* The last point completes nothing but the true calibration.
LEMMA CaptureHarmless ==
  ASSUME LooseType, PointsInv, NEW t \in Thread, Capture(t)
  PROVE  /\ server'.used = Place
         /\ server'.calibrated => Alive' = {}
         /\ Harmless'
         /\ Uniform => Uniform'
<1>0. PICK k : k = recorder[t].step
  OBVIOUS
<1>1. /\ k \in Step /\ t \in Alive /\ Alive' = Alive \ {t}
      /\ \A u \in Alive' : recorder'[u] = recorder[u]
      /\ hand' = hand
  BY <1>0, CaptureEffect
<1>2. server.calib_data \in Points /\ server.calib_step \in Nat
  BY DEF LooseType, LooseServer
<1>3. PICK point \in PointAt(k), data \in Points :
        /\ \A j \in Step : data[j] = IF j = k THEN point ELSE server.calib_data[j]
        /\ Outcome(k, data)
  BY <1>0, CaptureEffect
<1>4. ~server.calibrated /\ server.used = Place
  BY <1>1 DEF PointsInv
<1>a. point \in {hand, None} /\ (k < Closing => point = hand)
  BY <1>3 DEF PointAt
<1>b. \/ server'.used = server.used /\ (server'.calibrated => server.calibrated)
      \/ k = Opening /\ Sound(data) /\ server'.used = data
  BY <1>3 DEF Outcome
<1>c. \/ server'.calib_step = server.calib_step /\ server'.calib_data = server.calib_data
      \/ server'.calib_step = server.calib_step /\ server'.calib_data = data /\ k = Opening
      \/ server'.calib_step = server.calib_step + 1 /\ server'.calib_data = data
  BY <1>3 DEF Outcome
<1>5. CASE Uniform
  <2>1. \A j \in Step : data[j] \in {None, hand}
    BY <1>3, <1>5, <1>a DEF Uniform
  <2>2. ~Sound(data)
    BY <2>1, SoundFacts, StepFacts
  <2>3. Uniform'
    BY <1>1, <1>c, <1>5, <2>1 DEF Uniform
  <2> QED BY <1>b, <1>4, <2>2, <2>3 DEF Harmless
<1>6. CASE Spoilt /\ \A u \in Alive : recorder[u].step >= 2
  <2>1. k >= 2
    BY <1>0, <1>1, <1>6
  <2>2. data[0] = server.calib_data[0] /\ data[1] = server.calib_data[1]
    BY <1>3, <2>1, StepFacts
  <2>3. ~Sound(data)
    BY <1>6, <2>2, SoundFacts, StepFacts DEF Spoilt
  <2>4. Spoilt'
    BY <1>c, <1>2, <1>6, <2>2 DEF Spoilt
  <2>5. \A u \in Alive' : recorder'[u].step >= 2
    BY <1>1, <1>6
  <2> QED BY <1>b, <1>4, <2>3, <2>4, <2>5, <1>5 DEF Harmless
<1>7. CASE ~Uniform /\ Prefix /\ Single /\ hand \in {Before, Place[server.calib_step]}
  <2>1. k = server.calib_step /\ Alive' = {}
    BY <1>0, <1>1, <1>7 DEF Single
  <2>2. ASSUME k = Opening, Sound(data) PROVE data = Place
    <3>1. data[Opening] # None /\ data[Closing] # None /\ data[Closing] # data[Opening]
      BY <2>2, SoundFacts, StepFacts
    <3>2. data[Closing] = Place[Closing] /\ data[Opening] = hand
      BY <1>3, <1>7, <1>a, <2>1, <2>2, <3>1, StepFacts DEF Prefix
    <3>3. Before = Place[Closing]
      <4>1. server.calib_step - 1 = Closing
        BY <2>1, <2>2, <1>2, StepFacts
      <4> QED BY <4>1 DEF Before
    <3>4. hand = Place[Opening]
      BY <1>7, <2>1, <2>2, <3>1, <3>2, <3>3
    <3>5. \A j \in Step : data[j] = Place[j]
      BY <1>3, <1>7, <2>1, <2>2, <3>1, <3>2, <3>4, StepFacts DEF Prefix, Step
    <3>6. data = [j \in Step |-> data[j]] /\ Place = [j \in Step |-> Place[j]]
      BY <1>3, StepFacts DEF Points
    <3> QED BY <3>5, <3>6
  <2> QED BY <1>b, <1>4, <1>7, <2>1, <2>2 DEF Harmless
<1> QED BY <1>1, <1>5, <1>6, <1>7 DEF PointsInv, Harmless

\* A status that is clean when the threads have stopped is that of a round that
\* went on from true points, or was spoilt.
LEMMA CaptureAtStatus ==
  ASSUME LooseType, PointsInv, client.pc = "status", NEW t \in Thread, Capture(t)
  PROVE  AtStatus'
<1>0. PICK k : k = recorder[t].step
  OBVIOUS
<1>1. /\ k \in Step /\ t \in Alive /\ Alive' = Alive \ {t}
      /\ server.done /\ server'.done /\ hand' = hand
  BY <1>0, CaptureEffect
<1>2. server.calib_data \in Points /\ server.calib_step \in Nat
  BY DEF LooseType, LooseServer
<1>3. PICK point \in PointAt(k), data \in Points :
        /\ \A j \in Step : data[j] = IF j = k THEN point ELSE server.calib_data[j]
        /\ Outcome(k, data)
  BY <1>0, CaptureEffect
<1>4. AtStatus
  BY DEF PointsInv
<1>a. point \in {hand, None} /\ (k < Closing => point = hand)
  BY <1>3 DEF PointAt
<1>b. \/ server'.error
      \/ /\ k = Opening => Sound(data)
         /\ server'.calib_data = data
         /\ server'.calib_step = server.calib_step + 1
         /\ k # Opening => server'.error = server.error
  BY <1>3 DEF Outcome
<1>5. CASE Uniform
  <2>1. Uniform'
    BY <1>5, CaptureHarmless
  <2>2. CASE server'.error
    BY <1>1, <2>1, <2>2 DEF AtStatus
  <2>3. CASE ~server'.error
    <3>1. k # Opening
      <4>1. \A j \in Step : data[j] \in {None, hand}
        BY <1>3, <1>5, <1>a DEF Uniform
      <4> QED BY <1>b, <1>3, <2>3, <4>1, SoundFacts, StepFacts
    <3>2. /\ ~server.error /\ server'.calib_data = data
          /\ server'.calib_step = server.calib_step + 1
      BY <1>b, <2>3, <3>1
    <3>3. CASE FirstRound
      <4>1. ASSUME server'.calib_step = 1, Alive' = {} PROVE Prefix' /\ hand' = Before'
        <5>1. /\ server.calib_data = NoPoints /\ Alive = {t} /\ k = 0 /\ hand = Place[0]
          BY <1>0, <1>1, <1>2, <3>2, <3>3, <4>1 DEF FirstRound
        <5>2. /\ data[0] = Place[0] \/ (0 = Closing /\ data[0] = None)
              /\ \A j \in Step : ~(j < 1) => data[j] = None
          BY <1>3, <1>a, <5>1, StepFacts DEF NoPoints, Step
        <5>3. \A j \in Step : j < 1 => j = 0
          BY DEF Step
        <5>4. Prefix'
          BY <3>2, <4>1, <5>2, <5>3, StepFacts DEF Prefix
        <5> QED BY <1>1, <4>1, <5>1, <5>4 DEF Before
      <4> QED BY <1>1, <1>2, <2>1, <3>2, <4>1 DEF FirstRound, AtStatus
    <3>4. CASE LaterRound
      <4>1. k = server.calib_step /\ Alive' = {}
        BY <1>0, <1>1, <3>4 DEF LaterRound, Single
      <4>2. CASE server.calib_step >= 1
        <5>1. server'.calib_step >= 2
          BY <1>2, <3>2, <4>2
        <5>2. Spoilt'
          BY <2>1, <5>1, StepFacts DEF Spoilt, Uniform
        <5> QED BY <1>1, <4>1, <5>2 DEF LaterRound, Single, AtStatus
      <4>3. CASE server.calib_step = 0
        BY <3>4, <4>3 DEF LaterRound, Spoilt, Prefix
      <4> QED BY <1>2, <4>2, <4>3
    <3> QED BY <1>4, <3>2, <3>3, <3>4 DEF AtStatus
  <2> QED BY <2>2, <2>3
<1>6. CASE LaterRound
  <2>1. k = server.calib_step /\ Alive' = {}
    BY <1>0, <1>1, <1>6 DEF LaterRound, Single
  <2>2. CASE server'.error
    BY <1>1, <2>1, <2>2 DEF AtStatus
  <2>3. CASE ~server'.error /\ Spoilt
    <3>1. data[0] = server.calib_data[0] /\ data[1] = server.calib_data[1]
      BY <1>3, <2>1, <2>3, StepFacts DEF Spoilt
    <3>2. server'.calib_data = data /\ server'.calib_step = server.calib_step + 1
      BY <1>b, <2>3
    <3>3. Spoilt'
      BY <1>2, <2>3, <3>1, <3>2 DEF Spoilt
    <3> QED BY <1>1, <2>1, <3>3 DEF LaterRound, Single, AtStatus
  <2>4. CASE ~server'.error /\ Prefix /\ hand = Place[server.calib_step]
    <3>1. server'.calib_data = data /\ server'.calib_step = server.calib_step + 1
      BY <1>b, <2>4
    <3>2. data[k] = Place[k] \/ (k = Closing /\ data[k] = None)
      <4>1. CASE k = Opening
        <5>1. Sound(data)
          BY <1>b, <2>4, <4>1
        <5>2. data[k] # None /\ data[k] = point
          BY <1>1, <1>3, <5>1, SoundFacts
        <5> QED BY <1>a, <2>1, <2>4, <5>2
      <4>2. CASE k # Opening
        BY <1>1, <1>3, <1>a, <2>1, <2>4, <4>2, StepFacts DEF Step
      <4> QED BY <4>1, <4>2
    <3>3. \A j \in Step : j < k + 1 => j = k \/ j < k
      BY <1>1 DEF Step
    <3>4. Prefix'
      <4>1. server'.calib_step \in 1 .. 2 * Pairs
        BY <1>1, <2>1, <3>1, StepFacts DEF Step
      <4>2. ASSUME NEW j \in Step
            PROVE  IF j < k + 1
                   THEN data[j] = Place[j] \/ (j = Closing /\ data[j] = None)
                   ELSE data[j] = None
        <5>1. CASE j = k
          BY <3>2, <5>1, <1>1 DEF Step
        <5>2. CASE j # k
          <6>1. data[j] = server.calib_data[j] /\ (j < k + 1 <=> j < k)
            BY <1>1, <1>3, <5>2 DEF Step
          <6> QED BY <2>1, <2>4, <6>1 DEF Prefix
        <5> QED BY <5>1, <5>2
      <4> QED BY <2>1, <3>1, <4>1, <4>2 DEF Prefix
    <3>5. hand' = Before'
      BY <1>1, <1>2, <2>4, <3>1 DEF Before
    <3> QED BY <1>1, <2>1, <3>4, <3>5 DEF LaterRound, Single, AtStatus
  <2> QED BY <1>1, <1>6, <2>2, <2>3, <2>4 DEF LaterRound
<1> QED BY <1>1, <1>4, <1>5, <1>6 DEF AtStatus, FirstRound

\* A thread gets the next step, or the first one after a new beginning.
LEMMA AskEffect ==
  ASSUME LooseType, Ask
  PROVE  \/ /\ UNCHANGED <<server, recorder, hand, deaths>> /\ ~client.force
            /\ Finished(server) /\ client'.pc \in {"in", "failed"}
         \/ \E t \in Thread :
              /\ t \notin Alive /\ Alive' = Alive \cup {t}
              /\ \A u \in Alive : recorder'[u] = recorder[u]
              /\ recorder'[t].step = server'.calib_step
              /\ client'.pc \in {"prompt", "failed"} /\ UNCHANGED <<hand, deaths>>
              /\ ~server'.done /\ ~server'.calibrated /\ server'.used = server.used
              /\ server'.calib_step < 2 * Pairs
              /\ IF client.force
                 THEN Untouched'
                 ELSE /\ server'.calib_step = server.calib_step
                      /\ server'.calib_data = server.calib_data
                      /\ ~server.calibrated
<1> DEFINE s == Forgotten(server, client.force)
<1>1. /\ s \in LooseServer /\ s.used = server.used
      /\ ~client.force => s = server
      /\ client.force => /\ s.calib_step = 0 /\ s.calib_data = NoPoints
                         /\ ~s.calibrated /\ ~Finished(s)
  BY ForgottenFacts DEF LooseType, Client
<1>2. CASE Finished(s)
  <2>1. UNCHANGED <<server, recorder, hand, deaths>> /\ Answered("in")
    BY <1>1, <1>2 DEF Ask
  <2>2. client'.pc \in {"in", "failed"}
    BY <2>1 DEF Answered, LooseType, Client
  <2> QED BY <1>1, <1>2, <2>1, <2>2
<1>3. CASE ~Finished(s)
  <2>1. /\ StartStep(s) /\ Answered("prompt")
        /\ UNCHANGED <<hand, deaths>>
    BY <1>3 DEF Ask
  <2>2. client'.pc \in {"prompt", "failed"}
    BY <2>1 DEF Answered, LooseType, Client
  <2>3. PICK t \in Thread :
          /\ ~recorder[t].alive
          /\ server' = Started(s, t)
          /\ recorder' = [recorder EXCEPT ![t] = [alive |-> TRUE, step |-> s.calib_step]]
    BY <2>1 DEF StartStep
  <2> HIDE DEF s
  <2>4. /\ ~server'.done /\ server'.calib_step = s.calib_step
        /\ server'.calib_data = s.calib_data /\ server'.used = server.used
        /\ server'.calibrated = s.calibrated
    BY <1>1, <2>3, StartedFacts
  <2>5. ~s.calibrated /\ s.calib_step < 2 * Pairs
    BY <1>1, <1>3, StepFacts DEF Finished, LooseServer
  <2>6. /\ t \notin Alive /\ Alive' = Alive \cup {t}
        /\ \A u \in Alive : recorder'[u] = recorder[u]
        /\ recorder'[t].step = s.calib_step
    BY <2>3 DEF Alive, LooseType
  <2> QED BY <1>1, <2>1, <2>2, <2>4, <2>5, <2>6 DEF Untouched
<1> QED BY <1>2, <1>3

LEMMA ConnectEffect ==
  ASSUME LooseType, Connect
  PROVE  /\ client.pc = "off" /\ UNCHANGED <<recorder, hand, deaths>>
         /\ server.done => Alive = {}
         /\ \/ server.calibrated /\ UNCHANGED server /\ client'.pc = "in"
            \/ /\ ~server.calibrated /\ client'.pc = "ask" /\ Untouched'
               /\ server'.used = server.used /\ server'.done = server.done
               /\ ~server'.calibrated
  BY FreshFacts DEF Connect, Connected, Settled, Alive, Untouched, LooseType

LEMMA NextPoints == LooseType /\ PointsInv /\ [Next]_vars => PointsInv'
<1> SUFFICES ASSUME LooseType, PointsInv, [Next]_vars PROVE PointsInv'
  OBVIOUS
<1>1. CASE Ask
  <2>1. client.pc = "ask" /\ AtAsk /\ Settled
    BY <1>1 DEF Ask, PointsInv
  <2>2. CASE /\ UNCHANGED <<server, recorder, hand, deaths>> /\ ~client.force
             /\ Finished(server) /\ client'.pc \in {"in", "failed"}
    <3>1. Alive = {}
      BY <2>1, <2>2, StepFacts DEF AtAsk, Untouched, Finished, PointsInv
    <3>2. Alive' = {} /\ UNCHANGED server
      BY <2>2, <3>1 DEF Alive
    <3> QED BY <2>2, <3>2 DEF PointsInv, Harmless
  <2>3. ASSUME NEW t \in Thread,
               /\ t \notin Alive /\ Alive' = Alive \cup {t}
               /\ \A u \in Alive : recorder'[u] = recorder[u]
               /\ recorder'[t].step = server'.calib_step
               /\ client'.pc \in {"prompt", "failed"} /\ UNCHANGED <<hand, deaths>>
               /\ ~server'.done /\ ~server'.calibrated /\ server'.used = server.used
               /\ server'.calib_step < 2 * Pairs
               /\ IF client.force
                  THEN Untouched'
                  ELSE /\ server'.calib_step = server.calib_step
                       /\ server'.calib_data = server.calib_data
                       /\ ~server.calibrated
        PROVE  PointsInv'
    <3>1. CASE Untouched'
      <4>1. Uniform'
        BY <3>1 DEF Untouched, Uniform, NoPoints
      <4>2. t \in Alive' /\ recorder'[t].step = 0
        BY <2>3, <3>1 DEF Untouched
      <4> QED BY <2>3, <3>1, <4>1, <4>2 DEF PointsInv, Harmless, AtPrompt
    <3>2. CASE ~Untouched'
      <4>1. Alive = {} /\ (Spoilt \/ (Prefix /\ hand = Before))
        BY <2>1, <2>3, <3>2 DEF AtAsk, Untouched
      <4>2. Spoilt' \/ (Prefix' /\ hand' = Before')
        BY <2>3, <3>2, <4>1 DEF Spoilt, Prefix, Before
      <4>3. Single' /\ Alive' = {t}
        BY <2>3, <4>1 DEF Single
      <4>4. Harmless'
        BY <2>3, <4>2, <4>3 DEF Harmless, Spoilt
      <4> QED BY <2>3, <4>2, <4>3, <4>4 DEF PointsInv, AtPrompt
    <3> QED BY <3>1, <3>2
  <2> QED BY <1>1, <2>2, <2>3, AskEffect
<1>2. CASE PressEnter
  <2>1. /\ hand' \in Shown /\ client'.pc = "status" /\ server'.done
        /\ UNCHANGED recorder /\ AtPrompt
        /\ server'.calib_step = server.calib_step /\ server'.calib_data = server.calib_data
        /\ server'.used = server.used /\ server'.calibrated = server.calibrated
    BY <1>2 DEF PressEnter, PointsInv, LooseType, LooseServer, Client
  <2>2. Alive' = Alive
    BY <2>1 DEF Alive
  <2>3. CASE Untouched /\ \E t \in Alive : recorder[t].step = 0
    <3>1. PICK t \in Alive : recorder[t].step = 0
      BY <2>3
    <3>2. Alive = {t} => hand' = Place[0]
      BY <2>1, <3>1 DEF Shown, Alive
    <3>3. Uniform'
      BY <2>1, <2>3 DEF Untouched, Uniform, NoPoints
    <3>4. FirstRound'
      BY <2>1, <2>2, <2>3, <3>1, <3>2, <3>3 DEF FirstRound, Untouched
    <3> QED BY <2>1, <2>2, <3>3, <3>4 DEF PointsInv, Harmless, AtStatus
  <2>4. CASE Alive # {} /\ Single /\ (Spoilt \/ (Prefix /\ hand = Before))
    <3>1. hand' = Place[server.calib_step]
      BY <2>1, <2>4 DEF Shown, Alive, Single
    <3>2. Single'
      BY <2>1, <2>2, <2>4 DEF Single
    <3>3. Spoilt' \/ Prefix'
      BY <2>1, <2>4 DEF Spoilt, Prefix
    <3>4. Harmless' /\ LaterRound'
      BY <2>1, <2>2, <2>4, <3>1, <3>2, <3>3 DEF Harmless, LaterRound, Spoilt, Single
    <3> QED BY <2>1, <2>2, <3>4 DEF PointsInv, AtStatus
  <2> QED BY <2>1, <2>3, <2>4 DEF AtPrompt
<1>3. CASE GetStatus
  <2>1. /\ UNCHANGED <<server, recorder, hand>> /\ AtStatus /\ Settled
        /\ client'.pc = IF server.error THEN "failed" ELSE "ask"
    BY <1>3 DEF GetStatus, PointsInv, LooseType, Client
  <2>2. Alive = {} /\ Alive' = {}
    BY <2>1 DEF Settled, AtStatus, Alive
  <2>3. CASE server.error
    BY <2>1, <2>2, <2>3 DEF PointsInv, Harmless
  <2>4. CASE ~server.error
    <3>1. Spoilt \/ (Prefix /\ hand = Before)
      <4>1. CASE FirstRound
        <5>1. server.calib_step \in Nat /\ server.calib_step # 0
          BY <2>2, <4>1 DEF FirstRound, LooseType, LooseServer
        <5>2. CASE server.calib_step = 1
          BY <2>2, <4>1, <5>2 DEF FirstRound
        <5>3. CASE server.calib_step >= 2
          BY <4>1, <5>3, StepFacts DEF FirstRound, Uniform, Spoilt
        <5> QED BY <5>1, <5>2, <5>3
      <4>2. CASE LaterRound
        BY <2>2, <4>2 DEF LaterRound
      <4> QED BY <2>1, <2>4, <4>1, <4>2 DEF AtStatus
    <3>2. Spoilt' \/ (Prefix' /\ hand' = Before')
      BY <2>1, <3>1 DEF Spoilt, Prefix, Before
    <3> QED BY <2>1, <2>2, <2>4, <3>2 DEF PointsInv, Harmless, AtAsk
  <2> QED BY <2>3, <2>4
<1>4. ASSUME NEW t \in Thread, Capture(t) PROVE PointsInv'
  <2>1. /\ UNCHANGED client /\ server.done /\ t \in Alive
    BY <1>4, CaptureEffect
  <2>2. client.pc \notin {"in", "ask", "prompt"}
    BY <2>1 DEF PointsInv, AtAsk, AtPrompt
  <2> QED BY <1>4, <2>1, <2>2, CaptureHarmless, CaptureAtStatus DEF PointsInv
<1>5. CASE Connect
  <2>1. Alive' = Alive
    BY <1>5, ConnectEffect DEF Alive
  <2>2. CASE server.calibrated
    BY <1>5, <2>1, <2>2, ConnectEffect DEF PointsInv, Harmless
  <2>3. CASE ~server.calibrated
    <3>1. /\ Untouched' /\ client'.pc = "ask" /\ server'.used = server.used
          /\ ~server'.calibrated /\ (Alive # {} => ~server'.done)
      BY <1>5, <2>3, ConnectEffect DEF PointsInv, LooseType, LooseServer
    <3>2. Uniform'
      BY <3>1 DEF Untouched, Uniform, NoPoints
    <3> QED BY <2>1, <3>1, <3>2 DEF PointsInv, Harmless, AtAsk
  <2> QED BY <2>2, <2>3
<1>6. CASE Recalibrate \/ CallFails \/ Disconnect \/ Die
  <2>1. /\ UNCHANGED <<recorder, hand>> /\ server'.used = server.used
        /\ server'.calibrated = server.calibrated
        /\ server'.calib_step = server.calib_step /\ server'.calib_data = server.calib_data
    BY <1>6 DEF Recalibrate, CallFails, Disconnect, Die, LooseType, LooseServer
  <2>2. /\ Alive' = Alive /\ (Uniform' <=> Uniform) /\ (Spoilt' <=> Spoilt)
        /\ (Prefix' <=> Prefix) /\ (Single' <=> Single) /\ Before' = Before
    BY <2>1 DEF Alive, Uniform, Spoilt, Prefix, Single, Before
  <2>3. Harmless'
    BY <2>1, <2>2 DEF Harmless, PointsInv
  <2>4. \/ client.pc = "in" /\ client'.pc = "ask" /\ client'.force
        \/ client'.pc \in {"off", "failed"}
    BY <1>6 DEF Recalibrate, CallFails, Disconnect, Die, LooseType, Client
  <2> QED BY <2>1, <2>2, <2>3, <2>4 DEF PointsInv, AtAsk
<1>7. CASE UNCHANGED vars
  BY <1>7
  DEF vars, PointsInv, Harmless, AtAsk, AtPrompt, AtStatus, FirstRound, LaterRound,
      Alive, Untouched, Uniform, Spoilt, Prefix, Single, Before
<1> QED
  BY <1>1, <1>2, <1>3, <1>4, <1>5, <1>6, <1>7 DEF Next, Dialogue

-----------------------------------------------------------------------------
(***************************************************************************)
(* The order of the steps.  Until a client dies there is one thread, of    *)
(* the step that is next: a client that fails tells it to stop before it   *)
(* goes, and the next one comes when it has stopped.                       *)
(***************************************************************************)
OrderInv ==
  deaths = 0 =>
    /\ Single
    /\ \A k \in 0 .. Closing - 1 :
         k < server.calib_step <=> server.calib_data[k] # None
    /\ client.pc = "off" /\ Alive # {} => server.done
    /\ client.pc \in {"ask", "in"} => Alive = {}
    /\ client.pc = "status" => server.done

LEMMA UntouchedOrder ==
  /\ Untouched => \A k \in 0 .. Closing - 1 :
                    k < server.calib_step <=> server.calib_data[k] # None
  /\ Untouched' => \A k \in 0 .. Closing - 1 :
                     k < server'.calib_step <=> server'.calib_data[k] # None
<1>1. \A k \in 0 .. Closing - 1 : k \in Step /\ ~(k < 0)
  BY StepFacts DEF Step
<1> QED BY <1>1 DEF Untouched, NoPoints

LEMMA NextOrder == LooseType /\ OrderInv /\ [Next]_vars => OrderInv'
<1> SUFFICES ASSUME LooseType, OrderInv, [Next]_vars, deaths' = 0 PROVE OrderInv'
  BY DEF OrderInv
<1>a. deaths = 0
  <2>1. deaths \in Nat /\ (Die => deaths' = deaths + 1)
    BY CalibrationAssumption DEF LooseType, Die
  <2>2. ~Die
    BY <2>1
  <2> QED
    BY <2>2 DEF Next, Dialogue, Ask, PressEnter, GetStatus, Capture, Connect,
       Recalibrate, CallFails, Disconnect, vars
<1>1. CASE Ask
  <2>1. client.pc = "ask" /\ Alive = {}
    BY <1>1, <1>a DEF Ask, OrderInv
  <2>2. CASE UNCHANGED <<server, recorder>> /\ client'.pc \in {"in", "failed"}
    BY <1>a, <2>1, <2>2 DEF OrderInv, Alive, Single
  <2>3. ASSUME NEW t \in Thread,
               /\ Alive' = Alive \cup {t}
               /\ recorder'[t].step = server'.calib_step
               /\ client'.pc \in {"prompt", "failed"}
               /\ \/ Untouched'
                  \/ /\ server'.calib_step = server.calib_step
                     /\ server'.calib_data = server.calib_data
        PROVE  OrderInv'
    BY <1>a, <2>1, <2>3, UntouchedOrder DEF OrderInv, Single
  <2> QED BY <1>1, <2>2, <2>3, AskEffect
<1>2. CASE PressEnter
  <2>1. /\ client'.pc = "status" /\ server'.done /\ UNCHANGED recorder
        /\ server'.calib_step = server.calib_step /\ server'.calib_data = server.calib_data
    BY <1>2 DEF PressEnter, LooseType, LooseServer, Client
  <2> QED BY <1>a, <2>1 DEF OrderInv, Alive, Single
<1>3. CASE GetStatus
  <2>1. /\ UNCHANGED <<server, recorder>> /\ client'.pc \in {"failed", "ask"}
        /\ client.pc = "status" /\ Settled
    BY <1>3 DEF GetStatus, LooseType, Client
  <2> QED BY <1>a, <2>1 DEF OrderInv, Alive, Single, Settled
<1>4. ASSUME NEW t \in Thread, Capture(t) PROVE OrderInv'
  <2>0. PICK k : k = recorder[t].step
    OBVIOUS
  <2>1. k \in Step /\ t \in Alive /\ Alive' = Alive \ {t} /\ server'.done /\ UNCHANGED client
    BY <1>4, <2>0, CaptureEffect
  <2>2. PICK point \in PointAt(k), data \in Points :
          /\ \A j \in Step : data[j] = IF j = k THEN point ELSE server.calib_data[j]
          /\ Outcome(k, data)
    BY <1>4, <2>0, CaptureEffect
  <2>3. k < Closing => point # None
    BY <2>2, StepFacts DEF PointAt, LooseType
  <2>4. k = server.calib_step /\ Alive' = {}
    BY <1>a, <2>0, <2>1 DEF OrderInv, Single
  <2>5. \/ server'.calib_step = k /\ server'.calib_data = server.calib_data
        \/ server'.calib_step = k /\ server'.calib_data = data /\ k = Opening
        \/ server'.calib_step = k + 1 /\ server'.calib_data = data
    BY <2>2, <2>4 DEF Outcome
  <2>6. ASSUME NEW j \in 0 .. Closing - 1
        PROVE  j < server'.calib_step <=> server'.calib_data[j] # None
    <3>1. j \in Step /\ j # Opening /\ j < Closing /\ j \in Nat /\ k \in Nat
      BY <2>1, StepFacts DEF Step
    <3>2. j < k <=> server.calib_data[j] # None
      BY <1>a, <2>4 DEF OrderInv
    <3>3. CASE j = k
      BY <2>2, <2>3, <2>5, <3>1, <3>2, <3>3
    <3>4. CASE j # k
      <4>1. data[j] = server.calib_data[j] /\ (j < k + 1 <=> j < k)
        BY <2>2, <3>1, <3>4
      <4> QED BY <2>5, <3>2, <4>1
    <3> QED BY <3>3, <3>4
  <2> QED BY <1>a, <2>1, <2>4, <2>6 DEF OrderInv, Single
<1>5. CASE Connect
  <2>1. Alive' = Alive /\ Alive = {}
    BY <1>5, <1>a, ConnectEffect DEF Alive, OrderInv
  <2>2. Untouched' \/ UNCHANGED server
    BY <1>5, ConnectEffect
  <2>3. client'.pc \in {"in", "ask"}
    BY <1>5, ConnectEffect
  <2> QED BY <1>a, <2>1, <2>2, <2>3, UntouchedOrder DEF OrderInv, Single
<1>6. CASE Recalibrate \/ CallFails
  <2>1. /\ UNCHANGED <<server, recorder>>
        /\ \/ client.pc = "in" /\ client'.pc = "ask"
           \/ client'.pc = "failed"
    BY <1>6 DEF Recalibrate, CallFails, LooseType, Client
  <2> QED BY <1>a, <2>1 DEF OrderInv, Single, Alive
<1>7. CASE Disconnect
  <2>1. /\ UNCHANGED recorder /\ client'.pc = "off" /\ server'.done
        /\ server'.calib_step = server.calib_step /\ server'.calib_data = server.calib_data
    BY <1>7 DEF Disconnect, LooseType, LooseServer
  <2> QED BY <1>a, <2>1 DEF OrderInv, Single, Alive
<1>8. CASE Die
  BY <1>8, <1>a DEF Die
<1>9. CASE UNCHANGED vars
  BY <1>9 DEF vars, OrderInv, Single, Alive
<1> QED
  BY <1>1, <1>2, <1>3, <1>4, <1>5, <1>6, <1>7, <1>8, <1>9 DEF Next, Dialogue

-----------------------------------------------------------------------------
(***************************************************************************)
(* The count of the steps, with fewer threads than steps.  Each thread     *)
(* that was there at the first Enter counts once; a later round adds the   *)
(* step it is of.  So the count only reaches the number of the steps with  *)
(* the last of them, which counts only when the calibration is sound.      *)
(***************************************************************************)
FewThreads == IsFiniteSet(Thread) /\ Cardinality(Thread) < 2 * Pairs

CountInv ==
  \/ server.calib_step + Cardinality(Alive) < 2 * Pairs
  \/ Single /\ Alive # {} /\ server.calib_step < 2 * Pairs
  \/ Alive = {} /\ server.calib_step = 2 * Pairs /\ server.calibrated

LEMMA AliveFacts ==
  ASSUME FewThreads
  PROVE  /\ IsFiniteSet(Alive) /\ Cardinality(Alive) \in Nat
         /\ Cardinality(Alive) < 2 * Pairs
         /\ \A t \in Alive : Cardinality(Alive \ {t}) = Cardinality(Alive) - 1
<1>1. Alive \subseteq Thread
  BY DEF Alive
<1>2. IsFiniteSet(Alive) /\ Cardinality(Alive) <= Cardinality(Thread)
  BY <1>1, FS_Subset DEF FewThreads
<1>3. Cardinality(Alive) \in Nat /\ Cardinality(Thread) \in Nat
  BY <1>2, FS_CardinalityType DEF FewThreads
<1> QED BY <1>2, <1>3, FS_RemoveElement, StepFacts DEF FewThreads

LEMMA NextCount ==
  ASSUME FewThreads
  PROVE  LooseType /\ PointsInv /\ CountInv /\ [Next]_vars => CountInv'
<1> SUFFICES ASSUME LooseType, PointsInv, CountInv, [Next]_vars PROVE CountInv'
  OBVIOUS
<1>a. FewThreads' /\ server.calib_step \in Nat
  BY DEF FewThreads, LooseType, LooseServer
<1>b. Cardinality(Alive)' \in Nat /\ Cardinality(Alive)' < 2 * Pairs
  <2>1. Alive' \subseteq Thread
    BY DEF Alive
  <2>2. IsFiniteSet(Alive') /\ Cardinality(Alive') <= Cardinality(Thread)
    BY <2>1, FS_Subset DEF FewThreads
  <2>3. Cardinality(Alive') \in Nat /\ Cardinality(Thread) \in Nat
    BY <2>2, FS_CardinalityType DEF FewThreads
  <2> QED BY <2>2, <2>3, StepFacts DEF FewThreads
<1>c. Untouched' => CountInv'
  BY <1>b DEF Untouched, CountInv
<1>1. CASE Ask
  <2>1. AtAsk
    BY <1>1 DEF Ask, PointsInv
  <2>2. CASE UNCHANGED <<server, recorder>>
    BY <2>2 DEF CountInv, Single, Alive
  <2>3. ASSUME NEW t \in Thread,
               /\ Alive' = Alive \cup {t}
               /\ recorder'[t].step = server'.calib_step
               /\ server'.calib_step < 2 * Pairs
               /\ IF client.force
                  THEN Untouched'
                  ELSE /\ server'.calib_step = server.calib_step
                       /\ server'.calib_data = server.calib_data
        PROVE  CountInv'
    <3>1. CASE Untouched'
      BY <1>c, <3>1
    <3>2. CASE ~Untouched'
      <4>1. Alive' = {t}
        BY <2>1, <2>3, <3>2 DEF AtAsk, Untouched
      <4> QED BY <2>3, <4>1 DEF CountInv, Single
    <3> QED BY <3>1, <3>2
  <2> QED BY <1>1, <2>2, <2>3, AskEffect
<1>2. ASSUME NEW t \in Thread, Capture(t) PROVE CountInv'
  <2>0. PICK k : k = recorder[t].step
    OBVIOUS
  <2>1. /\ k \in Step /\ t \in Alive /\ Alive' = Alive \ {t}
        /\ \/ server'.calib_step = server.calib_step
           \/ /\ server'.calib_step = server.calib_step + 1
              /\ k = 2 * Pairs - 1 => server'.calibrated
    BY <1>2, <2>0, CaptureEffect, StepFacts DEF Outcome
  <2>2. CASE server.calib_step + Cardinality(Alive) < 2 * Pairs
    <3>1. Cardinality(Alive') = Cardinality(Alive) - 1 /\ Cardinality(Alive) \in Nat
      BY <2>1, AliveFacts
    <3> QED BY <1>a, <2>1, <2>2, <3>1, StepFacts DEF CountInv
  <2>3. CASE Single /\ server.calib_step < 2 * Pairs
    <3>1. k = server.calib_step /\ Alive' = {}
      BY <2>0, <2>1, <2>3 DEF Single
    <3>2. Cardinality(Alive') = 0
      BY <3>1, FS_EmptySet
    <3> QED BY <1>a, <2>1, <2>3, <3>1, <3>2, StepFacts DEF CountInv
  <2> QED BY <2>1, <2>2, <2>3 DEF CountInv
<1>3. CASE Connect
  BY <1>3, <1>c, ConnectEffect DEF CountInv, Single, Alive
<1>4. CASE PressEnter \/ GetStatus \/ Recalibrate \/ CallFails \/ Disconnect \/ Die
           \/ UNCHANGED vars
  <2>1. /\ UNCHANGED recorder /\ server'.calib_step = server.calib_step
        /\ server'.calibrated = server.calibrated
    BY <1>4
    DEF PressEnter, GetStatus, Recalibrate, CallFails, Disconnect, Die, vars,
        LooseType, LooseServer
  <2> QED BY <2>1 DEF CountInv, Single, Alive
<1> QED
  BY <1>1, <1>2, <1>3, <1>4 DEF Next, Dialogue

LEMMA NextCalibrated ==
  ASSUME FewThreads
  PROVE  LooseType /\ PointsInv /\ CountInv /\ CalibratedIsTrue /\ [Next]_vars
         => CalibratedIsTrue'
<1> SUFFICES ASSUME LooseType, PointsInv, CountInv, CalibratedIsTrue, [Next]_vars,
                    client'.pc = "in"
             PROVE  server'.calibrated
  BY DEF CalibratedIsTrue
<1>1. CASE Ask
  <2>1. UNCHANGED server /\ Finished(server) /\ AtAsk
    BY <1>1, AskEffect DEF Ask, PointsInv
  <2>2. Cardinality(Alive) \in Nat /\ server.calib_step \in Nat
    BY AliveFacts DEF LooseType, LooseServer
  <2>3. server.calibrated
    BY <2>1, <2>2, StepFacts DEF Finished, CountInv
  <2> QED BY <2>1, <2>3
<1>2. CASE Connect
  BY <1>2, ConnectEffect
<1>3. ASSUME NEW t \in Thread, Capture(t) PROVE FALSE
  BY <1>3, CaptureEffect DEF PointsInv
<1>4. CASE UNCHANGED vars
  BY <1>4 DEF vars, CalibratedIsTrue
<1>5. ~(PressEnter \/ GetStatus \/ Recalibrate \/ CallFails \/ Disconnect \/ Die)
  BY DEF PressEnter, GetStatus, Recalibrate, CallFails, Disconnect, Die, LooseType, Client
<1> QED
  BY <1>1, <1>2, <1>3, <1>4, <1>5 DEF Next, Dialogue

-----------------------------------------------------------------------------
(* The theorems.                                                             *)

LEMMA InitInv ==
  Init => LooseType /\ PointsInv /\ OrderInv /\ CalibratedIsTrue /\ Alive = {}
          /\ server.calib_step = 0
<1> SUFFICES ASSUME Init
             PROVE  LooseType /\ PointsInv /\ OrderInv /\ CalibratedIsTrue /\ Alive = {}
                    /\ server.calib_step = 0
  OBVIOUS
<1>1. server.calib_step = 0 /\ server.used = Place /\ client.pc = "off"
  BY DEF Init
<1>2. Alive = {}
  BY DEF Init, Alive, Resting
<1>3. LooseType
  <2>1. server \in LooseServer
    BY StepFacts DEF Init, LooseServer
  <2>2. Resting \in Recorder
    BY StepFacts DEF Resting, Recorder
  <2>3. client \in Client
    BY DEF Init, Client
  <2>4. deaths \in 0 .. MaxDeaths /\ faults \in 0 .. MaxFaults
    BY CalibrationAssumption DEF Init
  <2> QED BY <2>1, <2>2, <2>3, <2>4 DEF Init, LooseType
<1>4. PointsInv /\ CalibratedIsTrue
  BY <1>1, <1>2 DEF PointsInv, Harmless, CalibratedIsTrue
<1>5. OrderInv
  <2>1. Untouched
    BY DEF Init, Untouched
  <2> QED BY <1>1, <1>2, <2>1, UntouchedOrder DEF OrderInv, Single
<1> QED BY <1>1, <1>2, <1>3, <1>4, <1>5

LEMMA PointsInvariance == Spec => [](LooseType /\ PointsInv)
  BY InitInv, NextLooseType, NextPoints, PTL DEF Spec

LEMMA CountInvariance ==
  ASSUME FewThreads
  PROVE  Spec => [](CountInv /\ CalibratedIsTrue)
<1>1. Init => CountInv /\ CalibratedIsTrue
  <2>1. Cardinality({}) = 0
    BY FS_EmptySet
  <2> QED BY <2>1, InitInv, StepFacts DEF CountInv
<1>2. LooseType /\ PointsInv /\ CountInv /\ CalibratedIsTrue /\ [Next]_vars
      => (CountInv /\ CalibratedIsTrue)'
  BY NextCount, NextCalibrated
<1> QED BY PointsInvariance, <1>1, <1>2, PTL DEF Spec

\* With fewer step threads alive than there are steps, every reachable state is of
\* the types of the servicer's fields and the count of the steps stays within the
\* dialogue.
THEOREM TypeCorrect ==
  ASSUME FewThreads
  PROVE  Spec => []TypeOK
<1>1. LooseType /\ CountInv => TypeOK
  <2> SUFFICES ASSUME LooseType, CountInv PROVE TypeOK
    OBVIOUS
  <2>1. server.calib_step \in 0 .. 2 * Pairs
    BY AliveFacts, StepFacts DEF LooseType, LooseServer, CountInv
  <2>2. server \in Server
    BY <2>1 DEF LooseType, LooseServer, Server
  <2> QED BY <2>2 DEF LooseType, TypeOK
<1> QED BY PointsInvariance, CountInvariance, <1>1, PTL

\* The stored calibration was computed from points taken where their steps asked
\* the user to be, whatever number of clients died, threads they left behind and
\* captures failed, and wherever those threads' prompts sent the user.
THEOREM UsedPointsAreTrueAlways == Spec => []UsedPointsAreTrue
<1>1. PointsInv => UsedPointsAreTrue
  BY DEF PointsInv, UsedPointsAreTrue
<1> QED BY PointsInvariance, <1>1, PTL

\* With fewer step threads alive than there are steps, a client is told
\* "calibrated" only by a leader that is.
THEOREM CalibratedIsTrueAlways ==
  ASSUME FewThreads
  PROVE  Spec => []CalibratedIsTrue
  BY CountInvariance, PTL

\* Until a client dies, the steps of the tracker that are counted are just those
\* that have a point, whatever reads, answers and connections failed.
THEOREM StepsInOrderAlways == Spec => []StepsInOrder
<1>1. OrderInv => StepsInOrder
  BY DEF OrderInv, StepsInOrder
<1>2. Init => OrderInv
  BY InitInv
<1>3. LooseType /\ OrderInv /\ [Next]_vars => OrderInv'
  BY NextOrder
<1> QED BY PointsInvariance, <1>1, <1>2, <1>3, PTL DEF Spec
=============================================================================
