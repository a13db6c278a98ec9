---------------------------- MODULE PikaCalibration ----------------------------
(***************************************************************************)
(* The calibration dialogue: the client that asks for it (calibrate,       *)
(* _wait_for_calibration and _calibrate_once of leader/grpc_leader.py; the *)
(* follower's client has the same three) and the Pika server's steps       *)
(* (Calibrate, CalibrateDone, _run_calib_step and _finalize_calibration of *)
(* leader/pika_sense_leader_server.py), each of which a thread records.    *)
(*                                                                         *)
(* A client may die and another one take its place: nothing tells the      *)
(* server, and the thread of the step it was at goes on.                   *)
(***************************************************************************)
EXTENDS Integers

CONSTANTS
  Pairs,       \* steps come in pairs: from one place to another
  Place,       \* where each step asks the user to be, or the gripper
  Thread,      \* bound: step threads alive at the same time
  MaxDeaths,   \* bound on clients that die
  MaxFaults,   \* bound on failed reads and writes
  None

Step == 0 .. 2 * Pairs - 1

\* The last pair is the gripper's, closed and open; the others are the tracker's.
Closing == 2 * Pairs - 2
Opening == 2 * Pairs - 1
Places == {Place[k] : k \in Step}

ASSUME CalibrationAssumption ==
  /\ Pairs \in Nat \ {0}
  /\ Place \in [Step -> Places]
  /\ \A p \in 0 .. Pairs - 1 : Place[2 * p] # Place[2 * p + 1]
  /\ MaxDeaths \in Nat /\ MaxFaults \in Nat
  /\ None \notin Places \cup Thread

VARIABLES
  server,      \* the servicer
  recorder,    \* its step threads
  client,      \* the client there is
  hand,        \* where the user is
  deaths, faults

vars == <<server, recorder, client, hand, deaths, faults>>

\* used: the points the stored calibration was computed from.
Points == [Step -> Places \cup {None}]
Server ==
  [calibrated : BOOLEAN, error : BOOLEAN, done : BOOLEAN,
   calib_step : 0 .. 2 * Pairs, calib_data : Points, used : Points,
   thread : Thread \cup {None}]
NoPoints == [k \in Step |-> None]

Recorder == [alive : BOOLEAN, step : Step]
Resting == [alive |-> FALSE, step |-> 0]

\* in: connected and calibrated.  force: what its next Calibrate asks for.
Client ==
  [pc : {"off", "in", "ask", "prompt", "status", "failed"}, force : BOOLEAN]

-----------------------------------------------------------------------------
(* The server.                                                               *)

Fresh(s) == [s EXCEPT !.calib_step = 0, !.calib_data = NoPoints]

\* Every point is there and the two of a pair are apart.
Complete(data) == \A k \in Step : data[k] # None
Apart(data) == \A p \in 0 .. Pairs - 1 : data[2 * p] # data[2 * p + 1]

\* Faulty variant: the points are not looked at.
SoundIfComplete(data) == Complete(data)

Sound(data) == Complete(data) /\ Apart(data)

\* Faulty variant: the step is not counted.
CapturedOnly(s, k, point) == [s EXCEPT !.calib_data[k] = point]

\* _run_calib_step, told to stop: what it read is the step's point, after the last
\* one the calibration is computed, and a step that is not refused is counted.
Captured(s, k, point) ==
  LET data == [s.calib_data EXCEPT ![k] = point]
      counted == [s EXCEPT !.calib_data = data, !.calib_step = @ + 1]
  IN  IF k # Opening THEN counted
      ELSE IF Sound(data)
      THEN [counted EXCEPT !.calibrated = TRUE, !.error = FALSE, !.used = data]
      ELSE [s EXCEPT !.calib_data = data, !.error = TRUE]

\* Faulty variant: a tracker that cannot be read is treated as the gripper is.
UnreadCounted(s, k) == Captured(s, k, None)

\* A tracker with nothing to read is an error.  A gripper that cannot be read is
\* none: the step goes on without a value, which only the last one looks at.
Unread(s, k) ==
  IF k < Closing THEN [s EXCEPT !.error = TRUE] ELSE Captured(s, k, None)

\* The new calibration is in use before its file is written, and that fails.
Calibrates(s, k) == k = Opening /\ Sound([s.calib_data EXCEPT ![k] = hand])
Unsaved(s, k) ==
  [Captured(s, k, hand) EXCEPT !.calib_step = s.calib_step, !.error = TRUE]

Capture(t) ==
  LET k == recorder[t].step
  IN  /\ recorder[t].alive /\ server.done
      /\ \/ server' = Captured(server, k, hand) /\ UNCHANGED faults
         \/ /\ faults < MaxFaults
            /\ faults' = faults + 1
            /\ \/ server' = Unread(server, k)
               \/ Calibrates(server, k) /\ server' = Unsaved(server, k)
      /\ recorder' = [recorder EXCEPT ![t] = Resting]
      /\ UNCHANGED <<client, hand, deaths>>

\* A thread that was told to stop stops within a tenth of a second: before its
\* client's next poll, which comes seconds later, and before the next client.  One
\* that nobody told is not waited for.
Settled == server.done => \A t \in Thread : ~recorder[t].alive

Started(s, t) == [s EXCEPT !.error = FALSE, !.done = FALSE, !.thread = t]

\* Calibrate: a forced one forgets the calibration there is ...
Forgotten(s, force) == IF force THEN [Fresh(s) EXCEPT !.calibrated = FALSE] ELSE s

Finished(s) == s.calibrated \/ s.calib_step >= 2 * Pairs

\* ... and the next step, if there is one, gets a thread.
StartStep(s) ==
  \E t \in Thread :
    /\ ~recorder[t].alive
    /\ server' = Started(s, t)
    /\ recorder' = [recorder EXCEPT ![t] = [alive |-> TRUE, step |-> s.calib_step]]

-----------------------------------------------------------------------------
(* The client.                                                               *)

\* Faulty variant: a calibration that was begun goes on where it was.
Resumed(s) == s

Connected(s) == IF s.calibrated THEN s ELSE Fresh(s)

Connect ==
  /\ client.pc = "off"
  /\ Settled
  /\ server' = Connected(server)
  /\ client' = [pc |-> IF server.calibrated THEN "in" ELSE "ask", force |-> FALSE]
  /\ UNCHANGED <<recorder, hand, deaths, faults>>

\* force_recalibrate
Recalibrate ==
  /\ client.pc = "in"
  /\ client' = [pc |-> "ask", force |-> TRUE]
  /\ UNCHANGED <<server, recorder, hand, deaths, faults>>

\* The answer of Calibrate arrives or is lost.
Answered(pc) ==
  client' \in {[pc |-> pc, force |-> FALSE], [client EXCEPT !.pc = "failed"]}

\* calibrate, and every poll of _wait_for_calibration.
Ask ==
  /\ client.pc = "ask" /\ Settled
  /\ LET s == Forgotten(server, client.force)
     IN  IF Finished(s)
         THEN server' = s /\ UNCHANGED recorder /\ Answered("in")
         ELSE StartStep(s) /\ Answered("prompt")
  /\ UNCHANGED <<hand, deaths, faults>>

\* What the user is asked for: every thread that records puts its frames on the
\* one queue the client reads.
Shown == {Place[recorder[t].step] : t \in {u \in Thread : recorder[u].alive}}

\* _calibrate_once: the user goes where a prompt asks and presses Enter; an Enter
\* from before the prompt has been thrown away.
PressEnter ==
  /\ client.pc = "prompt"
  /\ hand' \in Shown
  /\ server' = [server EXCEPT !.done = TRUE]
  /\ client' = [client EXCEPT !.pc = "status"]
  /\ UNCHANGED <<recorder, deaths, faults>>

\* _wait_for_calibration: the status, before the next poll.
GetStatus ==
  /\ client.pc = "status" /\ Settled
  /\ client' = [client EXCEPT !.pc = IF server.error THEN "failed" ELSE "ask"]
  /\ UNCHANGED <<server, recorder, hand, deaths, faults>>

\* Any call may fail.
CallFails ==
  /\ client.pc \in {"ask", "prompt", "status"}
  /\ client' = [client EXCEPT !.pc = "failed"]
  /\ UNCHANGED <<server, recorder, hand, deaths, faults>>

\* _cleanup tells the server, which tells the step.
Disconnect ==
  /\ client.pc \in {"failed", "in"}
  /\ client' = [pc |-> "off", force |-> FALSE]
  /\ server' = [server EXCEPT !.done = TRUE]
  /\ UNCHANGED <<recorder, hand, deaths, faults>>

Die ==
  /\ client.pc # "off" /\ deaths < MaxDeaths
  /\ client' = [pc |-> "off", force |-> FALSE]
  /\ deaths' = deaths + 1
  /\ UNCHANGED <<server, recorder, hand, faults>>

-----------------------------------------------------------------------------
\* The server begins with the calibration of its file, or without one.
Init ==
  /\ server \in [calibrated : BOOLEAN, error : {FALSE}, done : {FALSE},
                 calib_step : {0}, calib_data : {NoPoints}, used : {Place},
                 thread : {None}]
  /\ recorder = [t \in Thread |-> Resting]
  /\ client = [pc |-> "off", force |-> FALSE]
  /\ hand \in Places
  /\ deaths = 0 /\ faults = 0

Dialogue == Ask \/ PressEnter \/ GetStatus

Next ==
  \/ Dialogue
  \/ \E t \in Thread : Capture(t)
  \/ Connect \/ Recalibrate \/ CallFails \/ Disconnect \/ Die

Spec == Init /\ [][Next]_vars

\* The user presses Enter in the end, the client goes on and the threads run.
FairSpec ==
  /\ Spec
  /\ WF_vars(Dialogue)
  /\ \A t \in Thread : WF_vars(Capture(t))

-----------------------------------------------------------------------------
(* Properties.                                                               *)

\* Types.
TypeOK ==
  /\ server \in Server
  /\ recorder \in [Thread -> Recorder]
  /\ client \in Client
  /\ hand \in Places
  /\ deaths \in 0 .. MaxDeaths /\ faults \in 0 .. MaxFaults

\* A calibration is only ever computed from points taken where their steps asked
\* the user to be: the thread of a client that died, which captures with the next
\* one's Enter and answers to the next one's event, never gets a wrong one in.
UsedPointsAreTrue == server.used = Place

\* The client is told "calibrated" only by a leader that is, however the threads
\* that dead clients left behind count the steps, as long as they are few.
CalibratedIsTrue == client.pc = "in" => server.calibrated

\* As long as no client has died, the steps that are counted are, of the tracker's,
\* just those that have a point: over failed reads, lost answers, repeated forced
\* calibrations and new connections none is skipped and none is taken twice.  (Of
\* the gripper's two the code counts the first without a value, too.)
StepsInOrder ==
  deaths = 0 /\ client.pc \in {"ask", "prompt", "status"} /\ ~client.force =>
    \A k \in 0 .. Closing - 1 :
      k < server.calib_step <=> server.calib_data[k] # None

\* Every dialogue ends: calibrated, failed, or abandoned by its client.
DialogueEnds ==
  client.pc \in {"ask", "prompt", "status"}
    ~> client.pc \in {"in", "failed", "off"}

=============================================================================
