------------------------------- MODULE SO101Bus -------------------------------
(***************************************************************************)
(* The serial bus of an SO-101 arm, as its server guards it                *)
(* (SO101FollowerServicer in follower/so101_follower_server.py and         *)
(* SO101LeaderServicer in leader/so101_leader_server.py): the bus lock and *)
(* the record of its owner, the watchdog that poisons the bus, the         *)
(* calibration thread and its watchdog, and Connect and Disconnect, which  *)
(* reset all of it.  The two servers differ in the order of Connect, in    *)
(* what Calibrate does without the lock, and in the calls they serve.      *)
(*                                                                         *)
(* A step is what happens between two points at which another thread may   *)
(* run: one region under _calibration_state_lock, one acquire or release   *)
(* of _calibration_lock, the beginning and the end of the serial I/O.      *)
(* Serial I/O is only known by who does it; what closes the port ends it.  *)
(***************************************************************************)
EXTENDS FiniteSets

CONSTANTS
  Caller,        \* threads that serve bus calls
  Call,          \* the bus calls that are made
  Servers,       \* the servers to model
  Calibration,   \* calibration threads alive, or watched, at the same time
  Session,       \* the thread that serves Connect and Disconnect
  Overlap,       \* the calls that clients make without regard to the sessions
  None

\* The bus calls each server serves.
CallsOf ==
  [follower |-> {"get_observation", "send_action", "set_reference", "calibrate"},
   leader   |-> {"get_action", "send_feedback", "set_reference", "calibrate"}]
BusCall == CallsOf["follower"] \cup CallsOf["leader"]

ASSUME BusAssumption ==
  /\ Call \subseteq BusCall
  /\ Servers \subseteq DOMAIN CallsOf
  /\ Overlap \subseteq {"connect", "calibrate"}
  /\ Session \notin Caller \cup Calibration
  /\ Caller \cap Calibration = {}
  /\ None \notin Caller \cup Calibration \cup {Session}

VARIABLES
  server,            \* the server of this run
  port_open,         \* robot.is_connected
  lock,              \* is _calibration_lock held?
  record,            \* _bus_held and its owner
  poisoned,          \* _bus_poisoned
  suspect,           \* what became of the call the bus watchdog sampled
  calibrating,       \* _calibrating
  done, aborted,     \* robot._calibrate_done, robot._calibrate_aborted
  watching,          \* calibrations whose watchdog waits for _calibrate_done
  call,              \* the bus call every thread is in
  session            \* the Connect or Disconnect in progress

vars == <<server, port_open, lock, record, poisoned, suspect, calibrating, done,
          aborted, watching, call, session>>

Thread == Caller \cup Calibration \cup {Session}

Record == [held : BOOLEAN, what : BusCall \cup {"connect", "calibration", "none"},
           thread : Thread \cup {None}, old : BOOLEAN]
NoRecord == [held |-> FALSE, what |-> "none", thread |-> None, old |-> FALSE]

\* "unlocked" is I/O outside the lock.  live: the I/O is on the port as it is
\* open now, not on one closed since.
CallState ==
  [pc : {"idle", "begin", "acquire", "record", "io", "unlocked", "release",
         "unlock", "start", "finish"},
   what : BusCall \cup {"connect", "calibration", "none"},
   live : BOOLEAN]
Idle == [pc |-> "idle", what |-> "none", live |-> FALSE]

SessionState ==
  [rpc : {"none", "connect", "disconnect"},
   pc : {"idle", "abort", "join", "close", "reset", "unlock", "check",
         "checking", "latching", "recheck", "rechecking"},
   was_held : BOOLEAN]
NoSession == [rpc |-> "none", pc |-> "idle", was_held |-> FALSE]

OnBus(t) == call[t].pc \in {"io", "unlocked"} /\ call[t].live

Init ==
  /\ server \in Servers
  /\ port_open = FALSE
  /\ lock = FALSE
  /\ record = NoRecord
  /\ poisoned = FALSE
  /\ suspect = "none"
  /\ calibrating = FALSE
  /\ done = FALSE
  /\ aborted = FALSE
  /\ watching = {}
  /\ call = [t \in Thread |-> Idle]
  /\ session = NoSession

-----------------------------------------------------------------------------
(* _acquire_bus, the call, _release_bus                                      *)

Goto(t, pc) == call' = [call EXCEPT ![t].pc = pc]

\* No call and no calibration that could reach the port once it is open.
Quiet ==
  \A t \in Caller \cup Calibration :
    /\ call[t].pc \notin {"begin", "acquire", "record", "start"}
    /\ ~OnBus(t)
    /\ call[t].pc \in {"release", "unlock"} => call[t].what # "calibrate"

\* The protocol.  A client connects when nobody else is at work, and calls once
\* it is connected; and because a Calibrate opens the port again if it is closed,
\* it sends none while it connects or disconnects, and none to a closed port
\* before what an earlier session left behind is over.
MayCall == "connect" \in Overlap \/ session.rpc # "connect"
MayConnect == "connect" \in Overlap \/ Quiet
MayCalibrate ==
  \/ "calibrate" \in Overlap
  \/ session.rpc = "none" /\ (port_open \/ Quiet)

Served == Call \cap CallsOf[server]

\* A poisoned bus refuses, and SendAction looks at _calibrating.
BeginCall(t, what) ==
  /\ t \in Caller /\ what \in Served \ {"calibrate"}
  /\ call[t].pc = "idle"
  /\ MayCall
  /\ ~poisoned
  /\ what = "send_action" => ~calibrating
  /\ call' = [call EXCEPT ![t] = [pc |-> "acquire", what |-> what, live |-> FALSE]]
  /\ UNCHANGED <<server, port_open, lock, record, poisoned, suspect, calibrating, done,
                 aborted, watching, session>>

Take(t) ==
  /\ call[t].pc = "acquire"
  /\ ~lock
  /\ lock' = TRUE
  /\ Goto(t, "record")
  /\ UNCHANGED <<server, port_open, record, poisoned, suspect, calibrating, done,
                 aborted, watching, session>>

\* The lock is not free, at once or until the timeout of the call.  A Connect
\* raises, and leaves what it has reset.
GiveUp(t) ==
  /\ call[t].pc = "acquire"
  /\ t \notin Calibration
  /\ lock
  /\ call' = [call EXCEPT ![t] = Idle]
  /\ session' = IF t = Session THEN NoSession ELSE session
  /\ UNCHANGED <<server, port_open, lock, record, poisoned, suspect, calibrating, done,
                 aborted, watching>>

\* What the caller still wants once it has let go of the bus: nothing, if the
\* port was closed under it and its I/O raised.
Wanted(t, live) == IF live THEN call[t].what ELSE "none"

\* The owner is recorded and its I/O begins; with the port closed it raises.
RecordOwner(t) ==
  /\ call[t].pc = "record"
  /\ record' = [held |-> TRUE, what |-> call[t].what, thread |-> t, old |-> FALSE]
  /\ suspect' = IF suspect = "current" THEN "past" ELSE suspect
  /\ call' = [call EXCEPT ![t] = [pc |-> IF port_open THEN "io" ELSE "release",
                                 what |-> Wanted(t, port_open), live |-> port_open]]
  /\ UNCHANGED <<server, port_open, lock, poisoned, calibrating, done, aborted, watching,
                 session>>

\* I/O may end, or fail, at any time; or it never does.
EndIO(t) ==
  /\ call[t].pc = "io"
  /\ call' = [call EXCEPT ![t] = [pc |-> "release", what |-> Wanted(t, @.live),
                                 live |-> FALSE]]
  /\ UNCHANGED <<server, port_open, lock, record, poisoned, suspect, calibrating, done,
                 aborted, watching, session>>

\* What a thread does once the bus is off its hands.
Afterwards(t) ==
  /\ call' = [call EXCEPT ![t] =
               IF t \in Calibration THEN [Idle EXCEPT !.pc = "finish"]
               ELSE IF @.what = "calibrate" THEN [Idle EXCEPT !.pc = "start"]
               ELSE Idle]
  /\ session' = IF t = Session THEN [session EXCEPT !.pc = "recheck"] ELSE session

\* Faulty variant: whoever returns from a call clears the record.
ReleaseByAnyone(t) ==
  /\ call[t].pc = "release"
  /\ IF record.held
     THEN record' = NoRecord /\ Goto(t, "unlock") /\ UNCHANGED session
     ELSE Afterwards(t) /\ UNCHANGED record
  /\ UNCHANGED <<server, port_open, lock, poisoned, suspect, calibrating, done, aborted,
                 watching>>

\* Only the recorded owner clears the record and then releases the lock.
Release(t) ==
  /\ call[t].pc = "release"
  /\ IF record.held /\ record.thread = t
     THEN record' = NoRecord /\ Goto(t, "unlock") /\ UNCHANGED session
     ELSE Afterwards(t) /\ UNCHANGED record
  /\ UNCHANGED <<server, port_open, lock, poisoned, suspect, calibrating, done, aborted,
                 watching>>

Unlock(t) ==
  /\ call[t].pc = "unlock"
  /\ lock' = FALSE
  /\ Afterwards(t)
  /\ UNCHANGED <<server, port_open, record, poisoned, suspect, calibrating, done, aborted,
                 watching>>

-----------------------------------------------------------------------------
(* The bus watchdog                                                          *)

\* bus_call_timeout_s passes.
GrowOld ==
  /\ record.held /\ ~record.old
  /\ record' = [record EXCEPT !.old = TRUE]
  /\ UNCHANGED <<server, port_open, lock, poisoned, suspect, calibrating, done, aborted,
                 watching, call, session>>

Suspect ==
  /\ suspect = "none"
  /\ record.held /\ record.old /\ record.what # "calibration" /\ ~poisoned
  /\ suspect' = "current"
  /\ UNCHANGED <<server, port_open, lock, record, poisoned, calibrating, done, aborted,
                 watching, call, session>>

\* Faulty variants: the call is not compared with the one that was sampled, or
\* it is and the comparison is the wrong way round.
PoisonUnchecked ==
  /\ suspect # "none"
  /\ suspect' = "none"
  /\ poisoned' = (poisoned \/ record.held)
  /\ UNCHANGED <<server, port_open, lock, record, calibrating, done, aborted, watching,
                 call, session>>
PoisonInverted ==
  /\ suspect # "none"
  /\ suspect' = "none"
  /\ poisoned' = (poisoned \/ (record.held /\ suspect = "past"))
  /\ UNCHANGED <<server, port_open, lock, record, calibrating, done, aborted, watching,
                 call, session>>

\* The watchdog has logged the stack of the thread; if the call it sampled is
\* still the one on record, it poisons the bus.
Poison ==
  /\ suspect # "none"
  /\ suspect' = "none"
  /\ poisoned' = (poisoned \/ (record.held /\ suspect = "current"))
  /\ UNCHANGED <<server, port_open, lock, record, calibrating, done, aborted, watching,
                 call, session>>

-----------------------------------------------------------------------------
(* Calibration                                                               *)

\* Calibrate opens the port if it is closed, before it looks at anything else.
OpenForCalibrate(t, next) ==
  /\ t \in Caller /\ "calibrate" \in Served
  /\ call[t].pc = "idle"
  /\ MayCalibrate
  /\ port_open' = TRUE
  /\ call' = [call EXCEPT ![t] = next]
  /\ UNCHANGED <<server, lock, record, poisoned, suspect, calibrating, done,
                 aborted, watching, session>>

\* The follower's is a bus call from there on ...
BeginCalibrate(t) ==
  /\ server = "follower"
  /\ OpenForCalibrate(t, [pc |-> "begin", what |-> "calibrate", live |-> FALSE])

\* ... which a calibration under way or a poisoned bus turns away.
EnterCalibrate(t) ==
  /\ t \in Caller /\ call[t].pc = "begin"
  /\ IF calibrating \/ poisoned
     THEN call' = [call EXCEPT ![t] = Idle]
     ELSE Goto(t, "acquire")
  /\ UNCHANGED <<server, port_open, lock, record, poisoned, suspect, calibrating, done,
                 aborted, watching, session>>

\* The leader's reads is_calibrated, and may write the stored calibration, all of
\* it without the lock.
UnlockedCalibrate(t) ==
  /\ server = "leader"
  /\ OpenForCalibrate(t, [pc |-> "unlocked", what |-> "calibrate", live |-> TRUE])

EndUnlocked(t) ==
  /\ t \in Caller /\ call[t].pc = "unlocked"
  /\ call' = [call EXCEPT ![t] = IF @.live THEN [Idle EXCEPT !.pc = "start"] ELSE Idle]
  /\ UNCHANGED <<server, port_open, lock, record, poisoned, suspect, calibrating,
                 done, aborted, watching, session>>

\* The Calibrate call has read is_calibrated and has released the bus.
AlreadyCalibrated(t) ==
  /\ call[t].pc = "start"
  /\ call' = [call EXCEPT ![t] = Idle]
  /\ UNCHANGED <<server, port_open, lock, record, poisoned, suspect, calibrating, done,
                 aborted, watching, session>>

StartThread(t, k) ==
  /\ call[t].pc = "start"
  /\ ~calibrating
  /\ call[k].pc = "idle" /\ k \notin watching
  /\ calibrating' = TRUE
  /\ done' = FALSE
  /\ aborted' = FALSE
  /\ call' = [call EXCEPT ![t] = Idle,
                          ![k] = [pc |-> "begin", what |-> "calibration", live |-> FALSE]]
  /\ UNCHANGED <<server, port_open, lock, record, poisoned, suspect, session>>

\* Faulty variant: no watchdog for the calibration.
StartUnwatched(t, k) == StartThread(t, k) /\ UNCHANGED watching

StartCalibration(t, k) == StartThread(t, k) /\ watching' = watching \cup {k}

\* The thread finds the bus poisoned or taken and gives up ...
Rejected(k) ==
  /\ \/ call[k].pc = "begin" /\ poisoned
     \/ call[k].pc = "acquire" /\ lock
  /\ calibrating' = FALSE
  /\ call' = [call EXCEPT ![k] = Idle]
  /\ UNCHANGED <<server, port_open, lock, record, poisoned, suspect, done, aborted,
                 watching, session>>

BeginCalibration(k) ==
  /\ call[k].pc = "begin"
  /\ ~poisoned
  /\ Goto(k, "acquire")
  /\ UNCHANGED <<server, port_open, lock, record, poisoned, suspect, calibrating, done,
                 aborted, watching, session>>

\* ... or records until it is told to stop, or its port is closed.
StopRecording(k) ==
  /\ done \/ aborted \/ ~call[k].live
  /\ EndIO(k)

\* Whatever became of it, _calibrating is cleared at the end.
Finish(k) ==
  /\ call[k].pc = "finish"
  /\ calibrating' = FALSE
  /\ call' = [call EXCEPT ![k] = Idle]
  /\ UNCHANGED <<server, port_open, lock, record, poisoned, suspect, done, aborted,
                 watching, session>>

\* The event is one for all calibrations: setting it wakes every watchdog.
SetDone == done' = TRUE /\ watching' = {}

CalibrateDone ==
  /\ SetDone
  /\ UNCHANGED <<server, port_open, lock, record, poisoned, suspect, calibrating, aborted,
                 call, session>>

CalibrationTimeout(k) ==
  /\ k \in watching
  /\ aborted' = TRUE
  /\ SetDone
  /\ UNCHANGED <<server, port_open, lock, record, poisoned, suspect, calibrating, call,
                 session>>

-----------------------------------------------------------------------------
(* Connect and Disconnect                                                    *)

SessionAt(pc) == session.pc = pc

Connect ==
  /\ SessionAt("idle")
  /\ MayConnect
  /\ port_open' = TRUE
  /\ session' = [rpc |-> "connect", was_held |-> FALSE,
                 pc |-> IF server = "leader" THEN "abort" ELSE "reset"]
  /\ UNCHANGED <<server, lock, record, poisoned, suspect, calibrating, done, aborted,
                 watching, call>>

Disconnect ==
  /\ SessionAt("idle")
  /\ session' = [rpc |-> "disconnect", pc |-> "abort", was_held |-> FALSE]
  /\ UNCHANGED <<server, port_open, lock, record, poisoned, suspect, calibrating, done,
                 aborted, watching, call>>

\* _abort_stuck_calibration: before the reset of the leader's Connect, after
\* that of the follower's.
AfterAbort ==
  IF session.rpc = "disconnect" THEN "close"
  ELSE IF server = "leader" THEN "reset" ELSE "check"

Abort ==
  /\ SessionAt("abort")
  /\ IF calibrating
     THEN aborted' = TRUE /\ SetDone /\ session' = [session EXCEPT !.pc = "join"]
     ELSE session' = [session EXCEPT !.pc = AfterAbort]
          /\ UNCHANGED <<aborted, done, watching>>
  /\ UNCHANGED <<server, port_open, lock, record, poisoned, suspect, calibrating, call>>

\* join(timeout=5.0) returns, whether or not the thread has ended.
Join ==
  /\ SessionAt("join")
  /\ calibrating' = FALSE
  /\ session' = [session EXCEPT !.pc = AfterAbort]
  /\ UNCHANGED <<server, port_open, lock, record, poisoned, suspect, done, aborted,
                 watching, call>>

Close ==
  /\ SessionAt("close")
  /\ port_open' = FALSE
  /\ call' = [t \in Thread |-> [call[t] EXCEPT !.live = FALSE]]
  /\ session' = [session EXCEPT !.pc = "reset"]
  /\ UNCHANGED <<server, lock, record, poisoned, suspect, calibrating, done, aborted,
                 watching>>

\* _reset_bus_lock_state: the record, then the lock.
ClearRecord(cleared) ==
  /\ SessionAt("reset")
  /\ record' = cleared
  /\ poisoned' = FALSE
  /\ session' = [session EXCEPT !.pc = "unlock", !.was_held = record.held]
  /\ UNCHANGED <<server, port_open, lock, suspect, calibrating, done, aborted, watching,
                 call>>

\* Faulty variant: the owner is forgotten, that the bus is held is not.
ResetOwnerOnly == ClearRecord([record EXCEPT !.thread = None])

Reset == ClearRecord(NoRecord)

ReleaseLock(released) ==
  /\ SessionAt("unlock")
  /\ lock' = (lock /\ ~released)
  /\ session' = IF session.rpc = "connect"
                THEN [session EXCEPT !.was_held = FALSE,
                        !.pc = IF server = "leader" THEN "recheck" ELSE "abort"]
                ELSE NoSession
  /\ UNCHANGED <<server, port_open, record, poisoned, suspect, calibrating, done, aborted,
                 watching, call>>

\* Faulty variant: the lock is released whoever holds it.
ResetUnlockAlways == ReleaseLock(TRUE)

ResetUnlock == ReleaseLock(session.was_held)

\* Connect reads is_calibrated, without the lock ...
Check(pc, next) ==
  /\ SessionAt(pc)
  /\ call' = [call EXCEPT ![Session] =
               [pc |-> "unlocked", what |-> "none", live |-> port_open]]
  /\ session' = [session EXCEPT !.pc = next]
  /\ UNCHANGED <<server, port_open, lock, record, poisoned, suspect, calibrating, done,
                 aborted, watching>>

\* ... if it is calibrated latches the reference, with the lock ...
Checked ==
  /\ SessionAt("checking")
  /\ \/ /\ ~poisoned
        /\ call' = [call EXCEPT ![Session] =
                     [pc |-> "acquire", what |-> "connect", live |-> FALSE]]
        /\ session' = [session EXCEPT !.pc = "latching"]
     \/ /\ call' = [call EXCEPT ![Session] = Idle]
        /\ \/ session' = [session EXCEPT !.pc = "recheck"]
           \/ poisoned /\ session' = NoSession
  /\ UNCHANGED <<server, port_open, lock, record, poisoned, suspect, calibrating, done,
                 aborted, watching>>

\* ... and reads is_calibrated again for its answer.
Rechecked ==
  /\ SessionAt("rechecking")
  /\ call' = [call EXCEPT ![Session] = Idle]
  /\ session' = NoSession
  /\ UNCHANGED <<server, port_open, lock, record, poisoned, suspect, calibrating, done,
                 aborted, watching>>

-----------------------------------------------------------------------------
BusStep(t) == Take(t) \/ GiveUp(t) \/ RecordOwner(t) \/ Release(t) \/ Unlock(t)

CalibrationStep(k) ==
  \/ Rejected(k) \/ BeginCalibration(k) \/ StopRecording(k) \/ Finish(k)
  \/ BusStep(k)

SessionStep ==
  \/ Connect \/ Disconnect \/ Abort \/ Join \/ Close \/ Reset \/ ResetUnlock
  \/ Check("check", "checking") \/ Checked
  \/ Check("recheck", "rechecking") \/ Rechecked

Next ==
  \/ \E t \in Caller, what \in Call : BeginCall(t, what)
  \/ \E t \in Caller : BeginCalibrate(t) \/ EnterCalibrate(t)
  \/ \E t \in Caller : UnlockedCalibrate(t) \/ EndUnlocked(t)
  \/ \E t \in Thread : BusStep(t) \/ EndIO(t)
  \/ \E t \in Caller : AlreadyCalibrated(t)
  \/ \E t \in Caller, k \in Calibration : StartCalibration(t, k)
  \/ \E k \in Calibration : CalibrationStep(k) \/ CalibrationTimeout(k)
  \/ CalibrateDone
  \/ GrowOld \/ Suspect \/ Poison
  \/ SessionStep

Spec == Init /\ [][Next]_vars

\* The watchdogs run, and a calibration thread whose reads return goes on; no
\* call need ever end.  A recording looks at its events fifty times a second,
\* and one that is set stays set until the next Calibrate.
FairSpec ==
  /\ Spec
  /\ WF_vars(Suspect) /\ WF_vars(Poison)
  /\ \A k \in Calibration :
       /\ WF_vars(CalibrationStep(k)) /\ SF_vars(StopRecording(k))
       /\ WF_vars(CalibrationTimeout(k))

-----------------------------------------------------------------------------
(* Properties.                                                               *)

\* Types; a record names its owner.
TypeOK ==
  /\ server \in Servers
  /\ {port_open, lock, poisoned, calibrating, done, aborted} \subseteq BOOLEAN
  /\ record \in Record
  /\ record.held <=> record.thread # None
  /\ suspect \in {"none", "current", "past"}
  /\ watching \subseteq Calibration
  /\ call \in [Thread -> CallState]
  /\ session \in SessionState

\* "letting another caller write to the same pyserial handle concurrently"
\* (_bus_watchdog) never happens, if clients keep to the protocol: at most one
\* thread is on the open port, but for what the leader does there without the
\* lock: its Calibrate reads is_calibrated and may write the stored calibration,
\* its Connect reads is_calibrated.
OneOnBus ==
  \A t, u \in Thread :
    OnBus(t) /\ OnBus(u) =>
      \/ t = u
      \/ server = "leader" /\ "unlocked" \in {call[t].pc, call[u].pc}

\* Threads that will release the lock, if the program goes on.
Releaser ==
  { t \in Thread :
      \/ call[t].pc \in {"record", "unlock"}
      \/ call[t].pc \in {"io", "release"} /\ record.held /\ record.thread = t
      \/ t = Session /\ session.pc = "unlock" /\ session.was_held }

\* The lock is held exactly when one thread is going to release it, and only
\* one: no reset, late return or rejected call leaks it or frees it under a new
\* owner.
LockHasOneReleaser ==
  Cardinality(Releaser) = IF lock THEN 1 ELSE 0

\* The watchdog blames the call that is stuck, never one that began after it
\* looked, and never a calibration.
PoisonBlamesStuckCall ==
  [][ ~poisoned /\ poisoned'
      => record.held /\ record.old /\ record.what # "calibration" ]_vars

\* A call that stays on the bus beyond its time poisons it.
StuckCallPoisons ==
  (record.held /\ record.old /\ record.what # "calibration")
    ~> (poisoned \/ ~(record.held /\ record.old))

\* A calibration that nobody ends is ended by its watchdog, whatever other
\* calibrations, connections and disconnections did to the shared events.
CalibrationEnds ==
  \A k \in Calibration : call[k].pc = "io" ~> call[k].pc # "io"

=============================================================================
