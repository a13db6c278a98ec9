---------------------------- MODULE SO101Bus_proofs ----------------------------
(***************************************************************************)
(* Proofs about the bus of the SO-101 servers, for any number of callers   *)
(* and calibrations and either server.  What needs no protocol of the      *)
(* clients is proved with overlapping sessions, too.                       *)
(***************************************************************************)
EXTENDS SO101Bus, FiniteSetTheorems, TLAPS

-----------------------------------------------------------------------------
(* Types.                                                                    *)

\* A call goes on from a typed state to a typed state.
LEMMA CallUpdate ==
  ASSUME TypeOK, NEW t \in Thread, NEW c \in CallState
  PROVE  [call EXCEPT ![t] = c] \in [Thread -> CallState]
  BY DEF TypeOK

LEMMA WantedType ==
  ASSUME TypeOK, NEW t \in Thread, NEW live \in BOOLEAN
  PROVE  Wanted(t, live) \in BusCall \cup {"connect", "calibration", "none"}
  BY DEF Wanted, TypeOK, CallState

LEMMA IdleType == Idle \in CallState
  BY DEF Idle, CallState

LEMMA NoRecordType == NoRecord \in Record /\ ~NoRecord.held /\ NoRecord.thread = None
  BY DEF NoRecord, Record

LEMMA AfterwardsType ==
  ASSUME TypeOK, NEW t \in Thread, Afterwards(t)
  PROVE  call' \in [Thread -> CallState] /\ session' \in SessionState
  BY DEF Afterwards, TypeOK, CallState, Idle, SessionState

LEMMA AfterAbortType == AfterAbort \in {"close", "reset", "check"}
  BY DEF AfterAbort

LEMMA NextType == TypeOK /\ [Next]_vars => TypeOK'
<1> SUFFICES ASSUME TypeOK, [Next]_vars PROVE TypeOK'
  OBVIOUS
<1>a. Caller \subseteq Thread /\ Calibration \subseteq Thread /\ Session \in Thread
      /\ None \notin Thread
  BY BusAssumption DEF Thread
<1>1. ASSUME NEW t \in Caller, NEW what \in Call, BeginCall(t, what) PROVE TypeOK'
  BY <1>1, <1>a, BusAssumption DEF BeginCall, TypeOK, CallState
<1>2. ASSUME NEW t \in Caller, BeginCalibrate(t) \/ UnlockedCalibrate(t) PROVE TypeOK'
  <2>1. PICK next \in CallState : OpenForCalibrate(t, next)
    BY <1>2 DEF BeginCalibrate, UnlockedCalibrate, CallState, BusCall, CallsOf
  <2>2. call' \in [Thread -> CallState]
    BY <1>a, <2>1, CallUpdate DEF OpenForCalibrate
  <2> QED BY <2>1, <2>2 DEF OpenForCalibrate, TypeOK
<1>3. ASSUME NEW t \in Caller, EnterCalibrate(t) \/ EndUnlocked(t) PROVE TypeOK'
  <2>1. CASE EnterCalibrate(t)
    BY <1>a, <2>1, IdleType DEF EnterCalibrate, Goto, TypeOK, CallState
  <2>2. CASE EndUnlocked(t)
    BY <1>a, <2>2 DEF EndUnlocked, TypeOK, CallState, Idle
  <2> QED BY <1>3, <2>1, <2>2
<1>4. ASSUME NEW t \in Thread, Take(t) PROVE TypeOK'
  BY <1>4 DEF Take, Goto, TypeOK, CallState
<1>5. ASSUME NEW t \in Thread, GiveUp(t) PROVE TypeOK'
  BY <1>5, IdleType DEF GiveUp, TypeOK, SessionState, NoSession
<1>6. ASSUME NEW t \in Thread, RecordOwner(t) PROVE TypeOK'
  BY <1>6, <1>a, WantedType DEF RecordOwner, TypeOK, CallState, Record
<1>7. ASSUME NEW t \in Thread, Release(t) PROVE TypeOK'
  <2>1. CASE record' = NoRecord /\ Goto(t, "unlock") /\ UNCHANGED session
    BY <1>7, <2>1, NoRecordType DEF Release, Goto, TypeOK, CallState
  <2>2. CASE Afterwards(t) /\ UNCHANGED record
    BY <1>7, <2>2, AfterwardsType DEF Release, TypeOK
  <2> QED BY <1>7, <2>1, <2>2 DEF Release
<1>8. ASSUME NEW t \in Thread, Unlock(t) PROVE TypeOK'
  BY <1>8, AfterwardsType DEF Unlock, TypeOK
<1>9. ASSUME NEW t \in Thread, EndIO(t) PROVE TypeOK'
  BY <1>9, WantedType DEF EndIO, TypeOK, CallState
<1>10. ASSUME NEW t \in Caller, AlreadyCalibrated(t) PROVE TypeOK'
  BY <1>10, <1>a, IdleType DEF AlreadyCalibrated, TypeOK
<1>11. ASSUME NEW t \in Caller, NEW k \in Calibration, StartCalibration(t, k) PROVE TypeOK'
  BY <1>11, <1>a DEF StartCalibration, StartThread, TypeOK, CallState, Idle
<1>12. ASSUME NEW k \in Calibration, Rejected(k) PROVE TypeOK'
  BY <1>12, <1>a, IdleType DEF Rejected, TypeOK
<1>13. ASSUME NEW k \in Calibration, BeginCalibration(k) PROVE TypeOK'
  BY <1>13, <1>a DEF BeginCalibration, Goto, TypeOK, CallState
<1>14. ASSUME NEW k \in Calibration, Finish(k) PROVE TypeOK'
  BY <1>14, <1>a, IdleType DEF Finish, TypeOK
<1>15. ASSUME NEW k \in Calibration, CalibrationTimeout(k) PROVE TypeOK'
  BY <1>15 DEF CalibrationTimeout, SetDone, TypeOK
<1>16. CASE CalibrateDone
  BY <1>16 DEF CalibrateDone, SetDone, TypeOK
<1>17. CASE GrowOld \/ Suspect \/ Poison
  BY <1>17 DEF GrowOld, Suspect, Poison, TypeOK, Record
<1>18. CASE Connect \/ Disconnect
  <2>1. CASE Connect
    <3>1. PICK pc \in {"abort", "reset"} :
             session' = [rpc |-> "connect", was_held |-> FALSE, pc |-> pc]
      BY <2>1 DEF Connect
    <3> QED BY <2>1, <3>1 DEF Connect, TypeOK, SessionState
  <2>2. CASE Disconnect
    BY <2>2 DEF Disconnect, TypeOK, SessionState
  <2> QED BY <1>18, <2>1, <2>2
<1>19. CASE Abort
  BY <1>19, AfterAbortType DEF Abort, SetDone, TypeOK, SessionState
<1>20. CASE Join
  BY <1>20, AfterAbortType DEF Join, TypeOK, SessionState
<1>21. CASE Close
  BY <1>21 DEF Close, TypeOK, SessionState, CallState
<1>22. CASE Reset
  BY <1>22, NoRecordType DEF Reset, ClearRecord, TypeOK, SessionState, Record
<1>23. CASE ResetUnlock
  BY <1>23 DEF ResetUnlock, ReleaseLock, TypeOK, SessionState, NoSession
<1>24. CASE Check("check", "checking") \/ Check("recheck", "rechecking")
  BY <1>24, <1>a DEF Check, TypeOK, SessionState, CallState
<1>25. CASE Checked
  <2>1. session' \in {[session EXCEPT !.pc = "latching"],
                      [session EXCEPT !.pc = "recheck"], NoSession}
    BY <1>25 DEF Checked
  <2>2. PICK c \in CallState : call' = [call EXCEPT ![Session] = c]
    <3>1. [pc |-> "acquire", what |-> "connect", live |-> FALSE] \in CallState
      BY DEF CallState
    <3> QED BY <1>25, <3>1, IdleType DEF Checked
  <2>3. session' \in SessionState
    <3>1. session \in SessionState BY DEF TypeOK
    <3>2. CASE session' = NoSession BY <3>2 DEF SessionState, NoSession
    <3>3. CASE session' = [session EXCEPT !.pc = "latching"] BY <3>1, <3>3 DEF SessionState
    <3>4. CASE session' = [session EXCEPT !.pc = "recheck"] BY <3>1, <3>4 DEF SessionState
    <3> QED BY <2>1, <3>2, <3>3, <3>4
  <2>4. call' \in [Thread -> CallState]
    BY <1>a, <2>2, CallUpdate
  <2> QED BY <1>25, <2>3, <2>4 DEF Checked, TypeOK
<1>26. CASE Rechecked
  BY <1>26, <1>a, IdleType DEF Rechecked, TypeOK, SessionState, NoSession
<1>27. CASE UNCHANGED vars
  BY <1>27 DEF vars, TypeOK
<1> QED
  BY <1>a, <1>1, <1>2, <1>3, <1>4, <1>5, <1>6, <1>7, <1>8, <1>9, <1>10, <1>11, <1>12,
     <1>13, <1>14, <1>15, <1>16, <1>17, <1>18, <1>19, <1>20, <1>21, <1>22, <1>23,
     <1>24, <1>25, <1>26, <1>27
  DEF Next, BusStep, CalibrationStep, StopRecording, SessionStep

-----------------------------------------------------------------------------
(***************************************************************************)
(* Connect and Disconnect: what the session thread is doing, told from two *)
(* sides.                                                                  *)
(***************************************************************************)
SessionInv ==
  /\ session.pc = "idle" <=> session.rpc = "none"
  /\ session.pc \in {"check", "checking", "latching", "recheck", "rechecking"}
       => session.rpc = "connect"
  /\ session.pc = "close" => session.rpc = "disconnect"
  /\ session.pc \in {"checking", "rechecking"} => call[Session].pc = "unlocked"
  /\ session.pc = "latching"
       => call[Session].pc \in {"acquire", "record", "io", "release", "unlock"}
  /\ session.pc \notin {"checking", "rechecking", "latching"}
       => call[Session].pc = "idle"
  /\ call[Session].what # "calibrate"
  /\ \A t \in Thread : call[t].pc = "unlocked" => t \in Caller \cup {Session}

LEMMA NextSession == TypeOK /\ SessionInv /\ [Next]_vars => SessionInv'
<1> SUFFICES ASSUME TypeOK, SessionInv, [Next]_vars PROVE SessionInv'
  OBVIOUS
<1>a. /\ Caller \subseteq Thread \ {Session} /\ Calibration \subseteq Thread \ {Session}
      /\ Session \in Thread /\ Caller \cap Calibration = {}
  BY BusAssumption DEF Thread
<1>1. ASSUME NEW t \in Caller, NEW what \in Call, BeginCall(t, what) PROVE SessionInv'
  BY <1>1, <1>a DEF BeginCall, TypeOK, SessionInv
<1>2. ASSUME NEW t \in Caller, BeginCalibrate(t) \/ UnlockedCalibrate(t)
      PROVE  SessionInv'
  BY <1>2, <1>a
  DEF BeginCalibrate, UnlockedCalibrate, OpenForCalibrate, TypeOK, SessionInv
<1>3. ASSUME NEW t \in Caller, EnterCalibrate(t) \/ EndUnlocked(t) PROVE SessionInv'
  BY <1>3, <1>a DEF EnterCalibrate, EndUnlocked, Goto, TypeOK, CallState, SessionInv, Idle
<1>4. ASSUME NEW t \in Thread, Take(t) PROVE SessionInv'
  BY <1>4, <1>a DEF Take, Goto, TypeOK, SessionInv, CallState
<1>5. ASSUME NEW t \in Thread, GiveUp(t) PROVE SessionInv'
  BY <1>5, <1>a DEF GiveUp, TypeOK, SessionInv, CallState, Idle, NoSession
<1>6. ASSUME NEW t \in Thread, RecordOwner(t) PROVE SessionInv'
  BY <1>6, <1>a DEF RecordOwner, Wanted, TypeOK, SessionInv, CallState
<1>7. ASSUME NEW t \in Thread, Release(t) PROVE SessionInv'
  BY <1>7, <1>a DEF Release, Goto, Afterwards, TypeOK, SessionInv, CallState, Idle, SessionState
<1>8. ASSUME NEW t \in Thread, Unlock(t) PROVE SessionInv'
  BY <1>8, <1>a DEF Unlock, Afterwards, TypeOK, SessionInv, CallState, Idle, SessionState
<1>9. ASSUME NEW t \in Thread, EndIO(t) PROVE SessionInv'
  BY <1>9, <1>a DEF EndIO, Wanted, TypeOK, SessionInv, CallState
<1>10. ASSUME NEW t \in Caller, AlreadyCalibrated(t) PROVE SessionInv'
  BY <1>10, <1>a DEF AlreadyCalibrated, TypeOK, SessionInv, Idle
<1>11. ASSUME NEW t \in Caller, NEW k \in Calibration, StartCalibration(t, k)
       PROVE  SessionInv'
  BY <1>11, <1>a DEF StartCalibration, StartThread, TypeOK, SessionInv, Idle
<1>12. ASSUME NEW k \in Calibration, Rejected(k) \/ Finish(k) PROVE SessionInv'
  BY <1>12, <1>a DEF Rejected, Finish, TypeOK, SessionInv, Idle
<1>13. ASSUME NEW k \in Calibration, BeginCalibration(k) PROVE SessionInv'
  BY <1>13, <1>a DEF BeginCalibration, Goto, TypeOK, SessionInv, CallState
<1>14. CASE Connect \/ Disconnect
  BY <1>14 DEF SessionAt, Connect, Disconnect, SessionInv, TypeOK, SessionState
<1>15. CASE Abort \/ Join
  BY <1>15 DEF SessionAt, Abort, Join, AfterAbort, SessionInv, TypeOK, SessionState
<1>16. CASE Close
  <2>1. \A t \in Thread : call'[t].pc = call[t].pc /\ call'[t].what = call[t].what
    BY <1>16 DEF SessionAt, Close, TypeOK, CallState
  <2>2. session'.pc = "reset" /\ session'.rpc = session.rpc /\ session.pc = "close"
    BY <1>16 DEF SessionAt, Close, TypeOK, SessionState
  <2> QED BY <1>a, <2>1, <2>2 DEF SessionInv
<1>17. CASE Reset \/ ResetUnlock
  <2>1. CASE Reset
    BY <2>1 DEF SessionAt, Reset, ClearRecord, SessionInv, TypeOK, SessionState
  <2>2. CASE ResetUnlock
    <3>1. CASE session.rpc = "connect"
      <4>1. PICK pc \in {"recheck", "abort"} :
               session' = [session EXCEPT !.was_held = FALSE, !.pc = pc]
        BY <2>2, <3>1 DEF ResetUnlock, ReleaseLock
      <4>2. UNCHANGED call /\ session.pc = "unlock"
        BY <2>2 DEF ResetUnlock, ReleaseLock, SessionAt
      <4> QED BY <3>1, <4>1, <4>2 DEF SessionInv, TypeOK, SessionState
    <3>2. CASE session.rpc # "connect"
      BY <2>2, <3>2 DEF SessionAt, ResetUnlock, ReleaseLock, SessionInv, NoSession
    <3> QED BY <3>1, <3>2
  <2> QED BY <1>17, <2>1, <2>2
<1>18. CASE Check("check", "checking") \/ Check("recheck", "rechecking")
  BY <1>18, <1>a DEF SessionAt, Check, SessionInv, TypeOK, SessionState
<1>19. CASE Checked \/ Rechecked
  BY <1>19, <1>a DEF SessionAt, Checked, Rechecked, SessionInv, TypeOK, SessionState, NoSession, Idle
<1>20. CASE UNCHANGED <<call, session>>
  BY <1>20 DEF SessionInv
<1> QED
  BY <1>1, <1>2, <1>3, <1>4, <1>5, <1>6, <1>7, <1>8, <1>9, <1>10, <1>11, <1>12,
     <1>13, <1>14, <1>15, <1>16, <1>17, <1>18, <1>19, <1>20, <1>a
  DEF Next, BusStep, CalibrationStep, StopRecording, SessionStep, CalibrationTimeout,
      CalibrateDone, GrowOld, Suspect, Poison, vars

-----------------------------------------------------------------------------
(***************************************************************************)
(* The lock.  Releases(t) is the membership of Releaser, one thread at a   *)
(* time: whoever holds the lock, or a reset on its behalf, will release    *)
(* it, and nobody else will.                                               *)
(***************************************************************************)
Releases(t) ==
  \/ call[t].pc \in {"record", "unlock"}
  \/ call[t].pc \in {"io", "release"} /\ record.held /\ record.thread = t
  \/ t = Session /\ session.pc = "unlock" /\ session.was_held

LockInv ==
  /\ record.held => call[record.thread].pc \in {"io", "release"}
  /\ lock => \E t \in Thread : Releases(t)
  /\ \A t \in Thread : Releases(t) => lock
  /\ \A t, u \in Thread : Releases(t) /\ Releases(u) => t = u

\* A step that leaves the record and what concerns the lock alone.
LEMMA LockUntouched ==
  ASSUME TypeOK, LockInv, UNCHANGED <<lock, record>>,
         \A t \in Thread : call'[t].pc \in {call[t].pc} \/
            {call[t].pc, call'[t].pc} \subseteq
               {"idle", "begin", "acquire", "unlocked", "start", "finish"},
         session' = session \/ {session.pc, session'.pc} \cap {"unlock"} = {}
  PROVE  LockInv'
<1>1. \A t \in Thread : Releases(t)' <=> Releases(t)
  BY DEF Releases
<1>2. record.held => record.thread \in Thread
  BY DEF TypeOK, Record
<1> QED BY <1>1, <1>2 DEF LockInv

LEMMA NextLock == TypeOK /\ SessionInv /\ LockInv /\ [Next]_vars => LockInv'
<1> SUFFICES ASSUME TypeOK, SessionInv, LockInv, [Next]_vars PROVE LockInv'
  OBVIOUS
<1>a. /\ Caller \subseteq Thread /\ Calibration \subseteq Thread /\ Session \in Thread
      /\ Session \notin Caller \cup Calibration
      /\ record.held => record.thread \in Thread
  BY BusAssumption DEF Thread, TypeOK, Record
<1>1. ASSUME NEW t \in Caller, NEW what \in Call, BeginCall(t, what) PROVE LockInv'
  BY <1>1, <1>a, LockUntouched DEF BeginCall, TypeOK
<1>2. ASSUME NEW t \in Caller, BeginCalibrate(t) \/ UnlockedCalibrate(t) PROVE LockInv'
  BY <1>2, <1>a, LockUntouched
  DEF BeginCalibrate, UnlockedCalibrate, OpenForCalibrate, TypeOK
<1>3. ASSUME NEW t \in Caller, EnterCalibrate(t) \/ EndUnlocked(t) PROVE LockInv'
  <2>1. /\ {call[t].pc, call'[t].pc} \subseteq {"idle", "begin", "acquire", "unlocked", "start"}
        /\ \A u \in Thread \ {t} : call'[u] = call[u]
    BY <1>3, <1>a DEF EnterCalibrate, EndUnlocked, Goto, TypeOK, CallState, Idle
  <2> QED BY <1>3, <1>a, <2>1, LockUntouched DEF EnterCalibrate, EndUnlocked
<1>4. ASSUME NEW t \in Thread, Take(t) PROVE LockInv'
  BY <1>4, <1>a DEF Take, Goto, TypeOK, LockInv, Releases, CallState
<1>5. ASSUME NEW t \in Thread, GiveUp(t) PROVE LockInv'
  <2>1. t = Session => session.pc = "latching"
    BY <1>5 DEF GiveUp, SessionInv, SessionState
  <2> QED BY <1>5, <2>1, LockUntouched DEF GiveUp, TypeOK, Idle, NoSession
<1>6. ASSUME NEW t \in Thread, RecordOwner(t) PROVE LockInv'
  BY <1>6, <1>a DEF RecordOwner, TypeOK, LockInv, Releases, CallState
<1>7. ASSUME NEW t \in Thread, Release(t) PROVE LockInv'
  <2>1. CASE record.held /\ record.thread = t
    BY <1>7, <1>a, <2>1, NoRecordType
    DEF Release, Goto, TypeOK, LockInv, Releases, CallState
  <2>2. CASE ~(record.held /\ record.thread = t)
    BY <1>7, <1>a, <2>2
    DEF Release, Afterwards, TypeOK, LockInv, Releases, CallState, Idle, SessionInv,
        SessionState
  <2> QED BY <2>1, <2>2
<1>8. ASSUME NEW t \in Thread, Unlock(t) PROVE LockInv'
  BY <1>8, <1>a
  DEF Unlock, Afterwards, TypeOK, LockInv, Releases, CallState, Idle, SessionInv,
      SessionState
<1>9. ASSUME NEW t \in Thread, EndIO(t) PROVE LockInv'
  BY <1>9, <1>a DEF EndIO, TypeOK, LockInv, Releases, CallState
<1>10. ASSUME NEW t \in Caller, AlreadyCalibrated(t) PROVE LockInv'
  BY <1>10, <1>a, LockUntouched DEF AlreadyCalibrated, TypeOK, Idle
<1>11. ASSUME NEW t \in Caller, NEW k \in Calibration, StartCalibration(t, k)
       PROVE  LockInv'
  BY <1>11, <1>a, LockUntouched DEF StartCalibration, StartThread, TypeOK, Idle
<1>12. ASSUME NEW k \in Calibration, Rejected(k) \/ Finish(k) PROVE LockInv'
  BY <1>12, <1>a, LockUntouched DEF Rejected, Finish, TypeOK, Idle
<1>13. ASSUME NEW k \in Calibration, BeginCalibration(k) PROVE LockInv'
  BY <1>13, <1>a, LockUntouched DEF BeginCalibration, Goto, TypeOK
<1>14. CASE GrowOld
  BY <1>14, <1>a DEF GrowOld, TypeOK, LockInv, Releases, Record
<1>15. CASE Connect \/ Disconnect \/ Abort \/ Join
  <2>1. UNCHANGED <<lock, record, call>>
    BY <1>15 DEF Connect, Disconnect, Abort, Join
  <2>2. session.pc # "unlock" /\ session'.pc # "unlock"
    BY <1>15 DEF Connect, Disconnect, Abort, Join, AfterAbort, SessionAt, TypeOK,
                 SessionState
  <2> QED BY <2>1, <2>2, LockUntouched
<1>16. CASE Close
  <2>1. UNCHANGED <<lock, record>> /\ \A t \in Thread : call'[t].pc = call[t].pc
    BY <1>16 DEF Close, TypeOK, CallState
  <2>2. session.pc # "unlock" /\ session'.pc # "unlock"
    BY <1>16 DEF Close, SessionAt, TypeOK, SessionState
  <2> QED BY <2>1, <2>2, LockUntouched
<1>17. CASE Reset
  BY <1>17, <1>a, NoRecordType
  DEF Reset, ClearRecord, SessionAt, TypeOK, LockInv, Releases, SessionInv, SessionState
<1>18. CASE ResetUnlock
  <2>1. session.pc = "unlock" /\ session'.pc # "unlock"
    BY <1>18 DEF ResetUnlock, ReleaseLock, SessionAt, TypeOK, SessionState, NoSession
  <2>2. lock' = (lock /\ ~session.was_held) /\ UNCHANGED <<record, call>>
    BY <1>18 DEF ResetUnlock, ReleaseLock
  <2> QED BY <1>a, <2>1, <2>2 DEF LockInv, Releases, SessionInv, TypeOK
<1>19. CASE Check("check", "checking") \/ Check("recheck", "rechecking")
  BY <1>19, <1>a, LockUntouched DEF Check, SessionAt, SessionInv, TypeOK, SessionState
<1>20. CASE Checked \/ Rechecked
  <2>1. session.pc # "unlock" /\ session'.pc # "unlock"
    BY <1>20 DEF Checked, Rechecked, SessionAt, TypeOK, SessionState, NoSession
  <2> QED
    BY <1>20, <1>a, <2>1, LockUntouched DEF Checked, Rechecked, SessionAt, SessionInv,
       TypeOK, Idle
<1>21. CASE UNCHANGED <<lock, record, call, session>>
  BY <1>21, LockUntouched
<1> QED
  BY <1>1, <1>2, <1>3, <1>4, <1>5, <1>6, <1>7, <1>8, <1>9, <1>10, <1>11, <1>12,
     <1>13, <1>14, <1>15, <1>16, <1>17, <1>18, <1>19, <1>20, <1>21, <1>a
  DEF Next, BusStep, CalibrationStep, StopRecording, SessionStep, CalibrationTimeout,
      CalibrateDone, Suspect, Poison, vars

-----------------------------------------------------------------------------
(***************************************************************************)
(* The watchdog: as long as the call it sampled is on record, it is old    *)
(* and no calibration.                                                     *)
(***************************************************************************)
SuspectInv ==
  suspect = "current" /\ record.held => record.old /\ record.what # "calibration"

LEMMA NextSuspect == TypeOK /\ SuspectInv /\ [Next]_vars => SuspectInv'
<1> SUFFICES ASSUME TypeOK, SuspectInv, [Next]_vars PROVE SuspectInv'
  OBVIOUS
<1>1. ASSUME NEW t \in Thread, RecordOwner(t) PROVE SuspectInv'
  BY <1>1 DEF RecordOwner, SuspectInv
<1>2. ASSUME NEW t \in Thread, Release(t) PROVE SuspectInv'
  BY <1>2, NoRecordType DEF Release, SuspectInv
<1>3. CASE GrowOld
  BY <1>3 DEF GrowOld, SuspectInv, TypeOK, Record
<1>4. CASE Suspect \/ Poison
  BY <1>4 DEF Suspect, Poison, SuspectInv
<1>5. CASE Reset
  BY <1>5, NoRecordType DEF Reset, ClearRecord, SuspectInv
<1>6. CASE UNCHANGED <<suspect, record>>
  BY <1>6 DEF SuspectInv
<1> QED
  BY <1>1, <1>2, <1>3, <1>4, <1>5, <1>6
  DEF Next, BusStep, CalibrationStep, StopRecording, SessionStep, BeginCall,
      BeginCalibrate, EnterCalibrate, UnlockedCalibrate, OpenForCalibrate, EndUnlocked, Take, GiveUp, Unlock, EndIO, AlreadyCalibrated,
      StartCalibration, StartThread, Rejected, BeginCalibration, Finish,
      CalibrateDone, CalibrationTimeout, Connect, Disconnect, Abort, Join, Close,
      ResetUnlock, ReleaseLock, Check, Checked, Rechecked, Thread, vars

-----------------------------------------------------------------------------
(***************************************************************************)
(* The port, for clients that keep to the protocol.  Only an open port is  *)
(* used; who uses it with the lock is on record; and while a Connect is    *)
(* under way nothing else can reach the port, so what it resets and what   *)
(* it reads without the lock is nobody's.                                  *)
(***************************************************************************)
PortInv ==
  /\ \A t \in Thread : OnBus(t) => port_open
  /\ session.rpc = "disconnect" /\ session.pc \in {"reset", "unlock"} => ~port_open
  /\ session.rpc = "connect" => Quiet
  /\ \A t \in Thread :
       call[t].pc = "io" /\ call[t].live => record.held /\ record.thread = t
  /\ server = "follower" => \A t \in Caller : call[t].pc # "unlocked"

LEMMA NextPort ==
  ASSUME Overlap = {}
  PROVE  TypeOK /\ SessionInv /\ LockInv /\ PortInv /\ [Next]_vars => PortInv'
<1> SUFFICES ASSUME TypeOK, SessionInv, LockInv, PortInv, [Next]_vars PROVE PortInv'
  OBVIOUS
<1>a. /\ Caller \subseteq Thread /\ Calibration \subseteq Thread /\ Session \in Thread
      /\ Session \notin Caller \cup Calibration
      /\ Thread = Caller \cup Calibration \cup {Session}
      /\ Caller \cap Calibration = {}
      /\ record.held => record.thread \in Thread
  BY BusAssumption DEF Thread, TypeOK, Record
<1>1. ASSUME NEW t \in Caller, NEW what \in Call, BeginCall(t, what) PROVE PortInv'
  BY <1>1, <1>a DEF BeginCall, MayCall, PortInv, Quiet, OnBus, TypeOK
<1>2. ASSUME NEW t \in Caller, BeginCalibrate(t) \/ UnlockedCalibrate(t) PROVE PortInv'
  BY <1>2, <1>a
  DEF BeginCalibrate, UnlockedCalibrate, OpenForCalibrate, MayCalibrate, PortInv, OnBus,
      TypeOK
<1>3. ASSUME NEW t \in Caller, EnterCalibrate(t) \/ EndUnlocked(t) PROVE PortInv'
  BY <1>3, <1>a DEF EnterCalibrate, EndUnlocked, Goto, PortInv, Quiet, OnBus, TypeOK,
                    CallState, Idle
<1>4. ASSUME NEW t \in Thread, Take(t) PROVE PortInv'
  BY <1>4, <1>a DEF Take, Goto, PortInv, Quiet, OnBus, TypeOK, CallState
<1>5. ASSUME NEW t \in Thread, GiveUp(t) PROVE PortInv'
  BY <1>5, <1>a DEF GiveUp, PortInv, Quiet, OnBus, TypeOK, Idle, NoSession
<1>6. ASSUME NEW t \in Thread, RecordOwner(t) PROVE PortInv'
  <2>1. \A u \in Thread \ {t} : ~(call[u].pc = "io" /\ call[u].live)
    BY <1>6 DEF RecordOwner, PortInv, LockInv, Releases
  <2> QED
    BY <1>6, <1>a, <2>1 DEF RecordOwner, Wanted, PortInv, Quiet, OnBus, TypeOK, CallState
<1>7. ASSUME NEW t \in Thread, Release(t) PROVE PortInv'
  <2>1. CASE record.held /\ record.thread = t
    BY <1>7, <1>a, <2>1 DEF Release, Goto, PortInv, Quiet, OnBus, TypeOK, CallState
  <2>2. CASE ~(record.held /\ record.thread = t)
    BY <1>7, <1>a, <2>2
    DEF Release, Afterwards, PortInv, Quiet, OnBus, TypeOK, CallState, Idle, SessionInv,
        SessionState
  <2> QED BY <2>1, <2>2
<1>8. ASSUME NEW t \in Thread, Unlock(t) PROVE PortInv'
  BY <1>8, <1>a
  DEF Unlock, Afterwards, PortInv, Quiet, OnBus, TypeOK, CallState, Idle, SessionInv,
      SessionState
<1>9. ASSUME NEW t \in Thread, EndIO(t) PROVE PortInv'
  BY <1>9, <1>a DEF EndIO, Wanted, PortInv, Quiet, OnBus, TypeOK, CallState
<1>10. ASSUME NEW t \in Caller, AlreadyCalibrated(t) PROVE PortInv'
  BY <1>10, <1>a DEF AlreadyCalibrated, PortInv, Quiet, OnBus, TypeOK, Idle
<1>11. ASSUME NEW t \in Caller, NEW k \in Calibration, StartCalibration(t, k)
       PROVE  PortInv'
  BY <1>11, <1>a
  DEF StartCalibration, StartThread, PortInv, Quiet, OnBus, TypeOK, Idle
<1>12. ASSUME NEW k \in Calibration, Rejected(k) \/ Finish(k) PROVE PortInv'
  BY <1>12, <1>a DEF Rejected, Finish, PortInv, Quiet, OnBus, TypeOK, Idle
<1>13. ASSUME NEW k \in Calibration, BeginCalibration(k) PROVE PortInv'
  BY <1>13, <1>a DEF BeginCalibration, Goto, PortInv, Quiet, OnBus, TypeOK, CallState
<1>14. CASE GrowOld
  BY <1>14 DEF GrowOld, PortInv, Quiet, OnBus, TypeOK, Record
<1>15. CASE Connect
  BY <1>15 DEF Connect, MayConnect, PortInv, Quiet, OnBus, TypeOK
<1>16. CASE Disconnect
  BY <1>16 DEF Disconnect, PortInv, OnBus, TypeOK
<1>17. CASE Abort \/ Join
  <2>1. session'.rpc = session.rpc /\ (session.rpc = "disconnect" => session'.pc \in {"join", "close"})
    BY <1>17 DEF Abort, Join, AfterAbort, TypeOK, SessionState
  <2>2. UNCHANGED <<server, port_open, record, call>>
    BY <1>17 DEF Abort, Join
  <2> QED BY <2>1, <2>2 DEF PortInv, Quiet, OnBus
<1>18. CASE Close
  <2>1. /\ ~port_open' /\ session'.rpc = "disconnect"
        /\ \A t \in Thread : call'[t].pc = call[t].pc /\ ~call'[t].live
    BY <1>18 DEF Close, SessionAt, SessionInv, TypeOK, CallState, SessionState
  <2> QED BY <1>18, <1>a, <2>1 DEF Close, PortInv, OnBus
<1>19. CASE Reset
  <2>1. \A t \in Thread : ~OnBus(t)
    BY <1>19, <1>a
    DEF Reset, ClearRecord, SessionAt, SessionInv, PortInv, Quiet, OnBus, TypeOK,
        SessionState
  <2>2. session'.rpc = session.rpc /\ session.pc = "reset"
    BY <1>19 DEF Reset, ClearRecord, SessionAt, TypeOK, SessionState
  <2> QED BY <1>19, <2>1, <2>2 DEF Reset, ClearRecord, PortInv, Quiet, OnBus
<1>20. CASE ResetUnlock
  <2>1. session'.rpc \in {session.rpc, "none"}
    BY <1>20 DEF ResetUnlock, ReleaseLock, TypeOK, SessionState, NoSession
  <2>2. session'.pc \notin {"reset", "unlock"} \/ session'.rpc # "disconnect"
    BY <1>20 DEF ResetUnlock, ReleaseLock, TypeOK, SessionState, NoSession
  <2> QED BY <1>20, <2>1, <2>2 DEF ResetUnlock, ReleaseLock, PortInv, Quiet, OnBus
<1>21. CASE Check("check", "checking") \/ Check("recheck", "rechecking")
  BY <1>21, <1>a
  DEF Check, SessionAt, PortInv, Quiet, OnBus, SessionInv, TypeOK, SessionState
<1>22. CASE Checked \/ Rechecked
  <2>1. session'.rpc \in {session.rpc, "none"} /\ session'.pc \notin {"reset", "unlock"}
    BY <1>22 DEF Checked, Rechecked, SessionAt, TypeOK, SessionState, NoSession
  <2> QED
    BY <1>22, <1>a, <2>1
    DEF Checked, Rechecked, PortInv, Quiet, OnBus, TypeOK, Idle
<1>23. CASE UNCHANGED <<server, port_open, record, call, session>>
  BY <1>23 DEF PortInv, Quiet, OnBus
<1> QED
  BY <1>1, <1>2, <1>3, <1>4, <1>5, <1>6, <1>7, <1>8, <1>9, <1>10, <1>11, <1>12,
     <1>13, <1>14, <1>15, <1>16, <1>17, <1>18, <1>19, <1>20, <1>21, <1>22, <1>23, <1>a
  DEF Next, BusStep, CalibrationStep, StopRecording, SessionStep, CalibrationTimeout,
      CalibrateDone, Suspect, Poison, vars

-----------------------------------------------------------------------------
(***************************************************************************)
(* The theorems.  BusInv is inductive for any clients; PortInv, on top of  *)
(* it, for clients that keep to the protocol.                              *)
(***************************************************************************)
BusInv == TypeOK /\ SessionInv /\ LockInv /\ SuspectInv

LEMMA InitBusInv == Init => BusInv
<1> SUFFICES ASSUME Init PROVE BusInv
  OBVIOUS
<1>1. TypeOK
  BY BusAssumption, NoRecordType, IdleType
  DEF Init, TypeOK, NoSession, SessionState
<1>2. \A t \in Thread : call[t] = Idle
  BY DEF Init
<1>3. SessionInv
  BY <1>2, BusAssumption DEF Init, SessionInv, NoSession, Idle, Thread
<1>4. LockInv
  BY <1>2, NoRecordType DEF Init, LockInv, Releases, NoSession, Idle
<1>5. SuspectInv
  BY DEF Init, SuspectInv
<1> QED BY <1>1, <1>3, <1>4, <1>5 DEF BusInv

LEMMA BusInvariance == Spec => []BusInv
<1>1. BusInv /\ [Next]_vars => BusInv'
  BY NextType, NextSession, NextLock, NextSuspect DEF BusInv
<1> QED BY InitBusInv, <1>1, PTL DEF Spec

LEMMA PortInvariance ==
  ASSUME Overlap = {}
  PROVE  Spec => []PortInv
<1>1. Init => PortInv
  BY NoRecordType, BusAssumption
  DEF Init, PortInv, NoSession, OnBus, Idle, Thread
<1>2. BusInv /\ PortInv /\ [Next]_vars => PortInv'
  BY NextPort DEF BusInv
<1> QED BY BusInvariance, <1>1, <1>2, PTL DEF Spec

\* Every reachable state of either server is of the types its variables are
\* declared with, and the record of _bus_held names an owner exactly when the bus
\* is held.
THEOREM TypeCorrect == Spec => []TypeOK
<1>1. BusInv => TypeOK
  BY DEF BusInv
<1> QED BY BusInvariance, <1>1, PTL

\* _calibration_lock is held exactly when one thread is going to release it, for
\* any number of callers and calibrations, also with a Connect or a Disconnect in
\* the middle of their calls.
THEOREM LockHasOneReleaserAlways == Spec => []LockHasOneReleaser
<1>1. ASSUME BusInv PROVE LockHasOneReleaser
  <2>1. Releaser = {t \in Thread : Releases(t)}
    BY DEF Releaser, Releases
  <2>2. CASE lock
    <3>1. PICK t \in Thread : Releases(t)
      BY <1>1, <2>2 DEF BusInv, LockInv
    <3>2. Releaser = {t}
      BY <1>1, <2>1, <3>1 DEF BusInv, LockInv
    <3> QED BY <2>2, <3>2, FS_Singleton DEF LockHasOneReleaser
  <2>3. CASE ~lock
    <3>1. Releaser = {}
      BY <1>1, <2>1, <2>3 DEF BusInv, LockInv
    <3> QED BY <2>3, <3>1, FS_EmptySet DEF LockHasOneReleaser
  <2> QED BY <2>2, <2>3
<1> QED BY BusInvariance, <1>1, PTL

\* The bus watchdog poisons only for a call that was on record when it looked,
\* had been there beyond its time, and is still: it samples, logs, and compares.
THEOREM PoisonBlamesStuckCallAlways == Spec => PoisonBlamesStuckCall
<1>1. BusInv /\ [Next]_vars
      => [~poisoned /\ poisoned'
          => record.held /\ record.old /\ record.what # "calibration"]_vars
  <2> SUFFICES ASSUME BusInv, Next, ~poisoned, poisoned'
               PROVE  record.held /\ record.old /\ record.what # "calibration"
    OBVIOUS
  <2>1. Poison
    BY DEF Next, BusStep, CalibrationStep, StopRecording, SessionStep, BeginCall,
       BeginCalibrate, EnterCalibrate, UnlockedCalibrate, OpenForCalibrate, EndUnlocked, Take, GiveUp, RecordOwner, Release, Unlock, EndIO,
       AlreadyCalibrated, StartCalibration, StartThread, Rejected, BeginCalibration,
       Finish, CalibrateDone, CalibrationTimeout, GrowOld, Suspect, Connect,
       Disconnect, Abort, Join, Close, Reset, ClearRecord, ResetUnlock, ReleaseLock,
       Check, Checked, Rechecked
  <2> QED BY <2>1 DEF Poison, BusInv, SuspectInv
<1> QED BY BusInvariance, <1>1, PTL DEF Spec, PoisonBlamesStuckCall

\* Of clients that keep to the protocol (they connect before they call, and send
\* no Calibrate while they connect or disconnect), no two threads are ever on the
\* open port together, but for what the leader's Calibrate and Connect do there
\* without the lock: reads of is_calibrated and a write of the stored calibration.
\* MCSO101Overlap shows that the hypothesis is needed.
THEOREM OneOnBusAlways ==
  ASSUME Overlap = {}
  PROVE  Spec => []OneOnBus
<1>1. ASSUME BusInv, PortInv PROVE OneOnBus
  <2> SUFFICES ASSUME NEW t \in Thread, NEW u \in Thread, OnBus(t), OnBus(u), t # u,
                      ~(server = "leader" /\ "unlocked" \in {call[t].pc, call[u].pc})
               PROVE  FALSE
    BY DEF OneOnBus
  <2>1. CASE call[t].pc = "io" /\ call[u].pc = "io"
    BY <1>1, <2>1 DEF PortInv, OnBus
  <2>2. CASE call[t].pc = "unlocked" \/ call[u].pc = "unlocked"
    <3>1. server = "follower"
      BY <1>1, <2>2, BusAssumption DEF BusInv, TypeOK, CallsOf
    <3>2. Session \in {t, u} /\ call[Session].pc = "unlocked"
      BY <1>1, <2>2, <3>1 DEF BusInv, SessionInv, PortInv
    <3>3. Quiet
      BY <1>1, <3>2 DEF BusInv, SessionInv, PortInv
    <3> QED BY <3>2, <3>3 DEF Quiet, Thread
  <2> QED BY <2>1, <2>2 DEF OnBus
<1> QED BY BusInvariance, PortInvariance, <1>1, PTL
=============================================================================
