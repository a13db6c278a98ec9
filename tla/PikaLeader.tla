------------------------------ MODULE PikaLeader ------------------------------
(***************************************************************************)
(* The runtime pose gate of the Pika Sense leader (PikaSenseServicer in    *)
(* leader/pika_sense_leader_server.py): the readiness sampler, the optical *)
(* freshness and motion checks of GetAction, the recovery after a loss,    *)
(* the restart of the tracking decoder, and the references that poses are  *)
(* published from.                                                         *)
(*                                                                         *)
(* The handlers and the sampler hold self._lock throughout, so each is one *)
(* step; SetReference, which collects samples for seconds while it holds   *)
(* it, is two.  Ages are abstracted to what the code compares.  A pose is  *)
(* a position on a line, in the coordinates of one libsurvive context.     *)
(***************************************************************************)
EXTENDS Integers

CONSTANTS
  MaxPose,        \* positions 0 .. MaxPose
  Soft,           \* motion accepted at once
  Absolute,       \* motion that ends the reference
  Confirm,        \* _MOTION_CONFIRM_SAMPLES
  Recheck,        \* tracker_recheck_samples
  Modes,          \* auto_reference and cumulative_clutch of the servicer
  Pausing,        \* may the client pause for longer than the optics are silent?
  MaxContext,     \* bound: libsurvive contexts of one run
  MaxOffset,      \* bound: how far cumulative offsets may add up
  None

Position == 0 .. MaxPose
Context == 1 .. MaxContext
Fix == [pose : Position, context : Context]     \* a Tracker sample, as kept
Offset == -MaxOffset .. MaxOffset

ASSUME PikaAssumption ==
  /\ MaxPose \in Nat /\ Soft \in Nat /\ Absolute \in Nat /\ Soft <= Absolute
  /\ Confirm \in Nat \ {0} /\ Recheck \in Nat \ {0}
  /\ Modes \subseteq [auto : BOOLEAN, cumulative : BOOLEAN]
  /\ Pausing \in BOOLEAN
  /\ MaxContext \in Nat \ {0} /\ MaxOffset \in Nat
  /\ None \notin Context /\ None \notin Fix

VARIABLES
  tracker,     \* the hardware: what the SDK would answer now
  leader,      \* the servicer
  capturing,   \* is SetReference collecting samples, with the lock held?
  gapped,      \* the optics fell silent since the reference was latched
  noticed      \* GetAction ran since the optics last changed

vars == <<tracker, leader, capturing, gapped, noticed>>

\* decoded: the age of the last decoded sweep is within tracker_stale_s, beyond
\* it, or beyond what readiness tolerates.  found: get_pose answers.
Tracker == [fix : Fix, decoded : {"fresh", "late", "silent"}, found : BOOLEAN]

\* last_fresh: the age of the last fresh sweep; "old" is beyond tracker_stale_s,
\* "ancient" seconds later.  seen: who has seen the present optical timestamp.
\* stalled: raw light without decoded sweeps, since an earlier call.
Leader ==
  [mode : Modes, started : BOOLEAN,
   readiness : {"waiting", "ready", "fault"},
   seen : SUBSET {"runtime", "readiness"},
   last_fresh : {"none", "recent", "old", "ancient"},
   last_valid : Fix \cup {None},
   pending : 0 .. Confirm,
   reference_required : BOOLEAN,
   recovery : [pose : Position, count : 0 .. Recheck],
   recovery_ready : BOOLEAN,
   clutched : BOOLEAN, pending_relatch : BOOLEAN, confirmation_pending : BOOLEAN,
   t_begin : Fix \cup {None}, base : Offset, published : Offset,
   stalled : BOOLEAN, failed : BOOLEAN,
   restart : {"idle", "running", "overdue", "done", "broken"}]

NoSamples == [pose |-> 0, count |-> 0]
Distance(p, q) == IF p < q THEN q - p ELSE p - q
Following(l) == l.clutched /\ ~l.pending_relatch

-----------------------------------------------------------------------------
(* References and recovery.                                                  *)

\* Faulty variant: the clutch stays engaged while a reference is required.
RequireEngaged(l) ==
  [l EXCEPT !.reference_required = TRUE, !.confirmation_pending = FALSE,
            !.pending = 0, !.recovery = NoSamples, !.recovery_ready = FALSE]

\* _require_new_reference
Require(l) ==
  [l EXCEPT !.reference_required = TRUE, !.confirmation_pending = FALSE,
            !.clutched = FALSE, !.pending_relatch = TRUE, !.pending = 0,
            !.recovery = NoSamples, !.recovery_ready = FALSE]

\* _samples_are_stable, of that many samples of a Tracker at rest.
Stable(n) == n >= Recheck

\* Faulty variant: samples are counted on after the prompt.
RecoverUnlatched(l, fix) ==
  LET n == IF l.recovery.count > 0 /\ l.recovery.pose = fix.pose
           THEN l.recovery.count + 1 ELSE 1
  IN [l EXCEPT !.recovery = [pose |-> fix.pose, count |-> n],
               !.recovery_ready = Stable(n)]

\* _update_recovery_window: enough samples of a Tracker at rest.
Recover(l, fix) ==
  IF l.recovery_ready THEN l
  ELSE LET n == IF l.recovery.count > 0 /\ l.recovery.pose = fix.pose
                THEN l.recovery.count + 1 ELSE 1
       IN [l EXCEPT !.recovery = [pose |-> fix.pose, count |-> n],
                    !.recovery_ready = Stable(n)]

Latch(l, fix) ==
  [l EXCEPT !.t_begin = fix, !.base = 0, !.published = 0,
            !.clutched = TRUE, !.pending_relatch = FALSE]

\* _prime_runtime_tracker
Prime(l, fix) ==
  [l EXCEPT !.seen = {"runtime", "readiness"}, !.last_fresh = "recent",
            !.last_valid = fix, !.pending = 0, !.reference_required = FALSE,
            !.confirmation_pending = FALSE, !.recovery = NoSamples,
            !.recovery_ready = FALSE, !.stalled = FALSE]

-----------------------------------------------------------------------------
(* The decoder restart.                                                      *)

\* Faulty variant: a restart that hangs is waited for.
ConsumeWaiting(l) ==
  IF l.restart \in {"done", "broken"} THEN [l EXCEPT !.restart = "idle"] ELSE l

\* _consume_tracker_decoder_restart, at the start of every update.
Consume(l) ==
  CASE l.restart = "overdue" -> [l EXCEPT !.failed = TRUE, !.stalled = FALSE]
    [] l.restart = "broken" ->
         [l EXCEPT !.restart = "idle", !.failed = TRUE, !.stalled = FALSE]
    [] l.restart = "done" ->
         [l EXCEPT !.restart = "idle", !.failed = FALSE, !.stalled = FALSE,
                   !.seen = {}, !.last_fresh = "none", !.last_valid = None,
                   !.pending = 0, !.recovery = NoSamples,
                   !.recovery_ready = FALSE]
    [] OTHER -> l

\* _maybe_restart_tracker_decoder, where decoding has been silent for seconds:
\* with raw light, as an earlier call saw; without, ever since a fresh sweep.
\* The attempts, the cooldown and the exact duration may still decline.
Restartable(l, t, raw) ==
  /\ ~l.failed /\ t.fix.context < MaxContext
  /\ t.decoded = "silent"
  /\ l.last_fresh \in (IF raw THEN {"none", "ancient"} ELSE {"ancient"})
  /\ raw => l.stalled

MaybeRestart(l, t, raw) ==
  {IF l.failed THEN l ELSE [l EXCEPT !.stalled = raw]} \cup
  {r \in {[l EXCEPT !.stalled = FALSE, !.restart = "running"]} :
     Restartable(l, t, raw)}

-----------------------------------------------------------------------------
(* Readiness.                                                                *)

Readable(t) == t.found /\ t.decoded # "silent"

\* What TrackerReadinessGate.update may answer (TrackerReadiness has its leases):
\* with the Tracker live, that it is ready.
Gate(l, t) ==
  { [l EXCEPT !.readiness = r] :
      r \in {"fault", "waiting"} \cup (IF Readable(t) THEN {"ready"} ELSE {}) }

\* The freshness baseline that readiness shares with the runtime checks, and
\* the decoder when nothing is decoded.
Watch(l, t) ==
  IF l.failed THEN {[l EXCEPT !.readiness = "fault"]}
  ELSE IF Readable(t)
  THEN {[l EXCEPT !.stalled = FALSE, !.seen = @ \cup {"readiness"},
                  !.last_fresh = IF "readiness" \in l.seen THEN @ ELSE "recent"]}
  ELSE { IF m.restart = "running" THEN [m EXCEPT !.readiness = "waiting"] ELSE m :
           m \in UNION {MaybeRestart(l, t, raw) : raw \in BOOLEAN} }

\* _update_tracking_readiness
Update(l, t) ==
  LET c == Consume(l)
  IN IF c.restart # "idle"
     THEN {[c EXCEPT !.readiness = IF c.failed THEN "fault" ELSE "waiting"]}
     ELSE UNION {Watch(g, t) : g \in Gate(c, t)}

-----------------------------------------------------------------------------
(* _runtime_tracker_pose: what becomes of the leader, and the pose to use.   *)

NewOptical(l, t) == t.found /\ t.decoded = "fresh" /\ "runtime" \notin l.seen

\* Faulty variant: a Tracker that does not answer is not timed.
StaleByReport(l, t) == t.found /\ t.decoded # "fresh"

Stale(l, t) == l.last_fresh # "recent" \/ (t.found /\ t.decoded # "fresh")

\* Nothing new: beyond tracker_stale_s the reference is lost, and the decoder
\* may be restarted; until then the last pose stands.
Hold(l, t) ==
  LET h == IF Stale(l, t) THEN Require(l) ELSE l
      lit == IF ~h.reference_required THEN {h}
             ELSE IF h.failed THEN {[h EXCEPT !.stalled = FALSE]}
             ELSE MaybeRestart(h, t, TRUE)
      dark == {[h EXCEPT !.stalled = FALSE]} \cup
              (IF h.reference_required /\ h.last_valid # None
               THEN MaybeRestart(h, t, FALSE) ELSE {})
  IN { [l |-> m, fix |-> IF Stale(l, t) THEN None ELSE l.last_valid] :
         m \in dark \cup (IF t.found THEN lit ELSE {}) }

Accept(l, fix) == [l |-> [l EXCEPT !.last_valid = fix, !.pending = 0], fix |-> fix]
Lose(l, fix) == [l |-> Recover(Require(l), fix), fix |-> None]

\* Faulty variant: three samples of a jump are believed, whatever their size.
MoveUnlimited(l, fix) ==
  LET moved == Distance(fix.pose, l.last_valid.pose)
  IN IF moved <= Soft \/ l.pending + 1 = Confirm THEN {Accept(l, fix)}
     ELSE {[l |-> [l EXCEPT !.pending = @ + 1], fix |-> l.last_valid]}

\* While following, a jump beyond Absolute loses the reference; a fast motion
\* is quarantined until the next samples make a coherent trajectory with it.
Move(l, fix) ==
  LET moved == Distance(fix.pose, l.last_valid.pose)
  IN IF moved > Absolute THEN {Lose(l, fix)}
     ELSE IF moved <= Soft THEN {Accept(l, fix)}
     ELSE {o \in {Accept(l, fix)} : l.pending > 0}
          \cup {IF l.pending + 1 = Confirm THEN Lose(l, fix)
                ELSE [l |-> [l EXCEPT !.pending = @ + 1], fix |-> l.last_valid]}

Take(l, fix) ==
  LET a == [l EXCEPT !.seen = {"runtime", "readiness"}, !.last_fresh = "recent",
                     !.stalled = FALSE]
      b == IF l.last_fresh \in {"old", "ancient"} THEN Require(a) ELSE a
  IN IF b.reference_required
     THEN {[l |-> Recover([b EXCEPT !.last_valid = fix], fix), fix |-> None]}
     ELSE IF b.last_valid # None /\ Following(b) THEN Move(b, fix)
     ELSE {Accept(b, fix)}

RuntimePose(l, t) ==
  IF l.restart # "idle" THEN {[l |-> l, fix |-> None]}
  ELSE IF NewOptical(l, t) THEN Take(l, t.fix)
  ELSE Hold(l, t)

-----------------------------------------------------------------------------
(* _compute_action                                                           *)

\* A quick squeeze: the clutch, or the confirmation of a recovery.
Squeezed(o) ==
  LET l == o.l
  IN CASE ~l.reference_required ->
            [o EXCEPT !.l.clutched = ~@,
                      !.l.pending_relatch = IF l.clutched THEN @ ELSE TRUE]
       [] l.reference_required /\ ~(l.recovery_ready /\ l.last_valid # None) ->
            [o EXCEPT !.l.clutched = FALSE]
       [] OTHER ->
            [fix |-> l.last_valid,
             l |-> IF l.mode.auto
                   THEN [l EXCEPT !.reference_required = FALSE,
                                  !.recovery_ready = FALSE, !.recovery = NoSamples,
                                  !.clutched = TRUE, !.pending_relatch = TRUE]
                   ELSE [l EXCEPT !.confirmation_pending = TRUE,
                                  !.clutched = FALSE, !.pending_relatch = TRUE]]

\* _relatch_cumulative_segment, where it is called
Relatches(o) ==
  /\ o.l.mode.cumulative
  /\ o.l.clutched /\ o.l.pending_relatch
  /\ o.fix # None

\* Faulty variant: the new segment does not start from the frozen offset.
RelatchFromZero(o) ==
  IF Relatches(o)
  THEN [o EXCEPT !.l.t_begin = o.fix, !.l.base = 0, !.l.pending_relatch = FALSE]
  ELSE o
Relatch(o) ==
  IF Relatches(o)
  THEN [o EXCEPT !.l.t_begin = o.fix, !.l.base = o.l.published,
                 !.l.pending_relatch = FALSE]
  ELSE o

\* compute_position_delta_body
Delta(fix, reference) == fix.pose - reference.pose

Publish(o) ==
  IF Following(o.l) /\ o.fix # None /\ o.l.t_begin # None
  THEN [o.l EXCEPT !.published = o.l.base + Delta(o.fix, o.l.t_begin)]
  ELSE o.l

\* Every way the pose of one GetAction can come about.
Faulted(l) == IF l.readiness = "fault" THEN Require(l) ELSE l
Poses == UNION { RuntimePose(Faulted(u), tracker) : u \in Update(leader, tracker) }

GetAction ==
  /\ leader.started /\ ~capturing
  /\ \E o \in Poses, squeeze \in BOOLEAN :
       LET s == IF squeeze THEN Squeezed(o) ELSE o
       IN  /\ leader' = Publish(Relatch(s))
           /\ leader'.published \in Offset
           /\ gapped' = (gapped /\ ~Relatches(s))
  /\ noticed' = TRUE
  /\ UNCHANGED <<tracker, capturing>>

-----------------------------------------------------------------------------
(* The sampler and the other handlers.                                       *)

Sample ==
  /\ leader.started /\ ~capturing
  /\ leader' \in Update(leader, tracker)
  /\ UNCHANGED <<tracker, capturing, gapped, noticed>>

\* The hardware is started once; the reference is that of the session.
Connect ==
  /\ ~capturing
  /\ leader' = [leader EXCEPT !.started = TRUE, !.t_begin = None, !.base = 0,
                              !.published = 0, !.confirmation_pending = FALSE,
                              !.clutched = FALSE, !.pending_relatch = FALSE]
  /\ gapped' = FALSE
  /\ UNCHANGED <<tracker, capturing, noticed>>

Supported == leader.restart = "idle" /\ tracker.found /\ tracker.decoded = "fresh"

\* GetTrackingReadiness latches for clients that never call SetReference.
AutoLatch ==
  /\ leader.started /\ ~capturing
  /\ leader.mode.auto /\ leader.readiness = "ready" /\ leader.t_begin = None
  /\ Supported
  /\ leader' = Latch(Prime(leader, tracker.fix), tracker.fix)
  /\ gapped' = FALSE
  /\ UNCHANGED <<tracker, capturing, noticed>>

\* SetReference: the token is that of the lease in force.  A token that is not
\* is refused, which leaves what a sample leaves.
BeginReference ==
  /\ leader.started /\ ~capturing
  /\ Pausing \/ ~Following(leader)
  /\ \E u \in Update(leader, tracker) : u.readiness = "ready" /\ leader' = u
  /\ capturing' = TRUE
  /\ UNCHANGED <<tracker, gapped, noticed>>

\* Stable samples have been collected.  The token is examined once more.
EndReference ==
  /\ capturing /\ Supported
  /\ capturing' = FALSE
  /\ \E u \in Update(leader, tracker) :
       IF u.readiness = "ready"
       THEN leader' = Latch(Prime(u, tracker.fix), tracker.fix) /\ gapped' = FALSE
       ELSE leader' = u /\ UNCHANGED gapped
  /\ UNCHANGED <<tracker, noticed>>

\* None have, within tracker_reference_timeout_s.
NoStableSample ==
  /\ capturing
  /\ capturing' = FALSE
  /\ leader' = [leader EXCEPT !.confirmation_pending = FALSE,
                              !.reference_required = TRUE, !.clutched = FALSE,
                              !.pending_relatch = TRUE, !.recovery = NoSamples,
                              !.recovery_ready = FALSE]
  /\ UNCHANGED <<tracker, gapped, noticed>>

-----------------------------------------------------------------------------
(* The hardware and time.                                                    *)

\* A client that does not pause calls GetAction before the optics age, and
\* while they are silent.  SetReference makes it wait.
Attended == Pausing \/ noticed \/ capturing

Sweep(p) ==
  /\ Attended \/ tracker.decoded = "fresh"
  /\ leader.restart \notin {"running", "overdue"}
  /\ tracker' = [fix |-> [tracker.fix EXCEPT !.pose = p], decoded |-> "fresh",
                 found |-> TRUE]
  /\ leader' = [leader EXCEPT !.seen = {}]
  /\ noticed' = FALSE
  /\ UNCHANGED <<capturing, gapped>>

FallSilent ==
  /\ Attended
  /\ tracker.decoded # "silent" \/ leader.last_fresh \in {"recent", "old"}
  /\ tracker' = [tracker EXCEPT !.decoded = IF @ = "fresh" THEN "late" ELSE "silent"]
  /\ leader' = [leader EXCEPT !.last_fresh = CASE @ = "recent" -> "old"
                                               [] @ = "old" -> "ancient"
                                               [] OTHER -> @]
  /\ gapped' = TRUE
  /\ noticed' = FALSE
  /\ UNCHANGED capturing

Vanish ==
  /\ tracker.found
  /\ tracker' = [tracker EXCEPT !.found = FALSE]
  /\ UNCHANGED <<leader, capturing, gapped, noticed>>

\* The restart worker: the SDK rebuilds the context, gives up, or hangs.
Overdue ==
  /\ leader.restart = "running"
  /\ leader' = [leader EXCEPT !.restart = "overdue"]
  /\ UNCHANGED <<tracker, capturing, gapped, noticed>>

Rebuilt ==
  /\ leader.restart \in {"running", "overdue"}
  /\ leader' = [leader EXCEPT !.restart = "done", !.seen = {}]
  /\ tracker' = [fix |-> [tracker.fix EXCEPT !.context = @ + 1],
                 decoded |-> "silent", found |-> FALSE]
  /\ UNCHANGED <<capturing, gapped, noticed>>

NotRebuilt ==
  /\ leader.restart \in {"running", "overdue"}
  /\ leader' = [leader EXCEPT !.restart = "broken"]
  /\ UNCHANGED <<tracker, capturing, gapped, noticed>>

Init ==
  /\ tracker = [fix |-> [pose |-> 0, context |-> 1], decoded |-> "silent", found |-> FALSE]
  /\ \E m \in Modes :
       leader = [mode |-> m, started |-> FALSE,
                 readiness |-> "waiting", seen |-> {}, last_fresh |-> "none",
                 last_valid |-> None, pending |-> 0, reference_required |-> FALSE,
                 recovery |-> NoSamples, recovery_ready |-> FALSE,
                 clutched |-> FALSE, pending_relatch |-> FALSE,
                 confirmation_pending |-> FALSE, t_begin |-> None, base |-> 0,
                 published |-> 0, stalled |-> FALSE, failed |-> FALSE,
                 restart |-> "idle"]
  /\ capturing = FALSE
  /\ gapped = FALSE
  /\ noticed = TRUE

Next ==
  \/ GetAction \/ Sample \/ Connect \/ AutoLatch
  \/ BeginReference \/ EndReference \/ NoStableSample
  \/ \E p \in Position : Sweep(p)
  \/ FallSilent \/ Vanish \/ Overdue \/ Rebuilt \/ NotRebuilt

Spec == Init /\ [][Next]_vars

\* The sampler runs, a capture ends and time passes.
FairSpec ==
  /\ Spec
  /\ WF_vars(Sample) /\ WF_vars(NoStableSample) /\ WF_vars(Overdue)

-----------------------------------------------------------------------------
(* Properties.                                                               *)

\* Types.
TypeOK ==
  /\ tracker \in Tracker
  /\ leader \in Leader
  /\ {capturing, gapped, noticed} \subseteq BOOLEAN

\* "Never reuse PoseData from the destroyed context": whoever follows has a
\* reference, a last pose and a Tracker of one and the same context.
FollowingInOneContext ==
  Following(leader) /\ leader.t_begin # None =>
    /\ leader.t_begin.context = tracker.fix.context
    /\ leader.last_valid = None \/ leader.last_valid.context = tracker.fix.context

\* "Any hold-worthy optical gap invalidates the session reference"
\* (tests/test_auto_reference.py): no pose is published from a reference older
\* than the last silence.
GapInvalidatesReference ==
  [][ leader'.published # leader.published => ~gapped' ]_vars

\* Two successive offsets differ by at most the absolute motion limit, over
\* quarantines, held poses, recoveries and cumulative segments; only a new
\* reference sets the offset to zero.
PublishedMotionBounded ==
  [][ leader'.published # leader.published
      => \/ Distance(leader'.published, leader.published) <= Absolute
         \/ capturing \/ leader'.t_begin = None
     ]_vars

\* A squeeze that resumes a cumulative session publishes the frozen offset.
EngageKeepsTarget ==
  [][ leader'.t_begin # leader.t_begin /\ ~capturing
      /\ None \notin {leader.t_begin, leader'.t_begin}
      => leader'.published = leader.published ]_vars

\* A decoder restart is over at last, or reported as failed: the leader does
\* not answer "starting" for ever.
RestartEnds == leader.restart # "idle" ~> (leader.restart = "idle" \/ leader.failed)

=============================================================================
