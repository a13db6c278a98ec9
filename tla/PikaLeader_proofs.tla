-------------------------- MODULE PikaLeader_proofs --------------------------
(***************************************************************************)
(* Proofs about the runtime pose gate of the Pika leader, for every size   *)
(* of its constants.  What the gate does between two samples is told first *)
(* from what it does to the leader's fields; the invariants are about the  *)
(* fields.                                                                 *)
(***************************************************************************)
EXTENDS PikaLeader, TLAPS

\* A leader as the code leaves it: the counters stop where they are read.
Sane(l) ==
  /\ l \in Leader
  /\ l.pending < Confirm
  /\ l.recovery_ready \/ l.recovery.count < Recheck

\* What only references and sessions change, and the clutch.
Kept(l, m) ==
  /\ m.mode = l.mode /\ m.started = l.started
  /\ m.t_begin = l.t_begin /\ m.base = l.base /\ m.published = l.published
Clutch(l, m) ==
  /\ m.reference_required = l.reference_required
  /\ m.clutched = l.clutched /\ m.pending_relatch = l.pending_relatch
Tracked(l, m) ==
  /\ m.seen = l.seen /\ m.last_fresh = l.last_fresh /\ m.last_valid = l.last_valid

-----------------------------------------------------------------------------
(* What the operators do to a leader.                                        *)

LEMMA NoSamplesType ==
  /\ NoSamples \in [pose : Position, count : 0 .. Recheck] /\ NoSamples.count < Recheck
  /\ 0 \in 0 .. Confirm /\ 0 < Confirm
  BY PikaAssumption DEF NoSamples, Position

LEMMA RequireFacts ==
  ASSUME NEW l, Sane(l), NEW m, m = Require(l)
  PROVE  /\ Sane(m) /\ Kept(l, m) /\ Tracked(l, m)
         /\ m.reference_required /\ ~m.clutched /\ ~m.recovery_ready
         /\ m.restart = l.restart /\ m.failed = l.failed
<1>1. m \in Leader
  BY NoSamplesType DEF Require, Sane, Leader
<1>2. /\ Kept(l, m) /\ Tracked(l, m) /\ m.pending = 0 /\ m.recovery = NoSamples
      /\ m.reference_required /\ ~m.clutched /\ ~m.recovery_ready
      /\ m.restart = l.restart /\ m.failed = l.failed
  BY DEF Require, Sane, Leader, Kept, Tracked
<1> QED BY <1>1, <1>2, NoSamplesType DEF Sane

LEMMA RecoverFacts ==
  ASSUME NEW l, Sane(l), NEW fix \in Fix, NEW m, m = Recover(l, fix)
  PROVE  /\ Sane(m) /\ Kept(l, m) /\ Tracked(l, m) /\ Clutch(l, m)
         /\ m.restart = l.restart /\ m.failed = l.failed
<1>1. CASE l.recovery_ready
  BY <1>1 DEF Recover, Kept, Tracked, Clutch
<1>2. CASE ~l.recovery_ready
  <2>1. PICK n \in 0 .. Recheck :
          n = IF l.recovery.count > 0 /\ l.recovery.pose = fix.pose
              THEN l.recovery.count + 1 ELSE 1
    BY <1>2, PikaAssumption DEF Sane, Leader
  <2>2. PICK r \in [pose : Position, count : 0 .. Recheck] :
          r = [pose |-> fix.pose, count |-> n]
    <3>1. fix.pose \in Position
      BY DEF Fix
    <3> QED BY <3>1
  <2>3. PICK b \in BOOLEAN : b <=> n >= Recheck
    OBVIOUS
  <2>4. m = [l EXCEPT !.recovery = r, !.recovery_ready = Stable(n)]
    BY <1>2, <2>1, <2>2 DEF Recover
  <2>5. Stable(n) = b
    BY <2>3 DEF Stable
  <2>6. m = [l EXCEPT !.recovery = r, !.recovery_ready = b]
    BY <2>4, <2>5
  <2>7. m \in Leader
    BY <2>6 DEF Sane, Leader
  <2>8. /\ m.recovery = r /\ m.recovery_ready = b /\ m.pending = l.pending
        /\ Kept(l, m) /\ Tracked(l, m) /\ Clutch(l, m)
        /\ m.restart = l.restart /\ m.failed = l.failed
    BY <2>6 DEF Sane, Leader, Kept, Tracked, Clutch
  <2> QED BY <2>2, <2>3, <2>7, <2>8, PikaAssumption DEF Sane
<1> QED BY <1>1, <1>2

LEMMA PrimeFacts ==
  ASSUME NEW l, Sane(l), NEW fix \in Fix, NEW m, m = Prime(l, fix)
  PROVE  /\ Sane(m) /\ Kept(l, m)
         /\ ~m.reference_required /\ ~m.recovery_ready
         /\ m.seen = {"runtime", "readiness"} /\ m.last_fresh = "recent"
         /\ m.last_valid = fix
         /\ m.restart = l.restart /\ m.failed = l.failed
<1>1. m \in Leader
  BY NoSamplesType DEF Prime, Sane, Leader
<1>2. /\ Kept(l, m) /\ m.pending = 0 /\ m.recovery = NoSamples
      /\ ~m.reference_required /\ ~m.recovery_ready
      /\ m.last_fresh = "recent" /\ m.restart = l.restart /\ m.failed = l.failed
  BY DEF Prime, Sane, Leader, Kept
<1>3. m.seen = {"runtime", "readiness"} /\ m.last_valid = fix
  BY DEF Prime, Sane, Leader
<1> QED BY <1>1, <1>2, <1>3, NoSamplesType DEF Sane

\* A new reference, from a Tracker sample of now.
LEMMA LatchFacts ==
  ASSUME NEW l, Sane(l), NEW fix \in Fix, NEW m, m = Latch(Prime(l, fix), fix)
  PROVE  /\ Sane(m) /\ m.mode = l.mode /\ m.started = l.started
         /\ m.t_begin = fix /\ m.base = 0 /\ m.published = 0 /\ m.last_valid = fix
         /\ ~m.reference_required /\ m.clutched /\ ~m.pending_relatch
         /\ ~m.recovery_ready
         /\ m.seen = {"runtime", "readiness"} /\ m.last_fresh = "recent"
         /\ m.restart = l.restart /\ m.failed = l.failed
<1>1. PICK z \in Offset : z = 0
  BY PikaAssumption DEF Offset
<1>2. PICK p : p = Prime(l, fix)
  OBVIOUS
<1>3. m = [p EXCEPT !.t_begin = fix, !.base = z, !.published = z,
                    !.clutched = TRUE, !.pending_relatch = FALSE]
  BY <1>1, <1>2 DEF Latch
<1>4. Sane(p)
  BY <1>2, PrimeFacts
<1>5. m \in Leader
  BY <1>3, <1>4 DEF Sane, Leader
<1>6. /\ m.t_begin = fix /\ m.base = 0 /\ m.published = 0
      /\ m.clutched /\ ~m.pending_relatch
      /\ m.mode = p.mode /\ m.started = p.started /\ m.last_valid = p.last_valid
      /\ m.reference_required = p.reference_required
      /\ m.recovery_ready = p.recovery_ready /\ m.recovery = p.recovery
      /\ m.seen = p.seen /\ m.last_fresh = p.last_fresh
      /\ m.restart = p.restart /\ m.failed = p.failed /\ m.pending = p.pending
  BY <1>1, <1>3, <1>4 DEF Sane, Leader
<1>7. Sane(m)
  BY <1>4, <1>5, <1>6 DEF Sane
<1> QED BY <1>2, <1>6, <1>7, PrimeFacts DEF Kept

LEMMA ConsumeFacts ==
  ASSUME NEW l, Sane(l), NEW m, m = Consume(l)
  PROVE  /\ Sane(m) /\ Kept(l, m) /\ Clutch(l, m)
         /\ m.restart = IF l.restart \in {"done", "broken"} THEN "idle" ELSE l.restart
         /\ l.restart = "idle" => m.failed = l.failed
         /\ l.restart = "done" =>
              /\ m.seen = {} /\ m.last_fresh = "none" /\ m.last_valid = None
              /\ ~m.recovery_ready
         /\ l.restart # "done" => Tracked(l, m) /\ m.recovery_ready = l.recovery_ready
<1>0. l.restart \in {"idle", "running", "overdue", "done", "broken"}
  BY DEF Sane, Leader
<1>1. CASE l.restart = "overdue"
  <2>1. m = [l EXCEPT !.failed = TRUE, !.stalled = FALSE]
    BY <1>1 DEF Consume
  <2>2. m \in Leader
    BY <2>1 DEF Sane, Leader
  <2> QED BY <1>1, <2>1, <2>2 DEF Sane, Leader, Kept, Clutch, Tracked
<1>2. CASE l.restart = "broken"
  <2>1. m = [l EXCEPT !.restart = "idle", !.failed = TRUE, !.stalled = FALSE]
    BY <1>2 DEF Consume
  <2>2. m \in Leader
    BY <2>1 DEF Sane, Leader
  <2> QED BY <1>2, <2>1, <2>2 DEF Sane, Leader, Kept, Clutch, Tracked
<1>3. CASE l.restart = "done"
  <2>1. m = [l EXCEPT !.restart = "idle", !.failed = FALSE, !.stalled = FALSE,
                      !.seen = {}, !.last_fresh = "none", !.last_valid = None,
                      !.pending = 0, !.recovery = NoSamples, !.recovery_ready = FALSE]
    BY <1>3 DEF Consume
  <2>2. m \in Leader
    BY <2>1, NoSamplesType DEF Sane, Leader
  <2>3. m.pending = 0 /\ m.recovery = NoSamples
    BY <2>1 DEF Sane, Leader
  <2> QED BY <1>3, <2>1, <2>2, <2>3, NoSamplesType DEF Sane, Leader, Kept, Clutch
<1>4. CASE l.restart \in {"idle", "running"}
  BY <1>4 DEF Consume, Kept, Clutch, Tracked
<1> QED BY <1>0, <1>1, <1>2, <1>3, <1>4

\* A restart begins only when nothing has been decoded for seconds.
LEMMA MaybeRestartFacts ==
  ASSUME NEW l, Sane(l), NEW t \in Tracker, NEW raw \in BOOLEAN,
         NEW m \in MaybeRestart(l, t, raw)
  PROVE  /\ Sane(m) /\ Kept(l, m) /\ Clutch(l, m) /\ Tracked(l, m)
         /\ m.recovery_ready = l.recovery_ready /\ m.failed = l.failed
         /\ m.readiness = l.readiness
         /\ \/ m.restart = l.restart
            \/ /\ m.restart = "running" /\ ~l.failed /\ t.fix.context < MaxContext
               /\ t.decoded = "silent" /\ l.last_fresh \in {"none", "ancient"}
<1>1. CASE m = IF l.failed THEN l ELSE [l EXCEPT !.stalled = raw]
  <2>1. CASE l.failed
    BY <1>1, <2>1 DEF Kept, Clutch, Tracked
  <2>2. CASE ~l.failed
    <3>1. m = [l EXCEPT !.stalled = raw]
      BY <1>1, <2>2
    <3>2. m \in Leader
      BY <3>1 DEF Sane, Leader
    <3> QED BY <3>1, <3>2 DEF Sane, Leader, Kept, Clutch, Tracked
  <2> QED BY <2>1, <2>2
<1>2. CASE m = [l EXCEPT !.stalled = FALSE, !.restart = "running"] /\ Restartable(l, t, raw)
  <2>1. m \in Leader
    BY <1>2 DEF Sane, Leader
  <2> QED BY <1>2, <2>1 DEF Sane, Leader, Kept, Clutch, Tracked, Restartable
<1> QED BY <1>1, <1>2 DEF MaybeRestart

\* Readiness refreshes the baseline with a sweep that it has not seen.
Refreshed(l, m) ==
  /\ m.last_valid = l.last_valid /\ m.seen = l.seen \cup {"readiness"}
  /\ m.last_fresh = IF "readiness" \in l.seen THEN l.last_fresh ELSE "recent"

LEMMA GateFacts ==
  ASSUME NEW l, Sane(l), NEW t \in Tracker, NEW m \in Gate(l, t)
  PROVE  /\ Sane(m) /\ Kept(l, m) /\ Clutch(l, m) /\ Tracked(l, m)
         /\ m.recovery_ready = l.recovery_ready /\ m.failed = l.failed
         /\ m.restart = l.restart
         /\ m.readiness = "ready" => Readable(t)
<1>1. PICK r \in {"waiting", "ready", "fault"} :
        m = [l EXCEPT !.readiness = r] /\ (r = "ready" => Readable(t))
  BY DEF Gate
<1>2. m \in Leader
  BY <1>1 DEF Sane, Leader
<1> QED BY <1>1, <1>2 DEF Sane, Leader, Kept, Clutch, Tracked

LEMMA WatchFacts ==
  ASSUME NEW l, Sane(l), l.restart = "idle", NEW t \in Tracker,
         l.readiness = "ready" => Readable(t), NEW m \in Watch(l, t)
  PROVE  /\ Sane(m) /\ Kept(l, m) /\ Clutch(l, m)
         /\ m.recovery_ready = l.recovery_ready /\ m.failed = l.failed
         /\ m.readiness = "ready" => m.restart = "idle" /\ ~m.failed /\ Readable(t)
         /\ IF ~l.failed /\ Readable(t) THEN m.restart = "idle" /\ Refreshed(l, m)
            ELSE Tracked(l, m)
         /\ \/ m.restart = "idle"
            \/ /\ m.restart = "running" /\ t.fix.context < MaxContext
               /\ t.decoded = "silent" /\ l.last_fresh \in {"none", "ancient"}
<1>1. CASE l.failed
  <2>1. m = [l EXCEPT !.readiness = "fault"]
    BY <1>1 DEF Watch
  <2>2. m \in Leader
    BY <2>1 DEF Sane, Leader
  <2> QED BY <1>1, <2>1, <2>2 DEF Sane, Leader, Kept, Clutch, Tracked
<1>2. CASE ~l.failed /\ Readable(t)
  <2>1. PICK f \in {"none", "recent", "old", "ancient"} :
          /\ f = IF "readiness" \in l.seen THEN l.last_fresh ELSE "recent"
          /\ m = [l EXCEPT !.stalled = FALSE, !.seen = @ \cup {"readiness"},
                           !.last_fresh = f]
    BY <1>2 DEF Watch, Sane, Leader
  <2>2. m \in Leader
    BY <2>1 DEF Sane, Leader
  <2>3. m.seen = l.seen \cup {"readiness"} /\ m.last_fresh = f
    BY <2>1 DEF Sane, Leader
  <2> QED
    BY <1>2, <2>1, <2>2, <2>3 DEF Sane, Leader, Kept, Clutch, Refreshed
<1>3. CASE ~l.failed /\ ~Readable(t)
  <2>0. PICK raw \in BOOLEAN : \E k \in MaybeRestart(l, t, raw) :
          m = IF k.restart = "running" THEN [k EXCEPT !.readiness = "waiting"] ELSE k
    BY <1>3 DEF Watch
  <2>1. PICK k \in MaybeRestart(l, t, raw) :
          m = IF k.restart = "running" THEN [k EXCEPT !.readiness = "waiting"] ELSE k
    BY <2>0
  <2>2. /\ Sane(k) /\ Kept(l, k) /\ Clutch(l, k) /\ Tracked(l, k)
        /\ k.recovery_ready = l.recovery_ready /\ k.failed = l.failed
        /\ k.readiness = l.readiness
        /\ \/ k.restart = "idle"
           \/ /\ k.restart = "running" /\ t.fix.context < MaxContext
              /\ t.decoded = "silent" /\ l.last_fresh \in {"none", "ancient"}
    BY MaybeRestartFacts
  <2>3. CASE k.restart = "running"
    <3>1. m = [k EXCEPT !.readiness = "waiting"]
      BY <2>1, <2>3
    <3>2. m \in Leader
      BY <2>2, <3>1 DEF Sane, Leader
    <3>3. /\ Sane(m) /\ Kept(k, m) /\ Clutch(k, m) /\ Tracked(k, m)
          /\ m.recovery_ready = k.recovery_ready /\ m.failed = k.failed
          /\ m.readiness = "waiting" /\ m.restart = k.restart
      BY <2>2, <3>1, <3>2 DEF Sane, Leader, Kept, Clutch, Tracked
    <3> QED BY <1>3, <2>2, <3>3 DEF Kept, Clutch, Tracked
  <2>4. CASE k.restart # "running"
    BY <1>3, <2>1, <2>2, <2>4
  <2> QED BY <2>3, <2>4
<1> QED BY <1>1, <1>2, <1>3

\* _update_tracking_readiness: the result of a restart, then the sample.
LEMMA UpdateFacts ==
  ASSUME NEW l, Sane(l), NEW t \in Tracker, NEW u \in Update(l, t)
  PROVE  /\ Sane(u) /\ Kept(l, u) /\ Clutch(l, u)
         /\ u.restart \in {"idle", "running", "overdue"}
         /\ u.readiness = "ready" => u.restart = "idle" /\ ~u.failed /\ Readable(t)
         /\ u.restart = "idle" \/ u.restart = l.restart \/ t.fix.context < MaxContext
         /\ l.restart = "done" =>
              /\ u.last_valid = None /\ ~u.recovery_ready
              /\ u.seen \subseteq {"readiness"}
              /\ "readiness" \in u.seen => u.last_fresh = "recent"
         /\ l.restart # "done" =>
              /\ u.recovery_ready = l.recovery_ready /\ u.last_valid = l.last_valid
              /\ Tracked(l, u) \/ (Refreshed(l, u) /\ Readable(t))
         /\ l.restart = "idle" =>
              /\ u.failed = l.failed
              /\ ~l.failed /\ Readable(t) => u.restart = "idle" /\ Refreshed(l, u)
              /\ l.last_fresh \in {"recent", "old"} => u.restart = "idle"
<1>1. PICK c : c = Consume(l)
  OBVIOUS
<1>2. /\ Sane(c) /\ Kept(l, c) /\ Clutch(l, c)
      /\ c.restart = IF l.restart \in {"done", "broken"} THEN "idle" ELSE l.restart
      /\ l.restart = "idle" => c.failed = l.failed
      /\ l.restart = "done" =>
           /\ c.seen = {} /\ c.last_fresh = "none" /\ c.last_valid = None
           /\ ~c.recovery_ready
      /\ l.restart # "done" => Tracked(l, c) /\ c.recovery_ready = l.recovery_ready
  BY <1>1, ConsumeFacts
<1>3. l.restart \in {"idle", "running", "overdue", "done", "broken"}
  BY DEF Sane, Leader
<1>4. CASE c.restart # "idle"
  <2>1. PICK r \in {"fault", "waiting"} : u = [c EXCEPT !.readiness = r]
    BY <1>1, <1>4 DEF Update
  <2>2. u \in Leader
    BY <1>2, <2>1 DEF Sane, Leader
  <2>3. /\ Sane(u) /\ Kept(c, u) /\ Clutch(c, u) /\ Tracked(c, u)
        /\ u.recovery_ready = c.recovery_ready /\ u.restart = c.restart
        /\ u.readiness # "ready"
    BY <1>2, <2>1, <2>2 DEF Sane, Leader, Kept, Clutch, Tracked
  <2> QED BY <1>2, <1>3, <1>4, <2>3 DEF Kept, Clutch, Tracked
<1>5. CASE c.restart = "idle"
  <2>1. PICK g \in Gate(c, t) : u \in Watch(g, t)
    BY <1>1, <1>5 DEF Update
  <2>2. /\ Sane(g) /\ Kept(c, g) /\ Clutch(c, g) /\ Tracked(c, g)
        /\ g.recovery_ready = c.recovery_ready /\ g.failed = c.failed
        /\ g.restart = "idle" /\ (g.readiness = "ready" => Readable(t))
    BY <1>2, <1>5, <2>1, GateFacts
  <2>3. /\ Sane(u) /\ Kept(g, u) /\ Clutch(g, u)
        /\ u.recovery_ready = g.recovery_ready /\ u.failed = g.failed
        /\ u.readiness = "ready" => u.restart = "idle" /\ ~u.failed /\ Readable(t)
        /\ IF ~g.failed /\ Readable(t) THEN u.restart = "idle" /\ Refreshed(g, u)
           ELSE Tracked(g, u)
        /\ \/ u.restart = "idle"
           \/ /\ u.restart = "running" /\ t.fix.context < MaxContext
              /\ t.decoded = "silent" /\ g.last_fresh \in {"none", "ancient"}
    BY <2>1, <2>2, WatchFacts
  <2>4. Kept(l, u) /\ Clutch(l, u)
    BY <1>2, <2>2, <2>3 DEF Kept, Clutch
  <2>5. /\ u.last_valid = c.last_valid
        /\ Tracked(c, u) \/ (Refreshed(c, u) /\ Readable(t))
        /\ ~c.failed /\ Readable(t) => Refreshed(c, u)
    BY <2>2, <2>3 DEF Tracked, Refreshed
  <2>6. l.restart = "done" =>
          /\ u.last_valid = None /\ ~u.recovery_ready
          /\ u.seen \subseteq {"readiness"}
          /\ "readiness" \in u.seen => u.last_fresh = "recent"
    BY <1>2, <2>2, <2>3, <2>5 DEF Tracked, Refreshed
  <2>7. l.restart # "done" =>
          /\ u.recovery_ready = l.recovery_ready /\ u.last_valid = l.last_valid
          /\ Tracked(l, u) \/ (Refreshed(l, u) /\ Readable(t))
          /\ Refreshed(c, u) => Refreshed(l, u)
    BY <1>2, <2>2, <2>3, <2>5 DEF Tracked, Refreshed
  <2>8. l.restart = "idle" =>
          /\ u.failed = l.failed
          /\ ~l.failed /\ Readable(t) => u.restart = "idle" /\ Refreshed(l, u)
          /\ l.last_fresh \in {"recent", "old"} => u.restart = "idle"
    BY <1>2, <2>2, <2>3, <2>5, <2>7 DEF Tracked
  <2> QED BY <2>3, <2>4, <2>6, <2>7, <2>8
<1> QED BY <1>4, <1>5

-----------------------------------------------------------------------------
(* The runtime checks: the reference is lost, or a pose is used.             *)

All == {"runtime", "readiness"}

\* No pose: a reference is required, and only a recovery that is still fresh
\* can have enough samples.
Lost(l, t, o) ==
  /\ o.fix = None /\ o.l.reference_required
  /\ o.l.clutched => l.reference_required /\ l.clutched
  /\ o.l.recovery_ready =>
       o.l.last_fresh = "recent" /\ o.l.seen = All /\ o.l.restart = "idle"
  /\ o.l.restart = "idle" \/ (o.l.restart = "running" /\ t.fix.context < MaxContext)
  /\ \/ o.l.seen = l.seen /\ o.l.last_fresh = l.last_fresh
     \/ o.l.seen = All /\ o.l.last_fresh = "recent"

\* A pose: there was no gap since the last one, and it is not far from it.
Used(l, t, o) ==
  /\ o.fix = o.l.last_valid /\ Clutch(l, o.l)
  /\ o.l.restart = "idle" /\ o.l.recovery_ready = l.recovery_ready
  /\ l.last_fresh \notin {"old", "ancient"} /\ o.l.last_fresh = "recent"
  /\ o.l.seen = All \/ (o.l.seen = l.seen /\ (t.found => "runtime" \in l.seen)
                          /\ l.last_fresh = "recent")
  /\ t.found => t.decoded = "fresh"
  /\ Following(l) /\ l.last_valid # None =>
       /\ o.fix # None
       /\ Distance(o.fix.pose, l.last_valid.pose) <= Absolute

Outcome(l, t, o) ==
  /\ Sane(o.l) /\ o.fix \in Fix \cup {None}
  /\ Kept(l, o.l) /\ o.l.failed = l.failed
  /\ o.l.last_valid \in {l.last_valid, t.fix}
  /\ Lost(l, t, o) \/ Used(l, t, o)

LEMMA AcceptFacts ==
  ASSUME NEW l, Sane(l), NEW fix \in Fix, NEW o, o = Accept(l, fix)
  PROVE  /\ Sane(o.l) /\ o.fix = fix /\ o.l.last_valid = fix
         /\ Kept(l, o.l) /\ Clutch(l, o.l) /\ o.l.failed = l.failed
         /\ o.l.seen = l.seen /\ o.l.last_fresh = l.last_fresh
         /\ o.l.restart = l.restart /\ o.l.recovery_ready = l.recovery_ready
<1>1. PICK m : m = [l EXCEPT !.last_valid = fix, !.pending = 0]
  OBVIOUS
<1>2. o.l = m /\ o.fix = fix
  BY <1>1 DEF Accept
<1>3. m \in Leader
  BY <1>1, NoSamplesType DEF Sane, Leader
<1>4. /\ m.last_valid = fix /\ m.pending = 0 /\ Kept(l, m) /\ Clutch(l, m)
      /\ m.failed = l.failed /\ m.seen = l.seen /\ m.last_fresh = l.last_fresh
      /\ m.restart = l.restart /\ m.recovery_ready = l.recovery_ready
      /\ m.recovery = l.recovery
  BY <1>1 DEF Sane, Leader, Kept, Clutch
<1> QED BY <1>2, <1>3, <1>4, NoSamplesType DEF Sane

LEMMA LoseFacts ==
  ASSUME NEW l, Sane(l), NEW fix \in Fix, NEW o, o = Lose(l, fix)
  PROVE  /\ Sane(o.l) /\ o.fix = None /\ Kept(l, o.l) /\ Tracked(l, o.l)
         /\ o.l.reference_required /\ ~o.l.clutched
         /\ o.l.restart = l.restart /\ o.l.failed = l.failed
<1>1. PICK m : m = Require(l)
  OBVIOUS
<1>2. PICK r : r = Recover(m, fix)
  OBVIOUS
<1>3. /\ Sane(m) /\ Kept(l, m) /\ Tracked(l, m)
      /\ m.reference_required /\ ~m.clutched
      /\ m.restart = l.restart /\ m.failed = l.failed
  BY <1>1, RequireFacts
<1>4. /\ Sane(r) /\ Kept(m, r) /\ Tracked(m, r) /\ Clutch(m, r)
      /\ r.restart = m.restart /\ r.failed = m.failed
  BY <1>2, <1>3, RecoverFacts
<1>5. o.l = r /\ o.fix = None
  BY <1>1, <1>2 DEF Lose
<1> QED BY <1>3, <1>4, <1>5 DEF Kept, Tracked, Clutch

\* Following, a sample is accepted, quarantined or ends the reference.
LEMMA MoveFacts ==
  ASSUME NEW l, Sane(l), l.last_valid # None, NEW fix \in Fix, NEW o \in Move(l, fix)
  PROVE  /\ Sane(o.l) /\ o.fix \in Fix \cup {None}
         /\ Kept(l, o.l) /\ o.l.failed = l.failed
         /\ o.l.seen = l.seen /\ o.l.last_fresh = l.last_fresh
         /\ o.l.restart = l.restart
         /\ o.l.last_valid \in {l.last_valid, fix}
         /\ \/ o.fix = None /\ o.l.reference_required /\ ~o.l.clutched
            \/ /\ o.fix = o.l.last_valid /\ o.fix # None /\ Clutch(l, o.l)
               /\ o.l.recovery_ready = l.recovery_ready
               /\ Distance(o.fix.pose, l.last_valid.pose) <= Absolute
<1> DEFINE moved == Distance(fix.pose, l.last_valid.pose)
<1>1. l.last_valid \in Fix
  BY DEF Sane, Leader
<1>2. /\ moved \in Int /\ Distance(l.last_valid.pose, l.last_valid.pose) = 0
      /\ 0 <= Absolute /\ (moved <= Soft => moved <= Absolute)
  BY <1>1, PikaAssumption DEF Distance, Fix, Position
<1>3. CASE o = Accept(l, fix) /\ moved <= Absolute
  BY <1>3, AcceptFacts, PikaAssumption DEF Fix
<1>4. CASE o = Lose(l, fix)
  BY <1>4, LoseFacts DEF Tracked
<1>5. CASE o = [l |-> [l EXCEPT !.pending = @ + 1], fix |-> l.last_valid]
           /\ l.pending + 1 # Confirm
  <2>1. PICK n \in 0 .. Confirm : n = l.pending + 1 /\ n < Confirm
    BY <1>5, PikaAssumption DEF Sane, Leader
  <2>2. PICK m : m = [l EXCEPT !.pending = n]
    OBVIOUS
  <2>3. o.l = m /\ o.fix = l.last_valid
    BY <1>5, <2>1, <2>2
  <2>4. m \in Leader
    BY <2>2 DEF Sane, Leader
  <2>5. /\ m.pending = n /\ Kept(l, m) /\ Clutch(l, m) /\ Tracked(l, m)
        /\ m.failed = l.failed /\ m.restart = l.restart
        /\ m.recovery_ready = l.recovery_ready /\ m.recovery = l.recovery
    BY <2>2 DEF Sane, Leader, Kept, Clutch, Tracked
  <2> QED BY <1>1, <1>2, <2>1, <2>3, <2>4, <2>5 DEF Sane, Tracked
<1>6. \/ o = Lose(l, fix)
      \/ o = Accept(l, fix) /\ moved <= Absolute
      \/ o = [l |-> [l EXCEPT !.pending = @ + 1], fix |-> l.last_valid]
         /\ l.pending + 1 # Confirm
  <2>1. CASE moved > Absolute
    BY <2>1 DEF Move
  <2>2. CASE ~(moved > Absolute) /\ moved <= Soft
    BY <1>2, <2>2 DEF Move
  <2>3. CASE ~(moved > Absolute) /\ ~(moved <= Soft)
    <3>1. moved <= Absolute
      BY <1>2, <2>3, PikaAssumption
    <3>2. \/ o \in {a \in {Accept(l, fix)} : l.pending > 0}
          \/ o = IF l.pending + 1 = Confirm THEN Lose(l, fix)
                 ELSE [l |-> [l EXCEPT !.pending = @ + 1], fix |-> l.last_valid]
      BY <2>3 DEF Move
    <3> QED BY <3>1, <3>2
  <2> QED BY <2>1, <2>2, <2>3
<1> QED BY <1>3, <1>4, <1>5, <1>6

LEMMA TakeFacts ==
  ASSUME NEW l, Sane(l), l.restart = "idle", NEW t \in Tracker, NewOptical(l, t),
         NEW o \in Take(l, t.fix)
  PROVE  Outcome(l, t, o)
<1> DEFINE fix == t.fix
<1>0. fix \in Fix /\ fix # None
  BY PikaAssumption DEF Tracker
<1>1. PICK a : a = [l EXCEPT !.seen = {"runtime", "readiness"}, !.last_fresh = "recent",
                             !.stalled = FALSE]
  OBVIOUS
<1>2. a \in Leader
  BY <1>1 DEF Sane, Leader
<1>3. /\ Sane(a) /\ Kept(l, a) /\ Clutch(l, a) /\ a.failed = l.failed
      /\ a.seen = All /\ a.last_fresh = "recent" /\ a.restart = "idle"
      /\ a.last_valid = l.last_valid /\ a.recovery_ready = l.recovery_ready
  BY <1>1, <1>2 DEF Sane, Leader, Kept, Clutch, All
<1>4. PICK b : b = IF l.last_fresh \in {"old", "ancient"} THEN Require(a) ELSE a
  OBVIOUS
<1>5. /\ Sane(b) /\ Kept(l, b) /\ b.failed = l.failed
      /\ b.seen = All /\ b.last_fresh = "recent" /\ b.restart = "idle"
      /\ b.last_valid = l.last_valid
      /\ IF l.last_fresh \in {"old", "ancient"}
         THEN b.reference_required /\ ~b.clutched
         ELSE Clutch(l, b) /\ b.recovery_ready = l.recovery_ready
  <2>1. CASE l.last_fresh \in {"old", "ancient"}
    BY <1>3, <1>4, <2>1, RequireFacts DEF Kept, Tracked
  <2>2. CASE l.last_fresh \notin {"old", "ancient"}
    BY <1>3, <1>4, <2>2
  <2> QED BY <2>1, <2>2
<1>6. CASE b.reference_required
  <2>1. PICK d : d = [b EXCEPT !.last_valid = fix]
    OBVIOUS
  <2>2. d \in Leader
    BY <1>0, <1>5, <2>1 DEF Sane, Leader
  <2>3. /\ Sane(d) /\ Kept(b, d) /\ Clutch(b, d) /\ d.failed = b.failed
        /\ d.seen = b.seen /\ d.last_fresh = b.last_fresh /\ d.restart = b.restart
        /\ d.last_valid = fix
    BY <1>5, <2>1, <2>2 DEF Sane, Leader, Kept, Clutch
  <2>4. PICK r : r = Recover(d, fix)
    OBVIOUS
  <2>5. /\ Sane(r) /\ Kept(d, r) /\ Tracked(d, r) /\ Clutch(d, r)
        /\ r.restart = d.restart /\ r.failed = d.failed
    BY <1>0, <2>3, <2>4, RecoverFacts
  <2>6. o.l = r /\ o.fix = None
    BY <1>1, <1>4, <1>6, <2>1, <2>4 DEF Take
  <2>7. Sane(r) /\ Kept(l, r) /\ r.failed = l.failed /\ r.last_valid = fix
    BY <1>5, <2>3, <2>5 DEF Kept, Tracked
  <2>8. Lost(l, t, o)
    BY <1>5, <1>6, <2>3, <2>5, <2>6 DEF Lost, Clutch, Tracked
  <2> QED BY <2>6, <2>7, <2>8 DEF Outcome
<1>7. CASE ~b.reference_required
  <2>1. /\ l.last_fresh \notin {"old", "ancient"} /\ Clutch(l, b)
        /\ b.recovery_ready = l.recovery_ready /\ (Following(b) <=> Following(l))
    BY <1>5, <1>7 DEF Clutch, Following
  <2>2. t.found /\ t.decoded = "fresh"
    BY DEF NewOptical
  <2>3. CASE b.last_valid # None /\ Following(b)
    <3>1. o \in Move(b, fix)
      BY <1>1, <1>4, <1>7, <2>3 DEF Take
    <3>2. /\ Sane(o.l) /\ o.fix \in Fix \cup {None}
          /\ Kept(b, o.l) /\ o.l.failed = b.failed
          /\ o.l.seen = b.seen /\ o.l.last_fresh = b.last_fresh
          /\ o.l.restart = b.restart
          /\ o.l.last_valid \in {b.last_valid, fix}
          /\ \/ o.fix = None /\ o.l.reference_required /\ ~o.l.clutched
             \/ /\ o.fix = o.l.last_valid /\ o.fix # None /\ Clutch(b, o.l)
                /\ o.l.recovery_ready = b.recovery_ready
                /\ Distance(o.fix.pose, b.last_valid.pose) <= Absolute
      BY <1>0, <1>5, <2>3, <3>1, MoveFacts
    <3>3. Kept(l, o.l) /\ o.l.failed = l.failed /\ o.l.last_valid \in {l.last_valid, t.fix}
      BY <1>5, <3>2 DEF Kept
    <3>4. CASE o.fix = None /\ o.l.reference_required /\ ~o.l.clutched
      <4>1. Lost(l, t, o)
        BY <1>5, <3>2, <3>4 DEF Lost
      <4> QED BY <3>2, <3>3, <4>1 DEF Outcome
    <3>5. CASE /\ o.fix = o.l.last_valid /\ o.fix # None /\ Clutch(b, o.l)
               /\ o.l.recovery_ready = b.recovery_ready
               /\ Distance(o.fix.pose, b.last_valid.pose) <= Absolute
      <4>1. Used(l, t, o)
        BY <1>5, <2>1, <2>2, <3>2, <3>5 DEF Used, Clutch
      <4> QED BY <3>2, <3>3, <4>1 DEF Outcome
    <3> QED BY <3>2, <3>4, <3>5
  <2>4. CASE ~(b.last_valid # None /\ Following(b))
    <3>1. o = Accept(b, fix)
      BY <1>1, <1>4, <1>7, <2>4 DEF Take
    <3>2. /\ Sane(o.l) /\ o.fix = fix /\ o.l.last_valid = fix
          /\ Kept(b, o.l) /\ Clutch(b, o.l) /\ o.l.failed = b.failed
          /\ o.l.seen = b.seen /\ o.l.last_fresh = b.last_fresh
          /\ o.l.restart = b.restart /\ o.l.recovery_ready = b.recovery_ready
      BY <1>0, <1>5, <3>1, AcceptFacts
    <3>3. Kept(l, o.l) /\ o.l.failed = l.failed
      BY <1>5, <3>2 DEF Kept
    <3>4. Used(l, t, o)
      BY <1>5, <2>1, <2>2, <2>4, <3>2 DEF Used, Clutch
    <3> QED BY <1>0, <3>2, <3>3, <3>4 DEF Outcome
  <2> QED BY <2>3, <2>4
<1> QED BY <1>6, <1>7

LEMMA HoldFacts ==
  ASSUME NEW l, Sane(l), l.restart = "idle", NEW t \in Tracker, ~NewOptical(l, t),
         NEW o \in Hold(l, t)
  PROVE  Outcome(l, t, o)
<1>1. PICK h : h = IF Stale(l, t) THEN Require(l) ELSE l
  OBVIOUS
<1>2. /\ Sane(h) /\ Kept(l, h) /\ Tracked(l, h) /\ h.failed = l.failed
      /\ h.restart = "idle"
      /\ IF Stale(l, t) THEN h.reference_required /\ ~h.clutched /\ ~h.recovery_ready
         ELSE h = l
  BY <1>1, RequireFacts DEF Kept, Tracked
<1>3. /\ o.fix = IF Stale(l, t) THEN None ELSE l.last_valid
      /\ \/ o.l = h
         \/ o.l = [h EXCEPT !.stalled = FALSE]
         \/ \E raw \in BOOLEAN : o.l \in MaybeRestart(h, t, raw)
  <2> DEFINE lit == IF ~h.reference_required THEN {h}
                    ELSE IF h.failed THEN {[h EXCEPT !.stalled = FALSE]}
                    ELSE MaybeRestart(h, t, TRUE)
             dark == {[h EXCEPT !.stalled = FALSE]} \cup
                     (IF h.reference_required /\ h.last_valid # None
                      THEN MaybeRestart(h, t, FALSE) ELSE {})
  <2>1. PICK m \in dark \cup (IF t.found THEN lit ELSE {}) :
          o = [l |-> m, fix |-> IF Stale(l, t) THEN None ELSE l.last_valid]
    BY <1>1, Zenon DEF Hold
  <2>2. o.l = m /\ o.fix = IF Stale(l, t) THEN None ELSE l.last_valid
    BY <2>1
  <2>3. \/ m = h
        \/ m = [h EXCEPT !.stalled = FALSE]
        \/ \E raw \in BOOLEAN : m \in MaybeRestart(h, t, raw)
    OBVIOUS
  <2> QED BY <2>2, <2>3
<1>4. /\ Sane(o.l) /\ Kept(h, o.l) /\ Clutch(h, o.l) /\ Tracked(h, o.l)
      /\ o.l.recovery_ready = h.recovery_ready /\ o.l.failed = h.failed
      /\ \/ o.l.restart = "idle"
         \/ /\ o.l.restart = "running" /\ t.fix.context < MaxContext
            /\ h.last_fresh \in {"none", "ancient"}
  <2>1. CASE o.l = h
    BY <1>2, <2>1 DEF Kept, Clutch, Tracked
  <2>2. CASE o.l = [h EXCEPT !.stalled = FALSE]
    <3>1. o.l \in Leader
      BY <1>2, <2>2 DEF Sane, Leader
    <3> QED BY <1>2, <2>2, <3>1 DEF Sane, Leader, Kept, Clutch, Tracked
  <2>3. ASSUME NEW raw \in BOOLEAN, o.l \in MaybeRestart(h, t, raw)
        PROVE  /\ Sane(o.l) /\ Kept(h, o.l) /\ Clutch(h, o.l) /\ Tracked(h, o.l)
               /\ o.l.recovery_ready = h.recovery_ready /\ o.l.failed = h.failed
               /\ \/ o.l.restart = "idle"
                  \/ /\ o.l.restart = "running" /\ t.fix.context < MaxContext
                     /\ h.last_fresh \in {"none", "ancient"}
    BY <1>2, <2>3, MaybeRestartFacts
  <2> QED BY <1>3, <2>1, <2>2, <2>3
<1>5. Kept(l, o.l) /\ Tracked(l, o.l) /\ o.l.failed = l.failed
  BY <1>2, <1>4 DEF Kept, Tracked
<1>6. CASE Stale(l, t)
  <2>1. Lost(l, t, o)
    BY <1>2, <1>3, <1>4, <1>5, <1>6 DEF Lost, Clutch, Tracked
  <2> QED BY <1>3, <1>4, <1>5, <1>6, <2>1 DEF Outcome, Tracked
<1>7. CASE ~Stale(l, t)
  <2>1. l.last_fresh = "recent" /\ (t.found => t.decoded = "fresh" /\ "runtime" \in l.seen)
    BY <1>7 DEF Stale, NewOptical
  <2>2. l.last_valid \in Fix \cup {None}
    BY DEF Sane, Leader
  <2>3. l.last_valid # None => Distance(l.last_valid.pose, l.last_valid.pose) <= Absolute
    BY <2>2, PikaAssumption DEF Distance, Fix, Position
  <2>4. Used(l, t, o)
    BY <1>2, <1>3, <1>4, <1>5, <1>7, <2>1, <2>3 DEF Used, Clutch, Tracked
  <2> QED BY <1>3, <1>4, <1>5, <1>7, <2>2, <2>4 DEF Outcome, Tracked
<1> QED BY <1>6, <1>7

\* While the decoder restarts nothing is read; else the reference is lost or a
\* pose is used.
LEMMA RuntimeFacts ==
  ASSUME NEW l, Sane(l), NEW t \in Tracker, NEW o \in RuntimePose(l, t)
  PROVE  IF l.restart # "idle" THEN o.l = l /\ o.fix = None ELSE Outcome(l, t, o)
<1>1. CASE l.restart # "idle"
  BY <1>1 DEF RuntimePose
<1>2. CASE l.restart = "idle" /\ NewOptical(l, t)
  BY <1>2, TakeFacts DEF RuntimePose
<1>3. CASE l.restart = "idle" /\ ~NewOptical(l, t)
  BY <1>3, HoldFacts DEF RuntimePose
<1> QED BY <1>1, <1>2, <1>3

LEMMA RuntimeRecord ==
  ASSUME NEW l, NEW t, NEW o \in RuntimePose(l, t)
  PROVE  o = [l |-> o.l, fix |-> o.fix]
<1>1. ASSUME NEW k, NEW fix, NEW p \in Move(k, fix) PROVE p = [l |-> p.l, fix |-> p.fix]
  <2>1. \E m, x : p = [l |-> m, fix |-> x]
    BY <1>1 DEF Move, Accept, Lose
  <2> QED BY <2>1
<1>2. \E m, x : o = [l |-> m, fix |-> x]
  <2>1. CASE l.restart # "idle"
    BY <2>1 DEF RuntimePose
  <2>2. CASE l.restart = "idle" /\ NewOptical(l, t)
    <3>1. o \in Take(l, t.fix)
      BY <2>2 DEF RuntimePose
    <3>2. \/ \E m, x : o = [l |-> m, fix |-> x]
          \/ \E k : o \in Move(k, t.fix)
      BY <3>1 DEF Take, Accept
    <3> QED BY <1>1, <3>2
  <2>3. CASE l.restart = "idle" /\ ~NewOptical(l, t)
    BY <2>3 DEF RuntimePose, Hold
  <2> QED BY <2>1, <2>2, <2>3
<1> QED BY <1>2

-----------------------------------------------------------------------------
(* _compute_action.                                                          *)

\* A squeeze, or none.  It never makes the leader follow: that is for the
\* segment that a confirmed or engaged clutch begins.
Pressed(o, s) ==
  /\ Sane(s.l) /\ s.fix \in Fix \cup {None}
  /\ Kept(o.l, s.l) /\ Tracked(o.l, s.l)
  /\ s.l.restart = o.l.restart /\ s.l.failed = o.l.failed
  /\ s.l.recovery_ready => o.l.recovery_ready
  /\ s.l.reference_required /\ s.l.clutched => o.l.reference_required /\ o.l.clutched
  /\ Following(s.l) => Clutch(o.l, s.l)
  /\ \/ s.fix = o.fix
     \/ o.l.recovery_ready /\ s.fix = o.l.last_valid /\ s.l.pending_relatch

LEMMA PressedFacts ==
  ASSUME NEW o, o = [l |-> o.l, fix |-> o.fix], Sane(o.l), o.fix \in Fix \cup {None},
         NEW squeeze \in BOOLEAN, NEW s, s = IF squeeze THEN Squeezed(o) ELSE o
  PROVE  Pressed(o, s) /\ s = [l |-> s.l, fix |-> s.fix]
<1>0. o.l \in Leader /\ DOMAIN o.l = DOMAIN [o.l EXCEPT !.clutched = FALSE]
  BY DEF Sane
<1>1. CASE ~squeeze
  BY <1>1 DEF Pressed, Kept, Tracked, Clutch
<1>2. CASE squeeze /\ ~o.l.reference_required
  <2>1. PICK m : m = [o.l EXCEPT !.clutched = ~@,
                                 !.pending_relatch = IF o.l.clutched THEN @ ELSE TRUE]
    OBVIOUS
  <2>2. s = [o EXCEPT !.l = m]
    BY <1>2, <2>1 DEF Squeezed
  <2>3. s = [l |-> m, fix |-> o.fix] /\ s.l = m /\ s.fix = o.fix
    BY <2>2
  <2>4. m \in Leader
    <3>1. o.l.clutched \in BOOLEAN /\ o.l.pending_relatch \in BOOLEAN
      BY <1>0 DEF Leader
    <3>2. CASE o.l.clutched = TRUE
      <4>1. m = [o.l EXCEPT !.clutched = FALSE]
        BY <1>0, <2>1, <3>2 DEF Leader
      <4> QED BY <1>0, <4>1 DEF Leader
    <3>3. CASE o.l.clutched = FALSE
      <4>1. m = [o.l EXCEPT !.clutched = TRUE, !.pending_relatch = TRUE]
        BY <1>0, <2>1, <3>3 DEF Leader
      <4> QED BY <1>0, <4>1 DEF Leader
    <3> QED BY <3>1, <3>2, <3>3
  <2>5. /\ m.clutched = ~o.l.clutched /\ (~o.l.clutched => m.pending_relatch)
        /\ m.reference_required = o.l.reference_required
        /\ m.pending = o.l.pending /\ m.recovery = o.l.recovery
        /\ m.recovery_ready = o.l.recovery_ready
        /\ m.restart = o.l.restart /\ m.failed = o.l.failed
    BY <1>0, <2>1 DEF Leader
  <2>6. Kept(o.l, m) /\ Tracked(o.l, m)
    BY <1>0, <2>1 DEF Leader, Kept, Tracked
  <2> QED BY <1>2, <2>3, <2>4, <2>5, <2>6 DEF Pressed, Sane, Following
<1>3. CASE /\ squeeze /\ o.l.reference_required
           /\ ~(o.l.recovery_ready /\ o.l.last_valid # None)
  <2>1. PICK m : m = [o.l EXCEPT !.clutched = FALSE]
    OBVIOUS
  <2>2. s = [o EXCEPT !.l = m]
    BY <1>3, <2>1 DEF Squeezed
  <2>3. s = [l |-> m, fix |-> o.fix] /\ s.l = m /\ s.fix = o.fix
    BY <2>2
  <2>4. m \in Leader
    BY <1>0, <2>1 DEF Leader
  <2>5. /\ ~m.clutched /\ m.pending = o.l.pending /\ m.recovery = o.l.recovery
        /\ m.recovery_ready = o.l.recovery_ready
        /\ m.restart = o.l.restart /\ m.failed = o.l.failed
    BY <1>0, <2>1 DEF Leader
  <2>6. Kept(o.l, m) /\ Tracked(o.l, m)
    BY <1>0, <2>1 DEF Leader, Kept, Tracked
  <2> QED BY <2>3, <2>4, <2>5, <2>6 DEF Pressed, Sane, Following
<1>4. CASE /\ squeeze /\ o.l.reference_required
           /\ o.l.recovery_ready /\ o.l.last_valid # None
  <2>1. PICK m : m = IF o.l.mode.auto
                     THEN [o.l EXCEPT !.reference_required = FALSE,
                                  !.recovery_ready = FALSE, !.recovery = NoSamples,
                                  !.clutched = TRUE, !.pending_relatch = TRUE]
                     ELSE [o.l EXCEPT !.confirmation_pending = TRUE,
                                  !.clutched = FALSE, !.pending_relatch = TRUE]
    OBVIOUS
  <2>2. s = [fix |-> o.l.last_valid, l |-> m]
    BY <1>4, <2>1 DEF Squeezed
  <2>3. s.l = m /\ s.fix = o.l.last_valid /\ s = [l |-> s.l, fix |-> s.fix]
    BY <2>2
  <2>4. /\ m \in Leader /\ Kept(o.l, m) /\ Tracked(o.l, m)
        /\ m.pending_relatch /\ ~(m.reference_required /\ m.clutched)
        /\ m.pending = o.l.pending
        /\ m.restart = o.l.restart /\ m.failed = o.l.failed
        /\ m.recovery_ready \/ m.recovery.count < Recheck
    <3>1. CASE o.l.mode.auto
      <4>1. m = [o.l EXCEPT !.reference_required = FALSE,
                            !.recovery_ready = FALSE, !.recovery = NoSamples,
                            !.clutched = TRUE, !.pending_relatch = TRUE]
        BY <2>1, <3>1
      <4>2. m \in Leader
        BY <1>0, <4>1, NoSamplesType DEF Leader
      <4>3. m.recovery = NoSamples
        BY <1>0, <4>1 DEF Leader
      <4> QED BY <1>0, <4>1, <4>2, <4>3, NoSamplesType DEF Leader, Kept, Tracked
    <3>2. CASE ~o.l.mode.auto
      <4>1. m = [o.l EXCEPT !.confirmation_pending = TRUE,
                            !.clutched = FALSE, !.pending_relatch = TRUE]
        BY <2>1, <3>2
      <4>2. m \in Leader
        BY <1>0, <4>1 DEF Leader
      <4> QED BY <1>0, <1>4, <4>1, <4>2 DEF Leader, Kept, Tracked
    <3> QED BY <3>1, <3>2
  <2> QED BY <1>0, <1>4, <2>3, <2>4 DEF Pressed, Sane, Following, Leader
<1> QED BY <1>1, <1>2, <1>3, <1>4

\* The segment that begins, and the offset that is published.
Published(s, m) ==
  /\ Sane(m) /\ m.mode = s.l.mode /\ m.started = s.l.started /\ Tracked(s.l, m)
  /\ m.reference_required = s.l.reference_required /\ m.clutched = s.l.clutched
  /\ m.recovery_ready = s.l.recovery_ready
  /\ m.restart = s.l.restart /\ m.failed = s.l.failed
  /\ IF Relatches(s)
     THEN /\ m.t_begin = s.fix /\ m.base = s.l.published
          /\ m.published = s.l.published /\ ~m.pending_relatch /\ s.fix # None
          /\ s.l.clutched /\ s.l.pending_relatch
     ELSE /\ m.t_begin = s.l.t_begin /\ m.base = s.l.base
          /\ m.pending_relatch = s.l.pending_relatch
          /\ m.published =
               IF Following(s.l) /\ s.fix # None /\ s.l.t_begin # None
               THEN s.l.base + Delta(s.fix, s.l.t_begin) ELSE s.l.published

LEMMA PublishFacts ==
  ASSUME NEW s, s = [l |-> s.l, fix |-> s.fix], Sane(s.l), s.fix \in Fix \cup {None},
         NEW m, m = Publish(Relatch(s)), m.published \in Offset
  PROVE  Published(s, m)
<1>0. s.l \in Leader
  BY DEF Sane
<1>1. PICK r : r = Relatch(s)
  OBVIOUS
<1>2. /\ r.l \in Leader /\ r.fix = s.fix
      /\ r.l.mode = s.l.mode /\ r.l.started = s.l.started /\ Tracked(s.l, r.l)
      /\ r.l.reference_required = s.l.reference_required /\ r.l.clutched = s.l.clutched
      /\ r.l.recovery_ready = s.l.recovery_ready /\ r.l.recovery = s.l.recovery
      /\ r.l.pending = s.l.pending /\ r.l.published = s.l.published
      /\ r.l.restart = s.l.restart /\ r.l.failed = s.l.failed
      /\ IF Relatches(s)
         THEN r.l.t_begin = s.fix /\ r.l.base = s.l.published /\ ~r.l.pending_relatch
         ELSE r.l = s.l
  <2>1. CASE Relatches(s)
    <3>1. PICK k : k = [s.l EXCEPT !.t_begin = s.fix, !.base = s.l.published,
                                   !.pending_relatch = FALSE]
      OBVIOUS
    <3>2. r = [s EXCEPT !.l = k]
      BY <1>1, <2>1, <3>1 DEF Relatch
    <3>3. r.l = k /\ r.fix = s.fix
      BY <3>2
    <3>4. k \in Leader
      BY <1>0, <3>1 DEF Leader
    <3> QED BY <1>0, <2>1, <3>1, <3>3, <3>4 DEF Leader, Tracked
  <2>2. CASE ~Relatches(s)
    BY <1>0, <1>1, <2>2 DEF Relatch, Tracked
  <2> QED BY <2>1, <2>2
<1>3. CASE Following(r.l) /\ r.fix # None /\ r.l.t_begin # None
  <2>1. PICK p : p = r.l.base + Delta(r.fix, r.l.t_begin)
    OBVIOUS
  <2>2. m = [r.l EXCEPT !.published = p]
    BY <1>1, <1>3, <2>1 DEF Publish
  <2>3. m.published = p
    BY <1>2, <2>2 DEF Leader
  <2>4. p \in Offset
    BY <2>3
  <2>5. m \in Leader
    BY <1>2, <2>2, <2>4 DEF Leader
  <2>6. /\ m.mode = r.l.mode /\ m.started = r.l.started /\ Tracked(r.l, m)
        /\ m.reference_required = r.l.reference_required /\ m.clutched = r.l.clutched
        /\ m.recovery_ready = r.l.recovery_ready /\ m.recovery = r.l.recovery
        /\ m.pending = r.l.pending /\ m.pending_relatch = r.l.pending_relatch
        /\ m.restart = r.l.restart /\ m.failed = r.l.failed
        /\ m.t_begin = r.l.t_begin /\ m.base = r.l.base
    BY <1>2, <2>2 DEF Leader, Tracked
  <2>7. Sane(m) /\ Tracked(s.l, m)
    BY <1>2, <2>5, <2>6 DEF Sane, Tracked
  <2>8. CASE Relatches(s)
    <3>1. s.fix # None /\ s.l.clutched /\ s.l.pending_relatch
      BY <2>8 DEF Relatches
    <3>2. p = s.l.published
      BY <1>0, <1>2, <2>1, <2>8, <3>1, PikaAssumption
      DEF Delta, Fix, Position, Leader, Offset
    <3> QED BY <1>2, <2>3, <2>6, <2>7, <2>8, <3>1, <3>2 DEF Published
  <2>9. CASE ~Relatches(s)
    BY <1>2, <1>3, <2>1, <2>3, <2>6, <2>7, <2>9 DEF Published
  <2> QED BY <2>8, <2>9
<1>4. CASE ~(Following(r.l) /\ r.fix # None /\ r.l.t_begin # None)
  <2>1. m = r.l
    BY <1>1, <1>4 DEF Publish
  <2>2. ~Relatches(s)
    BY <1>2, <1>4 DEF Relatches, Following
  <2> QED BY <1>2, <1>4, <2>1, <2>2 DEF Sane, Published
<1> QED BY <1>3, <1>4

-----------------------------------------------------------------------------
(* GetAction and the other handlers.                                         *)

\* Types, and what bounds the contexts: a restart begins below the bound.
TypeInv ==
  /\ tracker \in Tracker
  /\ Sane(leader)
  /\ capturing \in BOOLEAN /\ gapped \in BOOLEAN /\ noticed \in BOOLEAN
  /\ leader.restart \in {"running", "overdue"} => tracker.fix.context < MaxContext

\* A readiness fault requires a new reference before the pose is looked at.
Forced(u, f) ==
  /\ Sane(f) /\ Kept(u, f) /\ Tracked(u, f)
  /\ f.restart = u.restart /\ f.failed = u.failed
  /\ f = u \/ (f.reference_required /\ ~f.clutched /\ ~f.recovery_ready)

\* The stages of one GetAction: readiness u, its fault f, the pose o and the
\* squeeze s, of the leader l and the Tracker t.
Stages(l, t, u, f, o, s) ==
  /\ u \in Update(l, t) /\ Forced(u, f)
  /\ IF f.restart # "idle" THEN o.l = f /\ o.fix = None ELSE Outcome(f, t, o)
  /\ Pressed(o, s)

LEMMA GetActionFacts ==
  ASSUME tracker \in Tracker, Sane(leader), GetAction
  PROVE  \E u, f, o, s :
           /\ Stages(leader, tracker, u, f, o, s) /\ Published(s, leader')
           /\ gapped' = (gapped /\ ~Relatches(s))
<1>1. PICK o \in Poses : \E squeeze \in BOOLEAN :
        LET s == IF squeeze THEN Squeezed(o) ELSE o
        IN  /\ leader' = Publish(Relatch(s))
            /\ leader'.published \in Offset
            /\ gapped' = (gapped /\ ~Relatches(s))
  BY Zenon DEF GetAction
<1>2. PICK squeeze \in BOOLEAN :
        LET s == IF squeeze THEN Squeezed(o) ELSE o
        IN  /\ leader' = Publish(Relatch(s))
            /\ leader'.published \in Offset
            /\ gapped' = (gapped /\ ~Relatches(s))
  BY <1>1
<1>3. PICK s : s = IF squeeze THEN Squeezed(o) ELSE o
  OBVIOUS
<1>4. /\ leader' = Publish(Relatch(s)) /\ leader'.published \in Offset
      /\ gapped' = (gapped /\ ~Relatches(s))
  BY <1>2, <1>3
<1>5. PICK u \in Update(leader, tracker) : o \in RuntimePose(Faulted(u), tracker)
  BY DEF Poses
<1>6. PICK f : f = Faulted(u)
  OBVIOUS
<1>7. Sane(u)
  BY <1>5, UpdateFacts
<1>8. Forced(u, f)
  <2>1. CASE u.readiness = "fault"
    <3>1. f = Require(u)
      BY <1>6, <2>1 DEF Faulted
    <3> QED BY <1>7, <3>1, RequireFacts DEF Forced
  <2>2. CASE u.readiness # "fault"
    BY <1>6, <1>7, <2>2 DEF Faulted, Forced, Kept, Tracked
  <2> QED BY <2>1, <2>2
<1>9. IF f.restart # "idle" THEN o.l = f /\ o.fix = None ELSE Outcome(f, tracker, o)
  BY <1>5, <1>6, <1>8, RuntimeFacts DEF Forced
<1>10. o = [l |-> o.l, fix |-> o.fix]
  BY <1>5, RuntimeRecord
<1>11. Sane(o.l) /\ o.fix \in Fix \cup {None}
  BY <1>8, <1>9 DEF Forced, Outcome
<1>12. Pressed(o, s) /\ s = [l |-> s.l, fix |-> s.fix]
  BY <1>3, <1>10, <1>11, PressedFacts
<1>13. Published(s, leader')
  BY <1>4, <1>12, PublishFacts DEF Pressed
<1> QED BY <1>4, <1>5, <1>8, <1>9, <1>12, <1>13 DEF Stages

\* From one stage to the next, what a leader keeps until it is published.
LEMMA StagesKeep ==
  ASSUME NEW l, Sane(l), NEW t \in Tracker, NEW u, NEW f, NEW o, NEW s,
         Stages(l, t, u, f, o, s)
  PROVE  Kept(l, s.l)
<1>1. Kept(l, u)
  BY UpdateFacts DEF Stages
<1>2. Kept(u, f) /\ Kept(f, o.l) /\ Kept(o.l, s.l)
  BY DEF Stages, Forced, Outcome, Pressed, Kept
<1> QED BY <1>1, <1>2 DEF Kept

-----------------------------------------------------------------------------
(* Types.                                                                    *)

LEMMA TypeInit == Init => TypeInv
<1> SUFFICES ASSUME Init PROVE TypeInv
  OBVIOUS
<1>1. PICK z \in Offset : z = 0
  BY PikaAssumption DEF Offset
<1>2. PICK k \in 0 .. Confirm : k = 0 /\ k < Confirm
  BY NoSamplesType
<1>3. tracker \in Tracker
  BY PikaAssumption DEF Init, Tracker, Fix, Position, Context
<1>4. PICK m \in Modes :
        leader = [mode |-> m, started |-> FALSE,
                  readiness |-> "waiting", seen |-> {}, last_fresh |-> "none",
                  last_valid |-> None, pending |-> k, reference_required |-> FALSE,
                  recovery |-> NoSamples, recovery_ready |-> FALSE,
                  clutched |-> FALSE, pending_relatch |-> FALSE,
                  confirmation_pending |-> FALSE, t_begin |-> None, base |-> z,
                  published |-> z, stalled |-> FALSE, failed |-> FALSE,
                  restart |-> "idle"]
  BY <1>1, <1>2 DEF Init
<1>5. leader \in Leader
  BY <1>4, NoSamplesType DEF Leader
<1>6. Sane(leader)
  BY <1>2, <1>4, <1>5, NoSamplesType DEF Sane
<1> QED BY <1>3, <1>4, <1>6 DEF Init, TypeInv

\* What the handlers other than GetAction leave of the leader.
ConnectLeaves(l, m) ==
  /\ Sane(m) /\ Tracked(l, m) /\ m.mode = l.mode /\ m.started
  /\ m.t_begin = None /\ m.base = 0 /\ m.published = 0
  /\ ~m.clutched /\ m.reference_required = l.reference_required
  /\ m.recovery_ready = l.recovery_ready
  /\ m.restart = l.restart /\ m.failed = l.failed

LEMMA ConnectFacts ==
  ASSUME Sane(leader), Connect
  PROVE  ConnectLeaves(leader, leader')
<1>1. PICK z \in Offset : z = 0
  BY PikaAssumption DEF Offset
<1>2. PICK m : m = [leader EXCEPT !.started = TRUE, !.t_begin = None, !.base = z,
                                  !.published = z, !.confirmation_pending = FALSE,
                                  !.clutched = FALSE, !.pending_relatch = FALSE]
  OBVIOUS
<1>3. leader' = m
  BY <1>1, <1>2 DEF Connect
<1>4. m \in Leader
  BY <1>2 DEF Sane, Leader
<1>5. m.pending = leader.pending /\ m.recovery = leader.recovery
  BY <1>2 DEF Sane, Leader
<1>6. ConnectLeaves(leader, m)
  BY <1>1, <1>2, <1>4, <1>5 DEF Sane, Leader, Tracked, ConnectLeaves
<1> QED BY <1>3, <1>6

\* NoStableSample leaves the samples of a window that was never filled.
DroppedLeaves(l, m) ==
  /\ Sane(m) /\ Kept(l, m) /\ Tracked(l, m)
  /\ m.reference_required /\ ~m.clutched /\ ~m.recovery_ready
  /\ m.restart = l.restart /\ m.failed = l.failed

LEMMA NoStableSampleFacts ==
  ASSUME Sane(leader), NoStableSample
  PROVE  DroppedLeaves(leader, leader')
<1>1. PICK m : m = [leader EXCEPT !.confirmation_pending = FALSE,
                                  !.reference_required = TRUE, !.clutched = FALSE,
                                  !.pending_relatch = TRUE, !.recovery = NoSamples,
                                  !.recovery_ready = FALSE]
  OBVIOUS
<1>2. leader' = m
  BY <1>1 DEF NoStableSample
<1>3. m \in Leader
  BY <1>1, NoSamplesType DEF Sane, Leader
<1>4. m.pending = leader.pending /\ m.recovery = NoSamples
  BY <1>1 DEF Sane, Leader
<1>5. DroppedLeaves(leader, m)
  BY <1>1, <1>3, <1>4, NoSamplesType DEF Sane, Leader, Kept, Tracked, DroppedLeaves
<1> QED BY <1>2, <1>5

\* The hardware changes only what the servicer has seen of it, and how long ago,
\* and the state of the restart.
Ages(l, m) ==
  /\ Sane(m) /\ Kept(l, m) /\ Clutch(l, m)
  /\ m.last_valid = l.last_valid /\ m.recovery_ready = l.recovery_ready
  /\ m.failed = l.failed

LEMMA HardwareFacts ==
  ASSUME TypeInv
  PROVE  /\ \A p \in Position : Sweep(p) =>
              /\ Ages(leader, leader') /\ tracker' \in Tracker
              /\ leader'.seen = {} /\ leader'.last_fresh = leader.last_fresh
              /\ leader'.restart = leader.restart
              /\ tracker'.fix.context = tracker.fix.context /\ tracker'.decoded = "fresh"
         /\ FallSilent =>
              /\ Ages(leader, leader') /\ tracker' \in Tracker
              /\ leader'.seen = leader.seen /\ leader'.restart = leader.restart
              /\ leader.last_fresh = "recent" => leader'.last_fresh = "old"
              /\ tracker'.fix = tracker.fix /\ tracker'.found = tracker.found
              /\ tracker'.decoded # "fresh"
         /\ Vanish =>
              /\ tracker' \in Tracker /\ ~tracker'.found
              /\ tracker'.fix = tracker.fix /\ tracker'.decoded = tracker.decoded
         /\ Overdue =>
              /\ Ages(leader, leader') /\ Tracked(leader, leader')
              /\ leader'.restart = "overdue"
         /\ Rebuilt =>
              /\ Ages(leader, leader') /\ tracker' \in Tracker
              /\ leader'.seen = {} /\ leader'.restart = "done"
              /\ tracker'.decoded # "fresh" /\ ~tracker'.found
         /\ NotRebuilt =>
              /\ Ages(leader, leader') /\ Tracked(leader, leader')
              /\ leader'.restart = "broken"
<1> USE DEF TypeInv
<1>1. ASSUME NEW p \in Position, Sweep(p)
      PROVE  /\ Ages(leader, leader') /\ tracker' \in Tracker
             /\ leader'.seen = {} /\ leader'.last_fresh = leader.last_fresh
             /\ leader'.restart = leader.restart
             /\ tracker'.fix.context = tracker.fix.context /\ tracker'.decoded = "fresh"
  <2>1. leader' = [leader EXCEPT !.seen = {}]
    BY <1>1 DEF Sweep
  <2>2. leader' \in Leader
    BY <2>1 DEF Sane, Leader
  <2>3. /\ Ages(leader, leader') /\ leader'.last_fresh = leader.last_fresh
        /\ leader'.restart = leader.restart /\ leader'.seen = {}
    BY <2>1, <2>2 DEF Sane, Leader, Ages, Kept, Clutch
  <2>4. PICK x : x = [tracker.fix EXCEPT !.pose = p]
    OBVIOUS
  <2>5. x \in Fix /\ x.context = tracker.fix.context
    BY <2>4 DEF Tracker, Fix
  <2>6. tracker' = [fix |-> x, decoded |-> "fresh", found |-> TRUE]
    BY <1>1, <2>4 DEF Sweep
  <2> QED BY <2>3, <2>5, <2>6 DEF Tracker
<1>2. ASSUME FallSilent
      PROVE  /\ Ages(leader, leader') /\ tracker' \in Tracker
             /\ leader'.seen = leader.seen /\ leader'.restart = leader.restart
             /\ leader.last_fresh = "recent" => leader'.last_fresh = "old"
             /\ tracker'.fix = tracker.fix /\ tracker'.found = tracker.found
             /\ tracker'.decoded # "fresh"
  <2>1. PICK a \in {"none", "recent", "old", "ancient"} :
          a = CASE leader.last_fresh = "recent" -> "old"
                [] leader.last_fresh = "old" -> "ancient"
                [] OTHER -> leader.last_fresh
    BY DEF Sane, Leader
  <2>2. leader' = [leader EXCEPT !.last_fresh = a]
    BY <1>2, <2>1 DEF FallSilent, Sane, Leader
  <2>3. leader' \in Leader
    BY <2>2 DEF Sane, Leader
  <2>4. /\ Ages(leader, leader') /\ leader'.seen = leader.seen
        /\ leader'.restart = leader.restart /\ leader'.last_fresh = a
    BY <2>2, <2>3 DEF Sane, Leader, Ages, Kept, Clutch
  <2>5. PICK d \in {"late", "silent"} : tracker' = [tracker EXCEPT !.decoded = d]
    BY <1>2 DEF FallSilent
  <2>6. tracker' \in Tracker /\ tracker'.fix = tracker.fix
        /\ tracker'.found = tracker.found /\ tracker'.decoded = d
    BY <2>5 DEF Tracker
  <2> QED BY <2>1, <2>4, <2>6
<1>3. ASSUME Vanish
      PROVE  /\ tracker' \in Tracker /\ ~tracker'.found
             /\ tracker'.fix = tracker.fix /\ tracker'.decoded = tracker.decoded
  BY <1>3 DEF Vanish, Tracker
<1>4. ASSUME Overdue
      PROVE  /\ Ages(leader, leader') /\ Tracked(leader, leader')
             /\ leader'.restart = "overdue"
  <2>1. leader' = [leader EXCEPT !.restart = "overdue"]
    BY <1>4 DEF Overdue
  <2>2. leader' \in Leader
    BY <2>1 DEF Sane, Leader
  <2> QED BY <2>1, <2>2 DEF Sane, Leader, Ages, Kept, Clutch, Tracked
<1>5. ASSUME Rebuilt
      PROVE  /\ Ages(leader, leader') /\ tracker' \in Tracker
             /\ leader'.seen = {} /\ leader'.restart = "done"
             /\ tracker'.decoded # "fresh" /\ ~tracker'.found
  <2>1. leader' = [leader EXCEPT !.restart = "done", !.seen = {}]
    BY <1>5 DEF Rebuilt
  <2>2. leader' \in Leader
    BY <2>1 DEF Sane, Leader
  <2>3. Ages(leader, leader') /\ leader'.restart = "done" /\ leader'.seen = {}
    BY <2>1, <2>2 DEF Sane, Leader, Ages, Kept, Clutch
  <2>4. PICK c \in Context : c = tracker.fix.context + 1
    BY <1>5, PikaAssumption DEF Rebuilt, Tracker, Fix, Context
  <2>5. PICK x : x = [tracker.fix EXCEPT !.context = c]
    OBVIOUS
  <2>6. x \in Fix
    BY <2>5 DEF Tracker, Fix
  <2>7. tracker' = [fix |-> x, decoded |-> "silent", found |-> FALSE]
    BY <1>5, <2>4, <2>5 DEF Rebuilt
  <2> QED BY <2>3, <2>6, <2>7 DEF Tracker
<1>6. ASSUME NotRebuilt
      PROVE  /\ Ages(leader, leader') /\ Tracked(leader, leader')
             /\ leader'.restart = "broken"
  <2>1. leader' = [leader EXCEPT !.restart = "broken"]
    BY <1>6 DEF NotRebuilt
  <2>2. leader' \in Leader
    BY <2>1 DEF Sane, Leader
  <2> QED BY <2>1, <2>2 DEF Sane, Leader, Ages, Kept, Clutch, Tracked
<1> QED BY <1>1, <1>2, <1>3, <1>4, <1>5, <1>6

\* SetReference and the references: a sample, perhaps with a latch after it.
LEMMA BeginReferenceFacts ==
  ASSUME tracker \in Tracker, Sane(leader), BeginReference
  PROVE  /\ leader' \in Update(leader, tracker) /\ leader'.readiness = "ready"
         /\ leader.started /\ ~capturing /\ (Pausing \/ ~Following(leader))
         /\ capturing' = TRUE /\ UNCHANGED <<tracker, gapped, noticed>>
<1>1. PICK u \in Update(leader, tracker) : u.readiness = "ready" /\ leader' = u
  BY DEF BeginReference
<1> QED BY <1>1 DEF BeginReference

\* A reference of now: the leader follows from the Tracker's present fix.
Latched(l, fix, m) ==
  /\ Sane(m) /\ m.mode = l.mode /\ m.started = l.started
  /\ m.t_begin = fix /\ m.base = 0 /\ m.published = 0 /\ m.last_valid = fix
  /\ ~m.reference_required /\ m.clutched /\ ~m.pending_relatch
  /\ ~m.recovery_ready
  /\ m.seen = {"runtime", "readiness"} /\ m.last_fresh = "recent"
  /\ m.restart = "idle"

LEMMA AutoLatchFacts ==
  ASSUME TypeInv, AutoLatch
  PROVE  Latched(leader, tracker.fix, leader')
<1>1. tracker.fix \in Fix
  BY DEF TypeInv, Tracker
<1>2. leader' = Latch(Prime(leader, tracker.fix), tracker.fix) /\ leader.restart = "idle"
  BY DEF AutoLatch, Supported
<1> QED BY <1>1, <1>2, LatchFacts DEF Latched, TypeInv

LEMMA EndReferenceFacts ==
  ASSUME TypeInv, EndReference
  PROVE  /\ UNCHANGED <<tracker, noticed>> /\ capturing /\ capturing' = FALSE
         /\ leader.restart = "idle" /\ tracker.decoded = "fresh" /\ Readable(tracker)
         /\ \/ Latched(leader, tracker.fix, leader') /\ gapped' = FALSE
            \/ leader' \in Update(leader, tracker) /\ gapped' = gapped
<1>1. PICK u \in Update(leader, tracker) :
        IF u.readiness = "ready"
        THEN leader' = Latch(Prime(u, tracker.fix), tracker.fix) /\ gapped' = FALSE
        ELSE leader' = u /\ UNCHANGED gapped
  BY DEF EndReference
<1>2. /\ tracker \in Tracker /\ tracker.fix \in Fix /\ Sane(leader)
  BY DEF TypeInv, Tracker
<1>3. CASE u.readiness = "ready"
  <2>1. Sane(u) /\ u.restart = "idle" /\ u.mode = leader.mode /\ u.started = leader.started
    BY <1>2, <1>3, UpdateFacts DEF Kept
  <2>2. leader' = Latch(Prime(u, tracker.fix), tracker.fix) /\ gapped' = FALSE
    BY <1>1, <1>3
  <2>3. Latched(u, tracker.fix, leader')
    BY <1>2, <2>1, <2>2, LatchFacts DEF Latched
  <2>4. Latched(leader, tracker.fix, leader')
    BY <2>1, <2>3 DEF Latched
  <2> QED BY <2>2, <2>4 DEF EndReference, Supported, Readable
<1>4. CASE u.readiness # "ready"
  BY <1>1, <1>4 DEF EndReference, Supported, Readable
<1> QED BY <1>3, <1>4

LEMMA TypeStep == TypeInv /\ [Next]_vars => TypeInv'
<1> SUFFICES ASSUME TypeInv, [Next]_vars PROVE TypeInv'
  OBVIOUS
<1>0. tracker \in Tracker /\ Sane(leader)
  BY DEF TypeInv
<1>1. CASE GetAction
  <2>1. PICK u, f, o, s :
          /\ Stages(leader, tracker, u, f, o, s) /\ Published(s, leader')
          /\ gapped' = (gapped /\ ~Relatches(s))
    BY <1>0, <1>1, GetActionFacts
  <2>2. /\ u.restart \in {"idle", "running", "overdue"}
        /\ u.restart = "idle" \/ u.restart = leader.restart \/ tracker.fix.context < MaxContext
    BY <1>0, <2>1, UpdateFacts DEF Stages
  <2>3. /\ Sane(leader') /\ leader'.restart = o.l.restart
        /\ o.l.restart \in {f.restart, "idle"} \/ tracker.fix.context < MaxContext
        /\ f.restart = u.restart
    BY <2>1 DEF Stages, Forced, Outcome, Lost, Used, Pressed, Published
  <2>4. gapped' \in BOOLEAN /\ UNCHANGED <<tracker, capturing>> /\ noticed' = TRUE
    BY <1>1, <2>1 DEF TypeInv, GetAction
  <2> QED BY <2>2, <2>3, <2>4 DEF TypeInv
<1>2. ASSUME leader' \in Update(leader, tracker), UNCHANGED tracker,
             capturing' \in BOOLEAN, gapped' \in BOOLEAN, noticed' \in BOOLEAN
      PROVE  TypeInv'
  BY <1>0, <1>2, UpdateFacts DEF TypeInv
<1>3. ASSUME Latched(leader, tracker.fix, leader'), UNCHANGED tracker,
             capturing' \in BOOLEAN, gapped' \in BOOLEAN, noticed' \in BOOLEAN
      PROVE  TypeInv'
  BY <1>0, <1>3 DEF TypeInv, Latched
<1>4. CASE Sample
  BY <1>2, <1>4 DEF Sample, TypeInv
<1>5. CASE Connect
  BY <1>0, <1>5, ConnectFacts DEF Connect, ConnectLeaves, TypeInv
<1>6. CASE AutoLatch
  BY <1>3, <1>6, AutoLatchFacts DEF AutoLatch, TypeInv
<1>7. CASE BeginReference
  BY <1>0, <1>2, <1>7, BeginReferenceFacts DEF TypeInv
<1>8. CASE EndReference
  BY <1>2, <1>3, <1>8, EndReferenceFacts DEF TypeInv
<1>9. CASE NoStableSample
  BY <1>0, <1>9, NoStableSampleFacts DEF NoStableSample, DroppedLeaves, TypeInv
<1>10. ASSUME NEW p \in Position, Sweep(p)
       PROVE  TypeInv'
  BY <1>10, HardwareFacts DEF Sweep, Ages, TypeInv
<1>11. CASE FallSilent
  BY <1>11, HardwareFacts DEF FallSilent, Ages, TypeInv
<1>12. CASE Vanish
  BY <1>12, HardwareFacts DEF Vanish, TypeInv
<1>13. CASE Overdue
  BY <1>13, HardwareFacts DEF Overdue, Ages, TypeInv
<1>14. CASE Rebuilt
  BY <1>14, HardwareFacts DEF Rebuilt, Ages, TypeInv
<1>15. CASE NotRebuilt
  BY <1>15, HardwareFacts DEF NotRebuilt, Ages, TypeInv
<1>16. CASE UNCHANGED vars
  BY <1>16 DEF TypeInv, vars
<1> QED BY <1>1, <1>4, <1>5, <1>6, <1>7, <1>8, <1>9, <1>10, <1>11, <1>12, <1>13,
           <1>14, <1>15, <1>16 DEF Next

\* What every reachable state is made of, whoever pauses: the values that the
\* fields of the leader and of the Tracker can have.
THEOREM TypeCorrect == Spec => []TypeOK
<1>1. TypeInv => TypeOK
  BY DEF TypeInv, TypeOK, Sane
<1> QED BY <1>1, TypeInit, TypeStep, PTL DEF Spec

\* _relatch_cumulative_segment: the segment of a new squeeze publishes at first
\* what the session published last, so the arm does not jump on an engage.  No
\* other handler changes a reference that it leaves in force.
THEOREM EngageKeepsTargetAlways == Spec => EngageKeepsTarget
<1> DEFINE Engages == leader'.t_begin # leader.t_begin /\ ~capturing
                      /\ None \notin {leader.t_begin, leader'.t_begin}
<1>1. ASSUME TypeInv, [Next]_vars
      PROVE  [Engages => leader'.published = leader.published]_vars
  <2> SUFFICES ASSUME Engages PROVE leader'.published = leader.published
    OBVIOUS
  <2>0. tracker \in Tracker /\ Sane(leader)
    BY <1>1 DEF TypeInv
  <2>1. CASE GetAction
    <3>1. PICK u, f, o, s :
            Stages(leader, tracker, u, f, o, s) /\ Published(s, leader')
      BY <2>0, <2>1, GetActionFacts
    <3>2. Kept(leader, s.l)
      BY <2>0, <3>1, StagesKeep
    <3> QED BY <3>1, <3>2 DEF Published, Kept
  <2>2. CASE leader' \in Update(leader, tracker)
    BY <2>0, <2>2, UpdateFacts DEF Kept
  <2>3. CASE Sample
    BY <2>2, <2>3 DEF Sample
  <2>4. CASE Connect
    BY <2>0, <2>4, ConnectFacts DEF ConnectLeaves
  <2>5. CASE AutoLatch
    BY <2>5 DEF AutoLatch
  <2>6. CASE BeginReference
    BY <2>0, <2>2, <2>6, BeginReferenceFacts
  <2>7. CASE EndReference
    BY <2>7 DEF EndReference
  <2>8. CASE NoStableSample
    BY <2>0, <2>8, NoStableSampleFacts DEF DroppedLeaves, Kept
  <2>9. CASE \/ \E p \in Position : Sweep(p)
             \/ FallSilent \/ Vanish \/ Overdue \/ Rebuilt \/ NotRebuilt
    BY <1>1, <2>9, HardwareFacts DEF Ages, Kept, Vanish
  <2>10. CASE UNCHANGED vars
    BY <2>10 DEF vars
  <2> QED BY <1>1, <2>1, <2>3, <2>4, <2>5, <2>6, <2>7, <2>8, <2>9, <2>10 DEF Next
<1>2. Spec => [][Engages => leader'.published = leader.published]_vars
  BY <1>1, TypeInit, TypeStep, PTL DEF Spec
<1> QED BY <1>2 DEF EngageKeepsTarget

-----------------------------------------------------------------------------
(* The invariant of a client that does not pause.                            *)

\* The runtime checks see a sweep no earlier than readiness does, and a sweep of
\* now that readiness has seen is the last fresh one.
SeenInv ==
  /\ "runtime" \in leader.seen => "readiness" \in leader.seen
  /\ tracker.decoded = "fresh" /\ "readiness" \in leader.seen
       => leader.last_fresh = "recent"

\* What is kept of the Tracker is of its present context, until the result of a
\* restart is consumed; while that is pending nobody follows.
ContextInv ==
  /\ leader.restart # "done" /\ leader.last_valid # None
       => leader.last_valid.context = tracker.fix.context
  /\ Following(leader) =>
       /\ leader.t_begin # None /\ leader.last_valid # None
       /\ leader.t_begin.context = tracker.fix.context

\* Following, and the recovery that precedes it, are of a live Tracker: a gap is
\* met by the next GetAction.
LiveInv ==
  /\ leader.reference_required => ~leader.clutched
  /\ leader.restart # "idle" => ~Following(leader) /\ ~leader.recovery_ready
  /\ ~capturing /\ (Following(leader) \/ leader.recovery_ready)
       => leader.last_fresh = "recent" \/ (leader.last_fresh = "old" /\ ~noticed)
  /\ Following(leader) => ~capturing
  /\ capturing => leader.restart = "idle" /\ ~leader.failed

\* A gap under a followed reference is one that no GetAction has met yet, and
\* readiness has no new sweep to hide it with.
GapInv ==
  /\ Following(leader) /\ gapped =>
       /\ leader.last_fresh = "old" /\ ~noticed /\ tracker.decoded # "fresh"
       /\ tracker.found => "readiness" \in leader.seen
  /\ Following(leader) /\ noticed /\ tracker.found => "readiness" \in leader.seen

\* What is published is the offset of the last valid pose in its segment.
OffsetInv ==
  /\ leader.t_begin = None => leader.published = 0
  /\ Following(leader) =>
       leader.published = leader.base + Delta(leader.last_valid, leader.t_begin)

GateInv == TypeInv /\ SeenInv /\ ContextInv /\ LiveInv /\ GapInv /\ OffsetInv

\* Nothing is kept at the start.
LEMMA GateInit == Init => GateInv
<1> SUFFICES ASSUME Init PROVE GateInv
  OBVIOUS
<1>1. /\ leader.seen = {} /\ leader.last_valid = None /\ ~leader.clutched
      /\ ~leader.recovery_ready /\ ~leader.reference_required
      /\ leader.restart = "idle" /\ leader.t_begin = None /\ leader.published = 0
      /\ capturing = FALSE /\ gapped = FALSE
  BY DEF Init
<1> QED
  BY <1>1, TypeInit
  DEF GateInv, SeenInv, ContextInv, LiveInv, GapInv, OffsetInv, Following

\* What an update leaves of the invariants: the leader u after it.
Updated(l, u) ==
  /\ Kept(l, u) /\ Clutch(l, u)
  /\ "runtime" \in u.seen => "readiness" \in u.seen
  /\ tracker.decoded = "fresh" /\ "readiness" \in u.seen => u.last_fresh = "recent"
  /\ u.restart # "done"
  /\ u.last_valid # None => /\ l.restart # "done" /\ u.last_valid = l.last_valid
                            /\ u.last_valid.context = tracker.fix.context
  /\ u.recovery_ready \/ Following(u) =>
       /\ u.recovery_ready = l.recovery_ready /\ l.restart = "idle"
       /\ u.last_valid = l.last_valid
       /\ u.last_fresh = l.last_fresh \/ (Readable(tracker) /\ u.last_fresh = "recent"
                                           /\ "readiness" \notin l.seen)
       /\ "readiness" \in l.seen => "readiness" \in u.seen
       /\ ~capturing => u.restart = "idle"

LEMMA UpdatedFacts ==
  ASSUME GateInv, NEW u \in Update(leader, tracker)
  PROVE  Updated(leader, u)
<1>0. tracker \in Tracker /\ Sane(leader)
  BY DEF GateInv, TypeInv
<1>1. /\ Sane(u) /\ Kept(leader, u) /\ Clutch(leader, u)
      /\ u.restart \in {"idle", "running", "overdue"}
      /\ leader.restart = "done" =>
           /\ u.last_valid = None /\ ~u.recovery_ready
           /\ u.seen \subseteq {"readiness"}
           /\ "readiness" \in u.seen => u.last_fresh = "recent"
      /\ leader.restart # "done" =>
           /\ u.recovery_ready = leader.recovery_ready /\ u.last_valid = leader.last_valid
           /\ Tracked(leader, u) \/ (Refreshed(leader, u) /\ Readable(tracker))
      /\ leader.restart = "idle" =>
           /\ leader.last_fresh \in {"recent", "old"} => u.restart = "idle"
  BY <1>0, UpdateFacts
<1>2. /\ "runtime" \in u.seen => "readiness" \in u.seen
      /\ tracker.decoded = "fresh" /\ "readiness" \in u.seen => u.last_fresh = "recent"
  BY <1>1 DEF GateInv, SeenInv, Tracked, Refreshed
<1>3. u.last_valid # None => /\ leader.restart # "done" /\ u.last_valid = leader.last_valid
                             /\ u.last_valid.context = tracker.fix.context
  BY <1>1 DEF GateInv, ContextInv
<1>4. u.recovery_ready \/ Following(u) =>
        /\ leader.restart = "idle" /\ u.recovery_ready = leader.recovery_ready
        /\ leader.recovery_ready \/ Following(leader)
  BY <1>1 DEF GateInv, LiveInv, Following, Clutch
<1>5. u.recovery_ready \/ Following(u) =>
        /\ ~capturing => u.restart = "idle"
        /\ u.last_valid = leader.last_valid
        /\ u.last_fresh = leader.last_fresh
           \/ (Readable(tracker) /\ u.last_fresh = "recent" /\ "readiness" \notin leader.seen)
        /\ "readiness" \in leader.seen => "readiness" \in u.seen
  BY <1>1, <1>4 DEF GateInv, LiveInv, Tracked, Refreshed
<1> QED BY <1>1, <1>2, <1>3, <1>4, <1>5 DEF Updated

\* A sample, by the sampler or for a token: what was true stays true.
LEMMA UpdateStep ==
  ASSUME GateInv, leader' \in Update(leader, tracker),
         UNCHANGED <<tracker, gapped, noticed>>,
         \/ UNCHANGED capturing /\ ~capturing
         \/ capturing' = TRUE /\ ~Following(leader)
            /\ leader'.restart = "idle" /\ ~leader'.failed
         \/ /\ capturing /\ capturing' = FALSE
            /\ tracker.decoded = "fresh" /\ Readable(tracker)
            /\ leader'.restart = "idle" /\ "readiness" \in leader'.seen
  PROVE  GateInv'
<1>1. Updated(leader, leader')
  BY UpdatedFacts
<1>2. TypeInv'
  BY UpdateFacts DEF GateInv, TypeInv
<1>3. SeenInv'
  BY <1>1 DEF SeenInv, Updated
<1>4. ContextInv'
  BY <1>1 DEF GateInv, ContextInv, Updated, Following, Kept, Clutch
<1>5. LiveInv'
  BY <1>1 DEF GateInv, LiveInv, Updated, Following, Kept, Clutch
<1>6. GapInv'
  BY <1>1 DEF GateInv, GapInv, LiveInv, Updated, Following, Clutch, Readable
<1>7. OffsetInv'
  BY <1>1 DEF GateInv, OffsetInv, Updated, Following, Kept, Clutch
<1> QED BY <1>2, <1>3, <1>4, <1>5, <1>6, <1>7 DEF GateInv

\* A reference of now has no gap.
LEMMA LatchStep ==
  ASSUME GateInv, Latched(leader, tracker.fix, leader'), UNCHANGED tracker,
         TypeInv', capturing' = FALSE, gapped' = FALSE
  PROVE  GateInv'
<1>1. tracker.fix # None /\ Delta(tracker.fix, tracker.fix) = 0
  BY PikaAssumption DEF GateInv, TypeInv, Tracker, Delta, Fix, Position
<1>2. SeenInv'
  BY DEF SeenInv, Latched
<1>3. ContextInv'
  BY <1>1 DEF ContextInv, Latched
<1>4. LiveInv'
  BY DEF LiveInv, Latched
<1>5. GapInv'
  BY DEF GapInv, Latched
<1>6. OffsetInv'
  BY <1>1 DEF OffsetInv, Latched
<1> QED BY <1>2, <1>3, <1>4, <1>5, <1>6 DEF GateInv

\* One GetAction, under the invariant: what stands of the Tracker, what a leader
\* that uses a pose, follows or may be confirmed has seen of it, and what it
\* publishes.
Answered(l, o, s, m) ==
  /\ m.seen = o.l.seen /\ m.last_fresh = o.l.last_fresh /\ m.last_valid = o.l.last_valid
  /\ m.restart = o.l.restart
  /\ "runtime" \in m.seen => "readiness" \in m.seen
  /\ tracker.decoded = "fresh" /\ "readiness" \in m.seen => m.last_fresh = "recent"
  /\ m.restart # "done"
  /\ m.last_valid # None => m.last_valid.context = tracker.fix.context
  /\ m.reference_required => ~m.clutched
  /\ s.fix # None \/ m.recovery_ready \/ Following(m) =>
       /\ m.restart = "idle" /\ m.last_fresh = "recent"
       /\ tracker.found => "readiness" \in m.seen
  /\ s.fix # None => s.fix = m.last_valid
  /\ Following(m) /\ ~Relatches(s) =>
       /\ Following(l) /\ Following(s.l) /\ s.fix # None
       /\ Distance(s.fix.pose, l.last_valid.pose) <= Absolute
       /\ l.last_fresh = "recent" \/ (Readable(tracker) /\ "readiness" \notin l.seen)

LEMMA AnsweredFacts ==
  ASSUME GateInv, ~capturing, NEW u, NEW f, NEW o, NEW s, NEW m,
         Stages(leader, tracker, u, f, o, s), Published(s, m)
  PROVE  Answered(leader, o, s, m)
<1>0. tracker \in Tracker /\ Sane(leader)
  BY DEF GateInv, TypeInv
<1>1. Updated(leader, u) /\ Forced(u, f) /\ Pressed(o, s)
  BY UpdatedFacts DEF Stages
<1>2. IF f.restart # "idle" THEN o.l = f /\ o.fix = None ELSE Outcome(f, tracker, o)
  BY DEF Stages
<1>3. /\ m.seen = o.l.seen /\ m.last_fresh = o.l.last_fresh
      /\ m.last_valid = o.l.last_valid /\ m.restart = o.l.restart
  BY <1>1 DEF Pressed, Published, Tracked
<1>4. /\ "runtime" \in f.seen => "readiness" \in f.seen
      /\ tracker.decoded = "fresh" /\ "readiness" \in f.seen => f.last_fresh = "recent"
      /\ f.restart # "done"
      /\ f.last_valid # None => f.last_valid.context = tracker.fix.context
  BY <1>1 DEF Updated, Forced, Tracked
<1>5. /\ "runtime" \in m.seen => "readiness" \in m.seen
      /\ tracker.decoded = "fresh" /\ "readiness" \in m.seen => m.last_fresh = "recent"
      /\ m.restart # "done"
  BY <1>2, <1>3, <1>4 DEF Outcome, Lost, Used, All
<1>6. m.last_valid # None => m.last_valid.context = tracker.fix.context
  BY <1>2, <1>3, <1>4 DEF Outcome
<1>7. /\ f.reference_required => ~f.clutched
      /\ f.recovery_ready \/ Following(f) => f = u /\ f.restart = "idle"
  <2>1. u.reference_required => ~u.clutched
    BY <1>1 DEF GateInv, LiveInv, Updated, Clutch
  <2>2. u.recovery_ready \/ Following(u) => u.restart = "idle"
    BY <1>1 DEF Updated
  <2> QED BY <1>1, <2>1, <2>2 DEF Forced, Following
<1>8. m.reference_required => ~m.clutched
  <2>1. o.l.reference_required => ~o.l.clutched
    BY <1>2, <1>7 DEF Outcome, Lost, Used, Clutch
  <2> QED BY <1>1, <2>1 DEF Pressed, Published
<1>9. /\ m.recovery_ready => o.l.recovery_ready
      /\ Following(m) /\ ~Relatches(s) => Following(s.l) /\ Following(o.l)
      /\ Relatches(s) => s.fix # None
      /\ s.fix # None => s.fix = o.fix \/ (s.fix = o.l.last_valid /\ o.l.recovery_ready)
  BY <1>1 DEF Pressed, Published, Following, Clutch, Relatches
<1>10. /\ f.restart # "idle" => o.fix = None /\ ~o.l.recovery_ready /\ ~Following(o.l)
       /\ f.restart = "idle" => Outcome(f, tracker, o)
       /\ Outcome(f, tracker, o) /\ Lost(f, tracker, o) => o.fix = None /\ ~Following(o.l)
  BY <1>2, <1>7 DEF Lost, Following
<1>11. ASSUME s.fix # None \/ m.recovery_ready \/ Following(m)
       PROVE  /\ f.restart = "idle" /\ Outcome(f, tracker, o)
              /\ Used(f, tracker, o) \/ (Lost(f, tracker, o) /\ o.l.recovery_ready)
  BY <1>9, <1>10, <1>11 DEF Outcome
<1>12. s.fix # None \/ m.recovery_ready \/ Following(m) =>
         /\ m.restart = "idle" /\ m.last_fresh = "recent"
         /\ tracker.found => "readiness" \in m.seen
  BY <1>3, <1>4, <1>11 DEF Used, Lost, All
<1>13. s.fix # None => s.fix = m.last_valid
  BY <1>3, <1>9, <1>11 DEF Used, Lost
<1>14. ASSUME Following(m), ~Relatches(s)
       PROVE  /\ Following(leader) /\ Following(s.l) /\ s.fix # None
              /\ Distance(s.fix.pose, leader.last_valid.pose) <= Absolute
              /\ leader.last_fresh = "recent"
                 \/ (Readable(tracker) /\ "readiness" \notin leader.seen)
  <2>1. /\ Following(s.l) /\ Following(o.l) /\ Used(f, tracker, o)
    BY <1>9, <1>10, <1>11, <1>14
  <2>2. Following(f) /\ f = u
    BY <1>7, <2>1 DEF Used, Following, Clutch
  <2>3. Following(leader) /\ u.last_valid = leader.last_valid
    BY <1>1, <2>2 DEF Updated, Following, Clutch
  <2>4. leader.last_valid # None
    BY <2>3 DEF GateInv, ContextInv
  <2>5. o.fix # None /\ Distance(o.fix.pose, leader.last_valid.pose) <= Absolute
    BY <2>1, <2>2, <2>3, <2>4 DEF Used
  <2>6. s.fix = o.fix
    BY <1>1, <2>1 DEF Pressed, Used
  <2>7. f.last_fresh \notin {"old", "ancient"}
    BY <2>1 DEF Used
  <2>8. leader.last_fresh \in {"recent", "old"}
    BY <2>3 DEF GateInv, LiveInv
  <2>9. leader.last_fresh = "recent"
        \/ (Readable(tracker) /\ "readiness" \notin leader.seen)
    BY <1>1, <2>2, <2>7, <2>8 DEF Updated
  <2> QED BY <2>1, <2>3, <2>5, <2>6, <2>9
<1> QED BY <1>3, <1>5, <1>6, <1>8, <1>12, <1>13, <1>14 DEF Answered

LEMMA GetActionStep ==
  ASSUME GateInv, TypeInv', GetAction
  PROVE  GateInv'
<1>0. tracker \in Tracker /\ Sane(leader) /\ Sane(leader') /\ ~capturing
      /\ UNCHANGED <<tracker, capturing>> /\ noticed' = TRUE
  BY DEF GateInv, TypeInv, GetAction
<1>1. PICK u, f, o, s :
        /\ Stages(leader, tracker, u, f, o, s) /\ Published(s, leader')
        /\ gapped' = (gapped /\ ~Relatches(s))
  BY <1>0, GetActionFacts
<1>2. Answered(leader, o, s, leader')
  BY <1>0, <1>1, AnsweredFacts
<1>3. Kept(leader, s.l)
  BY <1>0, <1>1, StagesKeep
<1>4. SeenInv'
  BY <1>2 DEF SeenInv, Answered, Published, GetAction
<1>5. ContextInv'
  <2>1. Following(leader') => leader'.t_begin # None /\ leader'.last_valid # None
          /\ leader'.t_begin.context = tracker.fix.context
    <3>1. CASE Relatches(s)
      BY <1>1, <1>2, <3>1 DEF Answered, Published
    <3>2. CASE ~Relatches(s)
      BY <1>1, <1>2, <1>3, <3>2 DEF Answered, Published, Kept, GateInv, ContextInv
    <3> QED BY <3>1, <3>2
  <2> QED BY <1>0, <1>2, <2>1 DEF ContextInv, Answered
<1>6. LiveInv'
  BY <1>0, <1>2 DEF LiveInv, Answered
<1>7. GapInv'
  <2>1. Following(leader') => ~gapped'
    BY <1>1, <1>2 DEF Answered, GateInv, GapInv, Readable
  <2> QED BY <1>0, <1>2, <2>1 DEF GapInv, Answered
<1>8. OffsetInv'
  <2>1. leader'.t_begin = None => leader'.published = 0
    BY <1>1, <1>3 DEF Published, Kept, GateInv, OffsetInv
  <2>2. Following(leader') =>
          leader'.published = leader'.base + Delta(leader'.last_valid, leader'.t_begin)
    <3>1. CASE Relatches(s)
      <4>1. /\ leader'.last_valid = leader'.t_begin /\ leader'.last_valid \in Fix
            /\ leader'.published = leader'.base /\ leader'.base \in Offset
        BY <1>0, <1>1, <1>2, <3>1 DEF Answered, Published, Sane, Leader
      <4> QED BY <4>1, PikaAssumption DEF Delta, Fix, Position, Offset
    <3>2. CASE ~Relatches(s)
      BY <1>1, <1>2, <1>3, <3>2
      DEF Answered, Published, Kept, GateInv, ContextInv
    <3> QED BY <3>1, <3>2
  <2> QED BY <2>1, <2>2 DEF OffsetInv
<1> QED BY <1>4, <1>5, <1>6, <1>7, <1>8 DEF GateInv

\* Every step, when nobody pauses for longer than the optics are silent.
LEMMA GateStep ==
  ASSUME ~Pausing
  PROVE  GateInv /\ [Next]_vars => GateInv'
<1> SUFFICES ASSUME GateInv, [Next]_vars PROVE GateInv'
  OBVIOUS
<1> USE DEF GateInv
<1>0. TypeInv' /\ tracker \in Tracker /\ Sane(leader)
  BY TypeStep DEF TypeInv
<1>1. CASE GetAction
  BY <1>0, <1>1, GetActionStep
<1>2. CASE Sample
  BY <1>2, UpdateStep DEF Sample
<1>3. CASE Connect
  <2>1. ConnectLeaves(leader, leader') /\ ~Following(leader')
    BY <1>0, <1>3, ConnectFacts DEF ConnectLeaves, Following
  <2>2. UNCHANGED <<tracker, capturing, noticed>> /\ gapped' = FALSE /\ ~capturing
    BY <1>3 DEF Connect
  <2> QED
    BY <1>0, <2>1, <2>2
    DEF ConnectLeaves, Tracked, SeenInv, ContextInv, LiveInv, GapInv, OffsetInv
<1>4. CASE AutoLatch
  <2>1. UNCHANGED tracker /\ capturing' = FALSE /\ gapped' = FALSE
    BY <1>4 DEF AutoLatch, TypeInv
  <2> QED BY <1>0, <1>4, <2>1, AutoLatchFacts, LatchStep
<1>5. CASE BeginReference
  <2>1. leader'.restart = "idle" /\ ~leader'.failed
    BY <1>0, <1>5, BeginReferenceFacts, UpdateFacts
  <2> QED BY <1>0, <1>5, <2>1, BeginReferenceFacts, UpdateStep
<1>6. CASE EndReference
  <2>0. /\ UNCHANGED <<tracker, noticed>> /\ capturing /\ capturing' = FALSE
        /\ leader.restart = "idle" /\ tracker.decoded = "fresh" /\ Readable(tracker)
    BY <1>0, <1>6, EndReferenceFacts
  <2>1. CASE Latched(leader, tracker.fix, leader') /\ gapped' = FALSE
    BY <1>0, <2>0, <2>1, LatchStep
  <2>2. CASE leader' \in Update(leader, tracker) /\ gapped' = gapped
    <3>1. ~leader.failed
      BY <2>0 DEF LiveInv
    <3>2. leader'.restart = "idle" /\ "readiness" \in leader'.seen
      BY <1>0, <2>0, <2>2, <3>1, UpdateFacts DEF Refreshed
    <3> QED BY <2>0, <2>2, <3>2, UpdateStep
  <2> QED BY <1>0, <1>6, <2>1, <2>2, EndReferenceFacts
<1>7. CASE NoStableSample
  <2>1. DroppedLeaves(leader, leader') /\ ~Following(leader')
    BY <1>0, <1>7, NoStableSampleFacts DEF DroppedLeaves, Following
  <2>2. UNCHANGED <<tracker, gapped, noticed>> /\ capturing /\ capturing' = FALSE
    BY <1>7 DEF NoStableSample
  <2> QED
    BY <1>0, <2>1, <2>2
    DEF DroppedLeaves, Kept, Tracked, SeenInv, ContextInv, LiveInv, GapInv, OffsetInv
<1>8. ASSUME NEW p \in Position, Sweep(p)
      PROVE  GateInv'
  <2>1. /\ Ages(leader, leader')
        /\ leader'.seen = {} /\ leader'.last_fresh = leader.last_fresh
        /\ leader'.restart = leader.restart
        /\ tracker'.fix.context = tracker.fix.context /\ tracker'.decoded = "fresh"
    BY <1>8, HardwareFacts
  <2>2. /\ noticed \/ capturing \/ tracker.decoded = "fresh"
        /\ noticed' = FALSE /\ UNCHANGED <<capturing, gapped>>
    BY <1>8 DEF Sweep, Attended
  <2>3. Following(leader') = Following(leader)
    BY <2>1 DEF Ages, Clutch, Following
  <2>4. Following(leader) => ~gapped
    BY <2>2 DEF GapInv, LiveInv
  <2>5. SeenInv' /\ ContextInv'
    BY <2>1, <2>3 DEF SeenInv, ContextInv, Ages, Kept
  <2>6. LiveInv'
    BY <2>1, <2>2, <2>3 DEF LiveInv, Ages, Clutch
  <2>7. GapInv' /\ OffsetInv'
    BY <2>1, <2>2, <2>3, <2>4 DEF GapInv, OffsetInv, Ages, Kept
  <2> QED BY <1>0, <2>5, <2>6, <2>7
<1>9. CASE FallSilent
  <2>1. /\ Ages(leader, leader')
        /\ leader'.seen = leader.seen /\ leader'.restart = leader.restart
        /\ leader.last_fresh = "recent" => leader'.last_fresh = "old"
        /\ tracker'.fix = tracker.fix /\ tracker'.found = tracker.found
        /\ tracker'.decoded # "fresh"
    BY <1>9, HardwareFacts
  <2>2. noticed \/ capturing
    BY <1>9 DEF FallSilent, Attended
  <2>3. gapped' = TRUE /\ noticed' = FALSE /\ UNCHANGED capturing
    BY <1>9 DEF FallSilent
  <2>4. Following(leader') = Following(leader)
    BY <2>1 DEF Ages, Clutch, Following
  <2>5. SeenInv' /\ ContextInv'
    BY <2>1, <2>4 DEF SeenInv, ContextInv, Ages, Kept
  <2>6. ~capturing /\ (Following(leader) \/ leader.recovery_ready)
          => leader'.last_fresh = "old"
    BY <2>1, <2>2 DEF LiveInv
  <2>7. LiveInv'
    BY <2>1, <2>3, <2>4, <2>6 DEF LiveInv, Ages, Clutch
  <2>8. GapInv'
    BY <2>1, <2>2, <2>3, <2>4, <2>6 DEF GapInv, LiveInv
  <2>9. OffsetInv'
    BY <2>1, <2>4 DEF OffsetInv, Ages, Kept
  <2> QED BY <1>0, <2>5, <2>7, <2>8, <2>9
<1>10. CASE Vanish
  <2>1. UNCHANGED <<leader, capturing, gapped, noticed>>
    BY <1>10 DEF Vanish
  <2>2. ~tracker'.found /\ tracker'.fix = tracker.fix /\ tracker'.decoded = tracker.decoded
    BY <1>10, HardwareFacts
  <2> QED
    BY <1>0, <2>1, <2>2 DEF SeenInv, ContextInv, LiveInv, GapInv, OffsetInv
<1>11. CASE Overdue \/ NotRebuilt
  <2>1. /\ Ages(leader, leader') /\ Tracked(leader, leader')
        /\ leader'.restart \in {"overdue", "broken"}
    BY <1>11, HardwareFacts
  <2>2. /\ leader.restart \in {"running", "overdue"}
        /\ UNCHANGED <<tracker, capturing, gapped, noticed>>
    BY <1>11 DEF Overdue, NotRebuilt
  <2>3. ~Following(leader') /\ ~leader'.recovery_ready /\ ~capturing
    BY <2>1, <2>2 DEF LiveInv, Ages, Clutch, Following
  <2> QED
    BY <1>0, <2>1, <2>2, <2>3
    DEF SeenInv, ContextInv, LiveInv, GapInv, OffsetInv, Ages, Kept, Clutch, Tracked
<1>12. CASE Rebuilt
  <2>1. /\ Ages(leader, leader') /\ leader'.seen = {} /\ leader'.restart = "done"
    BY <1>12, HardwareFacts
  <2>2. /\ leader.restart \in {"running", "overdue"}
        /\ UNCHANGED <<capturing, gapped, noticed>>
    BY <1>12 DEF Rebuilt
  <2>3. ~Following(leader') /\ ~leader'.recovery_ready /\ ~capturing
    BY <2>1, <2>2 DEF LiveInv, Ages, Clutch, Following
  <2> QED
    BY <1>0, <2>1, <2>2, <2>3, <1>12, HardwareFacts
    DEF SeenInv, ContextInv, LiveInv, GapInv, OffsetInv, Ages, Kept, Clutch
<1>13. CASE UNCHANGED vars
  BY <1>0, <1>13 DEF vars, SeenInv, ContextInv, LiveInv, GapInv, OffsetInv
<1> QED BY <1>1, <1>2, <1>3, <1>4, <1>5, <1>6, <1>7, <1>8, <1>9, <1>10, <1>11,
           <1>12, <1>13 DEF Next

\* "Never reuse PoseData from the destroyed context": however the decoder is
\* restarted, whoever follows has a reference and a last pose of the context that
\* the Tracker is in.  A client that pauses past the optical silence would meet
\* the restart while it follows.
THEOREM FollowingInOneContextAlways ==
  ASSUME ~Pausing
  PROVE  Spec => []FollowingInOneContext
<1>1. GateInv => FollowingInOneContext
  BY DEF GateInv, ContextInv, LiveInv, FollowingInOneContext
<1> QED BY <1>1, GateInit, GateStep, PTL DEF Spec

\* What a step does to the published offset: a GetAction moves it by the motion of
\* the Tracker since the last valid pose; the references set it to zero.
LEMMA PublishedStep ==
  ASSUME GateInv, GateInv', [Next]_vars, leader'.published # leader.published
  PROVE  /\ ~gapped'
         /\ \/ Distance(leader'.published, leader.published) <= Absolute
            \/ capturing \/ leader'.t_begin = None
<1>0. tracker \in Tracker /\ Sane(leader) /\ Sane(leader') /\ TypeInv
  BY DEF GateInv, TypeInv
<1>1. CASE GetAction
  <2>0. ~capturing
    BY <1>1 DEF GetAction
  <2>1. PICK u, f, o, s :
          /\ Stages(leader, tracker, u, f, o, s) /\ Published(s, leader')
          /\ gapped' = (gapped /\ ~Relatches(s))
    BY <1>0, <1>1, GetActionFacts
  <2>2. Answered(leader, o, s, leader') /\ Kept(leader, s.l)
    BY <1>0, <2>0, <2>1, AnsweredFacts, StagesKeep
  <2>3. ~Relatches(s) /\ Following(s.l) /\ s.fix # None /\ s.l.t_begin # None
    BY <2>1, <2>2 DEF Published, Kept
  <2>4. Following(leader')
    BY <2>1, <2>3 DEF Published, Following
  <2>5. /\ Following(leader) /\ s.fix = leader'.last_valid
        /\ Distance(s.fix.pose, leader.last_valid.pose) <= Absolute
    BY <2>2, <2>3, <2>4 DEF Answered
  <2>6. ~gapped'
    BY <1>1, <2>4 DEF GateInv, GapInv, GetAction
  <2>7. /\ leader.published = leader.base + Delta(leader.last_valid, leader.t_begin)
        /\ leader'.published = leader.base + Delta(s.fix, leader.t_begin)
        /\ leader.last_valid # None /\ leader.t_begin # None
    BY <2>1, <2>2, <2>3, <2>5 DEF Published, Kept, GateInv, OffsetInv, ContextInv
  <2>8. /\ leader.last_valid \in Fix /\ leader.t_begin \in Fix /\ s.fix \in Fix
        /\ leader.base \in Int
    BY <1>0, <2>3, <2>5, <2>7, PikaAssumption DEF Sane, Leader, Offset
  <2>9. Distance(leader'.published, leader.published)
          = Distance(s.fix.pose, leader.last_valid.pose)
    BY <2>7, <2>8, PikaAssumption DEF Distance, Delta, Fix, Position
  <2> QED BY <2>5, <2>6, <2>9
<1>2. CASE Connect
  BY <1>0, <1>2, ConnectFacts DEF Connect, ConnectLeaves
<1>3. CASE AutoLatch
  BY <1>0, <1>3, AutoLatchFacts DEF AutoLatch, Latched, GateInv, OffsetInv
<1>4. CASE EndReference
  <2>1. leader' \notin Update(leader, tracker)
    BY <1>0, UpdateFacts DEF Kept
  <2> QED BY <1>0, <1>4, <2>1, EndReferenceFacts
<1>5. CASE Sample \/ BeginReference
  <2>1. leader' \in Update(leader, tracker)
    BY <1>0, <1>5, BeginReferenceFacts DEF Sample
  <2> QED BY <1>0, <2>1, UpdateFacts DEF Kept
<1>6. CASE NoStableSample
  BY <1>0, <1>6, NoStableSampleFacts DEF DroppedLeaves, Kept
<1>7. CASE \/ \E p \in Position : Sweep(p)
           \/ FallSilent \/ Vanish \/ Overdue \/ Rebuilt \/ NotRebuilt
  BY <1>0, <1>7, HardwareFacts DEF Ages, Kept, Vanish
<1>8. CASE UNCHANGED vars
  BY <1>8 DEF vars
<1> QED BY <1>1, <1>2, <1>3, <1>4, <1>5, <1>6, <1>7, <1>8 DEF Next

\* "Any hold-worthy optical gap invalidates the session reference": no pose is
\* published from a reference older than the last silence, although readiness and
\* the runtime checks share, and refresh, one freshness baseline.
THEOREM GapInvalidatesReferenceAlways ==
  ASSUME ~Pausing
  PROVE  Spec => GapInvalidatesReference
<1>1. GateInv /\ GateInv' /\ [Next]_vars
        => [leader'.published # leader.published => ~gapped']_vars
  BY PublishedStep
<1>2. GateInv /\ [Next]_vars => GateInv'
  BY GateStep
<1>3. Spec => [][leader'.published # leader.published => ~gapped']_vars
  BY <1>1, <1>2, GateInit, PTL DEF Spec
<1> QED BY <1>3 DEF GapInvalidatesReference

\* Two successive offsets differ by at most _MOTION_TRANSLATION_ABSOLUTE_M, over
\* quarantines, held poses, recoveries and cumulative segments: what is held back
\* is never published in one piece.
THEOREM PublishedMotionBoundedAlways ==
  ASSUME ~Pausing
  PROVE  Spec => PublishedMotionBounded
<1> DEFINE Bounded == leader'.published # leader.published
                      => \/ Distance(leader'.published, leader.published) <= Absolute
                         \/ capturing \/ leader'.t_begin = None
<1>1. GateInv /\ GateInv' /\ [Next]_vars => [Bounded]_vars
  BY PublishedStep
<1>2. GateInv /\ [Next]_vars => GateInv'
  BY GateStep
<1>3. Spec => [][Bounded]_vars
  BY <1>1, <1>2, GateInit, PTL DEF Spec
<1> QED BY <1>3 DEF PublishedMotionBounded

=============================================================================
