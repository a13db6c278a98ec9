-------------------------- MODULE TrackerReadiness --------------------------
(***************************************************************************)
(* TrackerReadinessGate (leader/tracker_readiness.py): the policy that     *)
(* turns the health facts of the tracking SDK into a tokenized lease.  One *)
(* action per return of update(): each is the whole call, from the clocks  *)
(* read at its start to the snapshot it returns.  The SDK's reading, the   *)
(* Tracker sample and the time since the last call are arbitrary.          *)
(***************************************************************************)
EXTENDS Integers, FiniteSets

CONSTANTS
  Lighthouse,     \* base stations
  Health,         \* readings of the SDK: bridge, epoch, generation, cohort, scene, covered
  Sample,         \* Tracker samples: seq, pose, live
  Elapsed,        \* ticks between two calls of update()
  CohortStable,   \* ticks a cohort must be unchanged        (2 s)
  MapStable,      \* ticks a global map must be quiet        (15 s)
  StableWindow,   \* ticks the samples must span             (1 s)
  SampleKeep,     \* ticks a sample is kept                  (1.25 s)
  StableSamples,  \* samples needed                          (20)
  PoseSpread,     \* how far apart the samples may lie       (5 mm)
  MapDelta,       \* how far a station may drift under a lease (5 mm)
  MaxReadiness,   \* bound on the readiness generation
  None            \* Python's None and the empty token

Cohort == SUBSET Lighthouse
Scene == [Lighthouse -> Int \cup {None}]   \* None: not solved
Reading == [bridge : BOOLEAN, epoch : Nat, generation : Nat,
            cohort : Cohort, scene : Scene, covered : BOOLEAN]
Tracker == [seq : Nat, pose : Int, live : BOOLEAN]
Identity == [epoch : Nat, cohort : Cohort]
Token == [epoch : Nat, generation : Nat, cohort : Cohort, readiness : Nat]
Invalidity == {"ERROR", "MAP_CHANGED", "LOST"}

ASSUME ReadinessAssumption ==
  /\ Health \subseteq Reading
  /\ Sample \subseteq Tracker \cup {None}
  /\ Elapsed \subseteq Nat \ {0}
  /\ CohortStable \in Nat /\ MapStable \in Nat /\ StableWindow \in Nat
  /\ SampleKeep \in Nat /\ StableSamples \in Nat /\ PoseSpread \in Nat
  /\ MapDelta \in Nat /\ MaxReadiness \in Nat
  /\ None \notin Tracker \cup Int \cup Identity \cup Token \cup Invalidity

VARIABLES
  gate,       \* the TrackerReadinessGate
  snapshot,   \* what the last update() returned: state and token
  health,     \* the reading that update() was given
  minted      \* the scene under which the token in force was granted

vars == <<gate, snapshot, health, minted>>

-----------------------------------------------------------------------------
(* The gate's memory.  Ages stand for now_s minus a remembered time, so     *)
(* they are capped where no comparison can tell larger ones apart.          *)

State == Invalidity \cup {"STARTING", "WAITING_LIGHTHOUSE", "SOLVING_GLOBAL_SCENE",
                          "VERIFYING_STABILITY", "READY"}

\* A sample of the stability window, with the map it was measured in and the
\* readiness generation it was taken under.
Held == [age : Nat, pose : Int, map : Identity, generation : Nat, readiness : Nat]

Gate == [observed_cohort : Cohort, cohort_age : Nat,
         map_identity : Identity \cup {None}, map_generation : Nat, map_age : Nat,
         ready_identity : Identity \cup {None}, ready_scene : Scene,
         readiness : Nat, ready_token : Token \cup {None},
         invalidated : Invalidity \cup {None},
         samples : SUBSET Held, last_sequence : Nat \cup {None}]

EmptyScene == [l \in Lighthouse |-> None]

NewGate ==
  [observed_cohort |-> {}, cohort_age |-> 0,
   map_identity |-> None, map_generation |-> 0, map_age |-> 0,
   ready_identity |-> None, ready_scene |-> EmptyScene,
   readiness |-> 0, ready_token |-> None, invalidated |-> None,
   samples |-> {}, last_sequence |-> None]

\* The time since a remembered one, and the same with the two swapped.
CappedBackwards(age, dt, limit) == IF age - dt > limit THEN limit ELSE age - dt
Capped(age, dt, limit) == IF age + dt > limit THEN limit ELSE age + dt

\* The gate as it stands when dt has passed since the last call.
Aged(g, dt) ==
  [g EXCEPT !.cohort_age = Capped(@, dt, CohortStable),
            !.map_age = Capped(@, dt, MapStable),
            !.samples = {[s EXCEPT !.age = Capped(@, dt, SampleKeep + 1)] : s \in @}]

Forget(g) == [g EXCEPT !.samples = {}, !.last_sequence = None]

\* _invalidate
Invalidate(g, state) ==
  Forget([g EXCEPT !.readiness = IF g.invalidated = None THEN @ + 1 ELSE @,
                   !.invalidated = state, !.ready_token = None])

DropMap(g) ==
  [Invalidate(g, "MAP_CHANGED") EXCEPT !.ready_identity = None, !.ready_scene = EmptyScene]

IdentityOf(h) == [epoch |-> h.epoch, cohort |-> h.cohort]

Near(a, b, limit) == a - b <= limit /\ b - a <= limit

\* A cohort that differs from the observed one restarts both settling clocks
\* and ends the lease on a map of another cohort.
ObserveCohort(g, h) ==
  LET seen == Forget([g EXCEPT !.observed_cohort = h.cohort, !.cohort_age = 0,
                               !.map_identity = None, !.map_generation = 0,
                               !.map_age = 0])
  IN  IF h.cohort = g.observed_cohort THEN g
      ELSE IF g.ready_identity # None /\ h.cohort # g.ready_identity.cohort
           THEN DropMap(seen)
           ELSE seen

\* _map_change_reason: the context, the cohort or a station's pose is no
\* longer the one readiness was proved under.
MapChanged(g, h) ==
  /\ g.ready_identity # None
  /\ \/ g.ready_identity # IdentityOf(h)
     \/ \E l \in Lighthouse :
          /\ g.ready_scene[l] # None
          /\ h.scene[l] = None \/ ~Near(h.scene[l], g.ready_scene[l], MapDelta)

CheckMap(g, h) == IF MapChanged(g, h) THEN DropMap(g) ELSE g

\* _observe_complete_map; the first form leaves the samples of the last map.
ObserveMapKeepingSamples(g, h) ==
  IF g.map_identity = IdentityOf(h) /\ g.map_generation = h.generation THEN g
  ELSE [g EXCEPT !.map_identity = IdentityOf(h),
                 !.map_generation = h.generation, !.map_age = 0]
ObserveMap(g, h) ==
  IF g.map_identity = IdentityOf(h) /\ g.map_generation = h.generation THEN g
  ELSE Forget([g EXCEPT !.map_identity = IdentityOf(h),
                        !.map_generation = h.generation, !.map_age = 0])

\* _append_sample: an event seen before adds nothing.  The first form keeps
\* samples for less than the window they must span.
AppendKeepingLess(g, h, s) ==
  IF s.seq = 0 \/ s.seq = g.last_sequence THEN g
  ELSE [g EXCEPT !.last_sequence = s.seq,
                 !.samples = {e \in @ : e.age < StableWindow} \cup
                   {[age |-> 0, pose |-> s.pose, map |-> IdentityOf(h),
                     generation |-> h.generation, readiness |-> g.readiness]}]
Append(g, h, s) ==
  IF s.seq = 0 \/ s.seq = g.last_sequence THEN g
  ELSE [g EXCEPT !.last_sequence = s.seq,
                 !.samples = {e \in @ : e.age <= SampleKeep} \cup
                   {[age |-> 0, pose |-> s.pose, map |-> IdentityOf(h),
                     generation |-> h.generation, readiness |-> g.readiness]}]

\* _stability
Stable(S) ==
  /\ S # {}
  /\ Cardinality(S) >= StableSamples
  /\ \E a, b \in S : a.age - b.age >= StableWindow
  /\ \A a, b \in S : Near(a.pose, b.pose, PoseSpread)

LeasedScene(h) == [l \in Lighthouse |-> IF l \in h.cohort THEN h.scene[l] ELSE None]

\* The lease that a stable window grants under reading h.  The first form
\* grants it without a new readiness generation.
GrantSameGeneration(g, h) ==
  [g EXCEPT !.ready_token = [epoch |-> h.epoch, generation |-> h.generation,
                             cohort |-> h.cohort, readiness |-> g.readiness],
            !.ready_identity = IdentityOf(h),
            !.ready_scene = LeasedScene(h),
            !.invalidated = None]
Grant(g, h) ==
  LET n == IF g.ready_token = None THEN g.readiness + 1 ELSE g.readiness
  IN  [g EXCEPT !.readiness = n,
                !.ready_token = IF @ # None THEN @
                                ELSE [epoch |-> h.epoch, generation |-> h.generation,
                                      cohort |-> h.cohort, readiness |-> n],
                !.ready_identity = IdentityOf(h),
                !.ready_scene = LeasedScene(h),
                !.invalidated = None]

-----------------------------------------------------------------------------
(* update(): the ways it returns.                                           *)

\* The gate is left as g and the caller is told state, under the token.
Return(h, g, state, token) ==
  /\ g.readiness <= MaxReadiness
  /\ gate' = g
  /\ snapshot' = [state |-> state, token |-> token]
  /\ health' = h

\* A reason to wait is hidden by an invalidation that is still standing.
Waiting(h, g, state) ==
  /\ Return(h, g, IF g.invalidated # None THEN g.invalidated ELSE state, None)
  /\ UNCHANGED minted

BridgeDown(h, dt) ==
  /\ ~h.bridge
  /\ Return(h, Invalidate(Aged(gate, dt), "ERROR"), "ERROR", None)
  /\ UNCHANGED minted

ContextStarting(h, dt) ==
  /\ h.bridge /\ h.epoch = 0
  /\ Return(h, Aged(gate, dt), "STARTING", None)
  /\ UNCHANGED minted

\* From here on the SDK has a context: the gate after the cohort was observed.
Cohorted(h, dt) == ObserveCohort(Aged(gate, dt), h)
HasContext(h) == h.bridge /\ h.epoch > 0

NoLighthouse(h, dt) ==
  /\ HasContext(h) /\ h.cohort = {}
  /\ Return(h, Cohorted(h, dt), "WAITING_LIGHTHOUSE", None)
  /\ UNCHANGED minted

HasCohort(h) == HasContext(h) /\ h.cohort # {}

CohortSettling(h, dt) ==
  /\ HasCohort(h) /\ Cohorted(h, dt).cohort_age < CohortStable
  /\ Waiting(h, Cohorted(h, dt), "WAITING_LIGHTHOUSE")

\* The cohort has settled, and the lease was checked against the map.
Settled(h, dt) == HasCohort(h) /\ Cohorted(h, dt).cohort_age >= CohortStable
Checked(h, dt) == CheckMap(Cohorted(h, dt), h)
Complete(h) == h.generation > 0 /\ (\A l \in h.cohort : h.scene[l] # None) /\ h.covered

MapIncomplete(h, dt) ==
  /\ Settled(h, dt) /\ ~Complete(h)
  /\ Waiting(h, Checked(h, dt), "SOLVING_GLOBAL_SCENE")

\* The map is complete; a map without a lease must be quiet for MapStable.
Mapped(h, dt) == ObserveMap(Checked(h, dt), h)
Quiet(g) == g.ready_identity # None \/ g.map_age >= MapStable

MapSettling(h, dt) ==
  /\ Settled(h, dt) /\ Complete(h) /\ ~Quiet(Mapped(h, dt))
  /\ Waiting(h, Mapped(h, dt), "SOLVING_GLOBAL_SCENE")

Tracking(h, dt) == Settled(h, dt) /\ Complete(h) /\ Quiet(Mapped(h, dt))
Live(s) == s # None /\ s.live

OpticsLost(h, s, dt) ==
  /\ Tracking(h, dt) /\ ~Live(s)
  /\ LET g == Mapped(h, dt)
     IN  Waiting(h, IF g.ready_identity # None THEN Invalidate(g, "LOST") ELSE g,
                 "VERIFYING_STABILITY")

Leased(g, h) ==
  /\ g.ready_identity = IdentityOf(h)
  /\ g.ready_token # None
  /\ g.invalidated = None

\* The first form moves the lease's map along with the drift it tolerates.
LeaseHeldDrifting(h, s, dt) ==
  /\ Tracking(h, dt) /\ Live(s) /\ Leased(Mapped(h, dt), h)
  /\ Return(h, [Mapped(h, dt) EXCEPT !.ready_scene = LeasedScene(h)], "READY",
            Mapped(h, dt).ready_token)
  /\ UNCHANGED minted
LeaseHeld(h, s, dt) ==
  /\ Tracking(h, dt) /\ Live(s) /\ Leased(Mapped(h, dt), h)
  /\ Return(h, Mapped(h, dt), "READY", Mapped(h, dt).ready_token)
  /\ UNCHANGED minted

Sampled(h, s, dt) == Append(Mapped(h, dt), h, s)

Verifying(h, s, dt) ==
  /\ Tracking(h, dt) /\ Live(s) /\ ~Leased(Mapped(h, dt), h)
  /\ ~Stable(Sampled(h, s, dt).samples)
  /\ Waiting(h, Sampled(h, s, dt), "VERIFYING_STABILITY")

Granted(h, s, dt) ==
  /\ Tracking(h, dt) /\ Live(s) /\ ~Leased(Mapped(h, dt), h)
  /\ Stable(Sampled(h, s, dt).samples)
  /\ LET g == Grant(Sampled(h, s, dt), h)
     IN  /\ Return(h, g, "READY", g.ready_token)
         /\ minted' = IF Sampled(h, s, dt).ready_token # None THEN minted
                      ELSE LeasedScene(h)

\* The returns that never look at the sample, and those that do.
UpdateOfMap(h, dt) ==
  \/ BridgeDown(h, dt)
  \/ ContextStarting(h, dt)
  \/ NoLighthouse(h, dt)
  \/ CohortSettling(h, dt)
  \/ MapIncomplete(h, dt)
  \/ MapSettling(h, dt)

UpdateOfSample(h, s, dt) ==
  \/ OpticsLost(h, s, dt)
  \/ LeaseHeld(h, s, dt)
  \/ Verifying(h, s, dt)
  \/ Granted(h, s, dt)

Update(h, s, dt) == UpdateOfMap(h, dt) \/ UpdateOfSample(h, s, dt)

NoReading == [bridge |-> FALSE, epoch |-> 0, generation |-> 0, cohort |-> {},
              scene |-> EmptyScene, covered |-> FALSE]

Init == /\ gate = NewGate
        /\ snapshot = [state |-> "STARTING", token |-> None]
        /\ health = NoReading
        /\ minted = EmptyScene

Next == \E h \in Health, dt \in Elapsed :
          \/ UpdateOfMap(h, dt)
          \/ \E s \in Sample : UpdateOfSample(h, s, dt)

Spec == Init /\ [][Next]_vars

\* token_is_current: SetReference's test of a token the operator confirmed.
TokenIsCurrent(token) ==
  /\ token # None
  /\ snapshot.state = "READY"
  /\ token = snapshot.token
  /\ token = gate.ready_token

-----------------------------------------------------------------------------
(* Properties.                                                              *)

\* Types.
TypeOK ==
  /\ gate \in Gate
  /\ snapshot \in [state : State, token : Token \cup {None}]
  /\ health \in Reading
  /\ minted \in Scene

\* A token that SetReference would accept describes the map the SDK reports
\* now: the same context and cohort, and every station within MapDelta of
\* where it stood when the token was granted, however long ago that was.
LeaseDescribesMap ==
  \A token \in {snapshot.token} :
    TokenIsCurrent(token) =>
      /\ health.bridge
      /\ token.epoch = health.epoch
      /\ token.cohort = health.cohort
      /\ \A l \in token.cohort :
           /\ health.scene[l] # None /\ minted[l] # None
           /\ Near(health.scene[l], minted[l], MapDelta)

\* The window that will grant the next token holds only samples measured in
\* one map, the one last observed complete, and since the last revocation: no
\* evidence of stability crosses a change of map, a loss or an outage.
WindowOfOneMap ==
  \A s \in gate.samples :
    /\ s.map = gate.map_identity
    /\ s.generation = gate.map_generation
    /\ gate.ready_token = None => s.readiness = gate.readiness

\* The gate keeps the lease's promise: its token is numbered by the readiness
\* generation, and no token in force before a revocation comes back.
Lease == INSTANCE ReadinessLease
         WITH current <- IF gate.ready_token = None THEN 0 ELSE gate.ready_token.readiness,
              used <- gate.readiness
ImplementsLease == Lease!Spec

\* A call that finds the map it was last given, complete and unmoved, and a
\* new live sample of a Tracker at rest.
Calm ==
  /\ HasCohort(health) /\ Complete(health)
  /\ health' = health
  /\ \E s \in Sample \ {None} :
       /\ s.live /\ s.pose = 0 /\ s.seq \notin {0, gate.last_sequence}
       /\ Update(health, s, 1)

\* Whatever happened before, a Tracker that stays at rest in an unchanged map
\* that keeps being polled becomes READY and stays so: no path through the
\* settling clocks, the sample window and a standing invalidation leaves the
\* gate waiting for ever.
CalmBecomesReady ==
  /\ WF_vars(Calm)
  /\ <>[][Calm]_vars
  /\ <>[](HasCohort(health) /\ Complete(health) /\ gate.readiness < MaxReadiness)
  => <>[](snapshot.state = "READY")

=============================================================================
