----------------------- MODULE TrackerReadiness_proofs -----------------------
(***************************************************************************)
(* Proofs about the readiness gate, for every set of readings, every       *)
(* settling time and every window.                                         *)
(***************************************************************************)
EXTENDS TrackerReadiness, TLAPS

\* What the gate keeps true between calls.  A token in force is never
\* invalidated, belongs to the identity readiness was proved for, carries the
\* readiness generation, and compares against the scene it was minted under.
LeaseInv(g, m) ==
  g.ready_token # None =>
    /\ g.invalidated = None
    /\ g.ready_identity = [epoch |-> g.ready_token.epoch, cohort |-> g.ready_token.cohort]
    /\ g.ready_token.readiness = g.readiness
    /\ g.ready_scene = m
    /\ \A l \in g.ready_token.cohort : m[l] # None

\* The samples of the window were measured in the map last observed.
WindowInv(g) ==
  \A s \in g.samples :
    /\ s.map = g.map_identity
    /\ s.generation = g.map_generation
    /\ g.ready_token = None => s.readiness = g.readiness

GateInv(g, m) == g \in Gate /\ LeaseInv(g, m) /\ WindowInv(g)

\* A stage of update() short of the grant leaves the lease alone or ends it.
Evolves(g, o) ==
  \/ o.ready_token = g.ready_token /\ o.readiness = g.readiness
  \/ o.ready_token = None /\ o.readiness \in Nat /\ o.readiness >= g.readiness

\* The stages keep the invariant and evolve the lease.
Stage(g, o, m) == GateInv(o, m) /\ Evolves(g, o)

\* Forgetting the samples disturbs nothing else.
LEMMA ForgetStage ==
  ASSUME NEW m \in Scene, NEW g, g \in Gate, LeaseInv(g, m)
  PROVE  GateInv(Forget(g), m)
  BY DEF Forget, GateInv, LeaseInv, WindowInv, Gate

\* The passing of time disturbs nothing but the clocks.
LEMMA AgedStage ==
  ASSUME NEW m \in Scene, NEW g, GateInv(g, m), NEW dt \in Nat
  PROVE  Stage(g, Aged(g, dt), m)
<1> DEFINE older == {[s EXCEPT !.age = Capped(@, dt, SampleKeep + 1)] : s \in g.samples}
<1>1. older \in SUBSET Held
  BY ReadinessAssumption DEF GateInv, Gate, Held, Capped
<1>2. \A o \in older : \E s \in g.samples :
        o.map = s.map /\ o.generation = s.generation /\ o.readiness = s.readiness
  BY DEF GateInv, Gate, Held
<1>2a. /\ Capped(g.cohort_age, dt, CohortStable) \in Nat
       /\ Capped(g.map_age, dt, MapStable) \in Nat
  BY ReadinessAssumption DEF GateInv, Gate, Capped
<1>3. Aged(g, dt) \in Gate
  <2>1. Aged(g, dt) = [g EXCEPT !.cohort_age = Capped(g.cohort_age, dt, CohortStable),
                                !.map_age = Capped(g.map_age, dt, MapStable),
                                !.samples = older]
    BY DEF Aged
  <2> HIDE DEF older
  <2>2. g \in Gate
    BY DEF GateInv
  <2> QED BY ONLY <1>1, <1>2a, <2>1, <2>2 DEF Gate
<1>4. LeaseInv(Aged(g, dt), m) /\ Evolves(g, Aged(g, dt))
  BY DEF Aged, GateInv, Gate, LeaseInv, Evolves
<1>5. WindowInv(Aged(g, dt))
  BY <1>2 DEF Aged, GateInv, Gate, WindowInv
<1> QED BY <1>3, <1>4, <1>5 DEF Stage, GateInv

\* An invalidation ends the lease and its window, and counts at most once.
LEMMA InvalidateStage ==
  ASSUME NEW m \in Scene, NEW g, g \in Gate, NEW state \in Invalidity
  PROVE  /\ Stage(g, Invalidate(g, state), m)
         /\ Invalidate(g, state).ready_token = None
         /\ Invalidate(g, state).samples = {}
<1> DEFINE n == IF g.invalidated = None THEN g.readiness + 1 ELSE g.readiness
           o == [g EXCEPT !.readiness = n, !.invalidated = state, !.ready_token = None,
                          !.samples = {}, !.last_sequence = None]
<1>1. Invalidate(g, state) = o
  BY DEF Invalidate, Forget, Gate
<1>2. n \in Nat /\ n >= g.readiness
  BY DEF Gate
<1> HIDE DEF n
<1>3. o \in Gate
  BY <1>2 DEF Gate
<1>4. o.readiness = n /\ o.ready_token = None /\ o.samples = {}
  BY DEF Gate
<1> HIDE DEF o
<1> QED BY <1>1, <1>2, <1>3, <1>4 DEF Stage, GateInv, LeaseInv, WindowInv, Evolves

\* So does the dropping of a map.
LEMMA DropMapStage ==
  ASSUME NEW m \in Scene, NEW g, g \in Gate
  PROVE  /\ Stage(g, DropMap(g), m)
         /\ DropMap(g).ready_identity = None
<1> DEFINE i == Invalidate(g, "MAP_CHANGED")
<1>1. EmptyScene \in Scene
  BY DEF EmptyScene, Scene
<1>2. Stage(g, i, m) /\ i.ready_token = None /\ i.samples = {}
  BY InvalidateStage DEF Invalidity
<1>3. DropMap(g) = [i EXCEPT !.ready_identity = None, !.ready_scene = EmptyScene]
  BY DEF DropMap
<1> HIDE DEF i
<1>4. i \in Gate
  BY <1>2 DEF Stage, GateInv
<1>5. /\ DropMap(g) \in Gate
      /\ DropMap(g).ready_identity = None
      /\ DropMap(g).ready_token = None
      /\ DropMap(g).samples = {}
      /\ DropMap(g).readiness = i.readiness
  BY ONLY <1>1, <1>3, <1>4, <1>2 DEF Gate
<1>6. Evolves(g, DropMap(g))
  BY <1>2, <1>4, <1>5 DEF Stage, Evolves, Gate
<1> QED BY <1>5, <1>6 DEF Stage, GateInv, LeaseInv, WindowInv

\* Leases evolve transitively along the stages of a call.
LEMMA EvolvesTransitive ==
  ASSUME NEW g, g \in Gate, NEW o, o \in Gate, NEW p, p \in Gate,
         Evolves(g, o), Evolves(o, p)
  PROVE  Evolves(g, p)
  BY DEF Evolves, Gate

\* Observing a cohort ends a lease on another one and restarts the clocks.
LEMMA ObserveCohortStage ==
  ASSUME NEW m \in Scene, NEW g, GateInv(g, m), NEW h \in Reading
  PROVE  Stage(g, ObserveCohort(g, h), m)
<1> DEFINE c == [g EXCEPT !.observed_cohort = h.cohort, !.cohort_age = 0,
                          !.map_identity = None, !.map_generation = 0, !.map_age = 0]
           seen == Forget(c)
<1>1. g \in Gate
  BY DEF GateInv
<1>2. /\ c \in Gate /\ LeaseInv(c, m)
      /\ c.ready_token = g.ready_token /\ c.readiness = g.readiness
  BY <1>1 DEF GateInv, LeaseInv, Gate, Reading
<1>3. GateInv(seen, m)
  BY <1>2, ForgetStage
<1>4. seen.ready_token = g.ready_token /\ seen.readiness = g.readiness
  BY <1>2 DEF Forget, Gate
<1>5. Stage(g, seen, m)
  BY <1>3, <1>4 DEF Stage, Evolves
<1>6. Stage(g, DropMap(seen), m)
  BY <1>1, <1>3, <1>5, DropMapStage, EvolvesTransitive DEF Stage, GateInv
<1>7. Stage(g, g, m)
  BY DEF Stage, Evolves
<1>8. ObserveCohort(g, h) \in {g, seen, DropMap(seen)}
  BY DEF ObserveCohort
<1> QED BY <1>5, <1>6, <1>7, <1>8

\* Checking the map ends a lease the reading no longer agrees with.
LEMMA CheckMapStage ==
  ASSUME NEW m \in Scene, NEW g, GateInv(g, m), NEW h \in Reading
  PROVE  Stage(g, CheckMap(g, h), m) /\ ~MapChanged(CheckMap(g, h), h)
<1>1. CASE MapChanged(g, h)
  BY <1>1, DropMapStage DEF CheckMap, GateInv, MapChanged
<1>2. CASE ~MapChanged(g, h)
  BY <1>2 DEF CheckMap, Stage, Evolves
<1> QED BY <1>1, <1>2

\* Observing a complete map restarts its clock and the window if it is new.
LEMMA ObserveMapStage ==
  ASSUME NEW m \in Scene, NEW g, GateInv(g, m), NEW h \in Reading, ~MapChanged(g, h)
  PROVE  /\ Stage(g, ObserveMap(g, h), m)
         /\ ~MapChanged(ObserveMap(g, h), h)
         /\ ObserveMap(g, h).map_identity = IdentityOf(h)
         /\ ObserveMap(g, h).map_generation = h.generation
<1> DEFINE c == [g EXCEPT !.map_identity = IdentityOf(h),
                          !.map_generation = h.generation, !.map_age = 0]
<1>1. g \in Gate /\ IdentityOf(h) \in Identity
  BY DEF GateInv, IdentityOf, Identity, Reading
<1>2. CASE g.map_identity = IdentityOf(h) /\ g.map_generation = h.generation
  BY <1>2 DEF ObserveMap, Stage, Evolves
<1>3. CASE ~(g.map_identity = IdentityOf(h) /\ g.map_generation = h.generation)
  <2>1. /\ c \in Gate /\ LeaseInv(c, m)
        /\ c.ready_token = g.ready_token /\ c.readiness = g.readiness
        /\ c.ready_identity = g.ready_identity /\ c.ready_scene = g.ready_scene
        /\ c.map_identity = IdentityOf(h) /\ c.map_generation = h.generation
    BY <1>1 DEF GateInv, LeaseInv, Gate, Reading
  <2> HIDE DEF c
  <2>2. ObserveMap(g, h) = Forget(c)
    BY <1>3 DEF ObserveMap, c
  <2>3. GateInv(Forget(c), m)
    BY <2>1, ForgetStage
  <2>4. /\ Forget(c).ready_token = g.ready_token
        /\ Forget(c).readiness = g.readiness
        /\ Forget(c).ready_identity = g.ready_identity
        /\ Forget(c).ready_scene = g.ready_scene
        /\ Forget(c).map_identity = IdentityOf(h)
        /\ Forget(c).map_generation = h.generation
    BY <2>1 DEF Forget, Gate
  <2> QED BY <2>2, <2>3, <2>4 DEF Stage, Evolves, MapChanged
<1> QED BY <1>2, <1>3

\* A sample joins the window of the map it was measured in.
LEMMA AppendStage ==
  ASSUME NEW m \in Scene, NEW g, GateInv(g, m), NEW h \in Reading, NEW s \in Tracker,
         g.map_identity = IdentityOf(h), g.map_generation = h.generation
  PROVE  Stage(g, Append(g, h, s), m)
<1> DEFINE e == [age |-> 0, pose |-> s.pose, map |-> IdentityOf(h),
                 generation |-> h.generation, readiness |-> g.readiness]
           S == {x \in g.samples : x.age <= SampleKeep} \cup {e}
<1>1. g \in Gate /\ e \in Held
  BY DEF GateInv, Gate, Held, IdentityOf, Identity, Reading, Tracker
<1>2. S \in SUBSET Held
  BY <1>1 DEF Gate
<1>3. \A x \in S : /\ x.map = g.map_identity /\ x.generation = g.map_generation
                   /\ g.ready_token = None => x.readiness = g.readiness
  BY DEF GateInv, WindowInv
<1> HIDE DEF S
<1>4. CASE s.seq = 0 \/ s.seq = g.last_sequence
  BY <1>4 DEF Append, Stage, Evolves
<1>5. CASE ~(s.seq = 0 \/ s.seq = g.last_sequence)
  <2>1. Append(g, h, s) = [g EXCEPT !.last_sequence = s.seq, !.samples = S]
    BY <1>5 DEF Append, S
  <2>2. /\ Append(g, h, s) \in Gate
        /\ Append(g, h, s).samples = S
    BY <1>1, <1>2, <2>1 DEF Gate, Tracker
  <2>3. /\ Append(g, h, s).map_identity = g.map_identity
        /\ Append(g, h, s).map_generation = g.map_generation
        /\ Append(g, h, s).ready_token = g.ready_token
        /\ Append(g, h, s).readiness = g.readiness
        /\ Append(g, h, s).invalidated = g.invalidated
        /\ Append(g, h, s).ready_identity = g.ready_identity
        /\ Append(g, h, s).ready_scene = g.ready_scene
    BY <1>1, <2>1 DEF Gate
  <2>4. LeaseInv(Append(g, h, s), m)
    BY <2>3 DEF LeaseInv, GateInv
  <2>5. WindowInv(Append(g, h, s))
    BY <2>2, <2>3, <1>3 DEF WindowInv
  <2> QED BY <2>2, <2>3, <2>4, <2>5 DEF Stage, GateInv, Evolves
<1> QED BY <1>4, <1>5

\* A grant under a complete map, from a gate without a token, is a lease on
\* that map with a number of its own.
LEMMA GrantStage ==
  ASSUME NEW m \in Scene, NEW g, GateInv(g, m), NEW h \in Reading, Complete(h),
         g.ready_token = None
  PROVE  /\ GateInv(Grant(g, h), LeasedScene(h))
         /\ LeasedScene(h) \in Scene
         /\ Grant(g, h).ready_token # None
         /\ Grant(g, h).readiness = g.readiness + 1
         /\ Grant(g, h).ready_identity = IdentityOf(h)
         /\ ~MapChanged(Grant(g, h), h)
<1> DEFINE n == g.readiness + 1
           t == [epoch |-> h.epoch, generation |-> h.generation,
                 cohort |-> h.cohort, readiness |-> n]
           o == [g EXCEPT !.readiness = n, !.ready_token = t,
                          !.ready_identity = IdentityOf(h),
                          !.ready_scene = LeasedScene(h), !.invalidated = None]
<1>1. g \in Gate /\ n \in Nat
  BY DEF GateInv, Gate
<1>2. Grant(g, h) = o
  BY <1>1 DEF Grant, Gate
<1>3. t \in Token /\ t # None /\ IdentityOf(h) \in Identity
  BY <1>1, ReadinessAssumption DEF Token, Identity, IdentityOf, Reading
<1>4. LeasedScene(h) \in Scene
  BY DEF LeasedScene, Scene, Reading
<1>5. /\ o \in Gate /\ o.readiness = n /\ o.ready_token = t /\ o.invalidated = None
      /\ o.ready_identity = IdentityOf(h) /\ o.ready_scene = LeasedScene(h)
      /\ o.samples = g.samples
      /\ o.map_identity = g.map_identity /\ o.map_generation = g.map_generation
  <2> HIDE DEF n, t
  <2> QED BY <1>1, <1>3, <1>4 DEF Gate
<1>6. t.epoch = h.epoch /\ t.cohort = h.cohort /\ t.readiness = n
  OBVIOUS
<1>7. \A l \in h.cohort : l \in Lighthouse /\ h.scene[l] # None
  BY DEF Complete, Reading, Cohort
<1> HIDE DEF o, n, t
<1>8. \A l \in h.cohort : LeasedScene(h)[l] # None
  BY <1>7 DEF LeasedScene
<1>9. LeaseInv(o, LeasedScene(h))
  BY <1>5, <1>6, <1>8 DEF LeaseInv, IdentityOf
<1>10. WindowInv(o)
  BY <1>3, <1>5 DEF GateInv, WindowInv
<1>11. ~MapChanged(o, h)
  <2>1. \A l \in Lighthouse : LeasedScene(h)[l] # None =>
          h.scene[l] \in Int /\ LeasedScene(h)[l] = h.scene[l]
    BY DEF LeasedScene, Reading, Scene
  <2>2. \A x \in Int : Near(x, x, MapDelta)
    BY ReadinessAssumption DEF Near
  <2>3. \A l \in Lighthouse : LeasedScene(h)[l] # None =>
          h.scene[l] # None /\ Near(h.scene[l], LeasedScene(h)[l], MapDelta)
    BY <2>1, <2>2
  <2> QED BY <1>5, <2>3 DEF MapChanged
<1> QED BY <1>2, <1>3, <1>4, <1>5, <1>9, <1>10, <1>11 DEF GateInv, n

\* The stages a call goes through before it returns.
LEMMA CallStages ==
  ASSUME GateInv(gate, minted), minted \in Scene, NEW h \in Reading, NEW dt \in Nat
  PROVE  /\ Stage(gate, Aged(gate, dt), minted)
         /\ Stage(gate, Cohorted(h, dt), minted)
         /\ Stage(gate, Checked(h, dt), minted)
         /\ Stage(gate, Mapped(h, dt), minted)
         /\ ~MapChanged(Mapped(h, dt), h)
         /\ Mapped(h, dt).map_identity = IdentityOf(h)
         /\ Mapped(h, dt).map_generation = h.generation
<1>1. Stage(gate, Aged(gate, dt), minted)
  BY AgedStage
<1>2. Stage(Aged(gate, dt), Cohorted(h, dt), minted)
  BY <1>1, ObserveCohortStage DEF Stage, Cohorted
<1>3. /\ Stage(Cohorted(h, dt), Checked(h, dt), minted)
      /\ ~MapChanged(Checked(h, dt), h)
  BY <1>2, CheckMapStage DEF Stage, Checked
<1>4. /\ Stage(Checked(h, dt), Mapped(h, dt), minted)
      /\ ~MapChanged(Mapped(h, dt), h)
      /\ Mapped(h, dt).map_identity = IdentityOf(h)
      /\ Mapped(h, dt).map_generation = h.generation
  BY <1>3, ObserveMapStage DEF Stage, Mapped
<1>5. Stage(gate, Cohorted(h, dt), minted)
  BY <1>1, <1>2, EvolvesTransitive DEF Stage, GateInv
<1>6. Stage(gate, Checked(h, dt), minted)
  BY <1>3, <1>5, EvolvesTransitive DEF Stage, GateInv
<1>7. Stage(gate, Mapped(h, dt), minted)
  BY <1>4, <1>6, EvolvesTransitive DEF Stage, GateInv
<1> QED BY <1>1, <1>4, <1>5, <1>6, <1>7

-----------------------------------------------------------------------------
(* The inductive invariant.                                                 *)

\* A READY answer is about the lease in force, and the reading it was given
\* for agrees with it.
ReadyInv ==
  snapshot.state = "READY" =>
    /\ health.bridge
    /\ gate.ready_token # None /\ snapshot.token = gate.ready_token
    /\ gate.ready_identity = IdentityOf(health)
    /\ ~MapChanged(gate, health)

IInv == /\ GateInv(gate, minted)
        /\ minted \in Scene /\ health \in Reading
        /\ snapshot \in [state : State, token : Token \cup {None}]
        /\ ReadyInv

\* What a step does to the lease.
LeaseStep ==
  \/ Evolves(gate, gate')
  \/ /\ gate'.ready_token # None
     /\ gate'.ready_token.readiness = gate'.readiness
     /\ gate'.readiness > gate.readiness

\* A new gate keeps the invariant.
LEMMA InitIInv == Init => IInv
<1> SUFFICES ASSUME Init PROVE IInv
  OBVIOUS
<1>1. EmptyScene \in Scene
  BY DEF EmptyScene, Scene
<1>2. NewGate \in Gate /\ NewGate.ready_token = None /\ NewGate.samples = {}
  BY <1>1 DEF NewGate, Gate, Cohort
<1>3. NoReading \in Reading
  BY <1>1 DEF NoReading, Reading, Cohort
<1> QED BY <1>1, <1>2, <1>3 DEF Init, IInv, GateInv, LeaseInv, WindowInv, ReadyInv, State

\* Returning a state other than READY keeps the invariant, from any stage.
LEMMA ReturnStep ==
  ASSUME IInv, NEW h \in Reading, NEW g, Stage(gate, g, minted), UNCHANGED minted,
         NEW state \in State \ {"READY"}, Return(h, g, state, None)
  PROVE  IInv' /\ LeaseStep
  BY DEF Return, IInv, Stage, ReadyInv, LeaseStep

\* So does a reason to wait, hidden by an invalidation or not.
LEMMA WaitingStep ==
  ASSUME IInv, NEW h \in Reading, NEW g, Stage(gate, g, minted),
         NEW state \in State \ {"READY"}, Waiting(h, g, state)
  PROVE  IInv' /\ LeaseStep
<1> DEFINE told == IF g.invalidated # None THEN g.invalidated ELSE state
<1>1. told \in State \ {"READY"}
  BY DEF Stage, GateInv, Gate, State, Invalidity
<1>2. Return(h, g, told, None) /\ UNCHANGED minted
  BY DEF Waiting
<1> HIDE DEF told
<1> QED BY <1>1, <1>2, ReturnStep

\* Every return of update() that does not look at the sample keeps the
\* invariant and only evolves the lease.
LEMMA UpdateOfMapIInv ==
  ASSUME IInv, NEW h \in Health, NEW dt \in Elapsed, UpdateOfMap(h, dt)
  PROVE  IInv' /\ LeaseStep
<1>1. h \in Reading /\ dt \in Nat /\ gate \in Gate
  BY ReadinessAssumption DEF IInv, GateInv
<1>2. /\ Stage(gate, Aged(gate, dt), minted)
      /\ Stage(gate, Cohorted(h, dt), minted)
      /\ Stage(gate, Checked(h, dt), minted)
      /\ Stage(gate, Mapped(h, dt), minted)
      /\ ~MapChanged(Mapped(h, dt), h)
      /\ Mapped(h, dt).map_identity = IdentityOf(h)
      /\ Mapped(h, dt).map_generation = h.generation
  BY <1>1, CallStages DEF IInv
<1>3. CASE BridgeDown(h, dt)
  <2>1. Stage(Aged(gate, dt), Invalidate(Aged(gate, dt), "ERROR"), minted)
    BY <1>2, InvalidateStage DEF Stage, GateInv, Invalidity, IInv
  <2>2. Stage(gate, Invalidate(Aged(gate, dt), "ERROR"), minted)
    BY <1>1, <1>2, <2>1, EvolvesTransitive DEF Stage, GateInv
  <2> QED BY <1>1, <1>3, <2>2, ReturnStep DEF BridgeDown, State, Invalidity
<1>4. CASE ContextStarting(h, dt)
  BY <1>1, <1>2, <1>4, ReturnStep DEF ContextStarting, State
<1>5. CASE NoLighthouse(h, dt)
  BY <1>1, <1>2, <1>5, ReturnStep DEF NoLighthouse, State
<1>6. CASE CohortSettling(h, dt)
  BY <1>1, <1>2, <1>6, WaitingStep DEF CohortSettling, State
<1>7. CASE MapIncomplete(h, dt)
  BY <1>1, <1>2, <1>7, WaitingStep DEF MapIncomplete, State
<1>8. CASE MapSettling(h, dt)
  BY <1>1, <1>2, <1>8, WaitingStep DEF MapSettling, State
<1> QED BY <1>3, <1>4, <1>5, <1>6, <1>7, <1>8 DEF UpdateOfMap

\* So does every return that does, and a grant is a lease of its own.
LEMMA UpdateOfSampleIInv ==
  ASSUME IInv, NEW h \in Health, NEW s \in Sample, NEW dt \in Elapsed,
         UpdateOfSample(h, s, dt)
  PROVE  IInv' /\ LeaseStep
<1>1. h \in Reading /\ dt \in Nat /\ gate \in Gate
  BY ReadinessAssumption DEF IInv, GateInv
<1>2. /\ Stage(gate, Aged(gate, dt), minted)
      /\ Stage(gate, Cohorted(h, dt), minted)
      /\ Stage(gate, Checked(h, dt), minted)
      /\ Stage(gate, Mapped(h, dt), minted)
      /\ ~MapChanged(Mapped(h, dt), h)
      /\ Mapped(h, dt).map_identity = IdentityOf(h)
      /\ Mapped(h, dt).map_generation = h.generation
  BY <1>1, CallStages DEF IInv
<1>3. CASE OpticsLost(h, s, dt)
  <2> DEFINE g == Mapped(h, dt)
             o == IF g.ready_identity # None THEN Invalidate(g, "LOST") ELSE g
  <2>1. Stage(g, Invalidate(g, "LOST"), minted)
    BY <1>2, InvalidateStage DEF Stage, GateInv, Invalidity, IInv
  <2>2. Stage(gate, Invalidate(g, "LOST"), minted)
    BY <1>1, <1>2, <2>1, EvolvesTransitive DEF Stage, GateInv
  <2>3. Stage(gate, o, minted)
    BY <1>2, <2>2
  <2>4. Waiting(h, o, "VERIFYING_STABILITY")
    BY <1>3 DEF OpticsLost
  <2> HIDE DEF o
  <2> QED BY <1>1, <2>3, <2>4, WaitingStep DEF State
<1>4. CASE LeaseHeld(h, s, dt)
  <2> DEFINE g == Mapped(h, dt)
  <2>1. /\ h.bridge /\ gate' = g /\ health' = h /\ minted' = minted
        /\ snapshot' = [state |-> "READY", token |-> g.ready_token]
        /\ g.ready_identity = IdentityOf(h) /\ g.ready_token # None
    BY <1>4 DEF LeaseHeld, Return, Leased, Tracking, Settled, HasCohort, HasContext
  <2>2. GateInv(g, minted) /\ Evolves(gate, g) /\ ~MapChanged(g, h)
    BY <1>2 DEF Stage
  <2> HIDE DEF g
  <2>3. snapshot' \in [state : State, token : Token \cup {None}]
    BY <2>1, <2>2 DEF GateInv, Gate, State
  <2>4. GateInv(gate, minted)'
    BY <2>1, <2>2
  <2>5. ReadyInv'
    BY <2>1, <2>2 DEF ReadyInv
  <2> QED BY <1>1, <2>1, <2>2, <2>3, <2>4, <2>5 DEF IInv, LeaseStep
<1>5. CASE Verifying(h, s, dt)
  <2>1. s \in Tracker
    BY <1>5, ReadinessAssumption DEF Verifying, Live
  <2>2. Stage(Mapped(h, dt), Sampled(h, s, dt), minted)
    BY <1>1, <1>2, <2>1, AppendStage DEF Sampled, Stage, IInv
  <2>3. Stage(gate, Sampled(h, s, dt), minted)
    BY <1>1, <1>2, <2>2, EvolvesTransitive DEF Stage, GateInv
  <2> QED BY <1>1, <1>5, <2>3, WaitingStep DEF Verifying, State
<1>6. CASE Granted(h, s, dt)
  <2> DEFINE g == Mapped(h, dt)
             p == Sampled(h, s, dt)
             o == Grant(p, h)
  <2>1. s \in Tracker
    BY <1>6, ReadinessAssumption DEF Granted, Live
  <2>2. Stage(g, p, minted)
    BY <1>1, <1>2, <2>1, AppendStage DEF Sampled, Stage, IInv
  <2>3. Stage(gate, p, minted)
    BY <1>1, <1>2, <2>2, EvolvesTransitive DEF Stage, GateInv
  <2>4. g.ready_token = None
    <3>1. SUFFICES ASSUME g.ready_token # None PROVE Leased(g, h)
      BY <1>6 DEF Granted
    <3>2. g.invalidated = None /\ g.ready_identity # None
      BY <3>1, <1>2, ReadinessAssumption
      DEF Stage, GateInv, LeaseInv, Gate, Token, Identity
    <3>3. g.ready_identity = IdentityOf(h)
      BY <1>2, <3>2 DEF MapChanged
    <3> QED BY <3>1, <3>2, <3>3 DEF Leased
  <2>5. p.ready_token = None
    BY <2>2, <2>4 DEF Stage, Evolves
  <2>6. Complete(h) /\ h.bridge
    BY <1>6 DEF Granted, Tracking, Settled, HasCohort, HasContext
  <2>7. /\ GateInv(o, LeasedScene(h)) /\ LeasedScene(h) \in Scene
        /\ o.ready_token # None /\ o.readiness = p.readiness + 1
        /\ o.ready_identity = IdentityOf(h) /\ ~MapChanged(o, h)
    BY <1>1, <2>3, <2>5, <2>6, GrantStage DEF Stage, IInv
  <2>8. /\ gate' = o /\ health' = h /\ minted' = LeasedScene(h)
        /\ snapshot' = [state |-> "READY", token |-> o.ready_token]
    BY <1>6, <2>5 DEF Granted, Return
  <2>9. o.readiness > gate.readiness
    BY <1>1, <2>3, <2>7 DEF Stage, GateInv, Gate, Evolves
  <2> HIDE DEF o
  <2>10. snapshot' \in [state : State, token : Token \cup {None}]
    BY <2>7, <2>8 DEF GateInv, Gate, State
  <2>11. ReadyInv'
    BY <2>6, <2>7, <2>8 DEF ReadyInv
  <2>12. GateInv(gate, minted)' /\ minted' \in Scene
    BY <2>7, <2>8
  <2>13. LeaseStep
    BY <2>7, <2>8, <2>9 DEF LeaseStep, GateInv, LeaseInv
  <2> QED BY <1>1, <2>8, <2>10, <2>11, <2>12, <2>13 DEF IInv
<1> QED BY <1>3, <1>4, <1>5, <1>6 DEF UpdateOfSample

\* Every step keeps the invariant, and evolves or grants the lease.
LEMMA NextIInv == IInv /\ [Next]_vars => IInv' /\ (LeaseStep \/ UNCHANGED vars)
<1> SUFFICES ASSUME IInv, [Next]_vars PROVE IInv' /\ (LeaseStep \/ UNCHANGED vars)
  OBVIOUS
<1>1. CASE UNCHANGED vars
  BY <1>1 DEF vars, IInv, GateInv, LeaseInv, WindowInv, ReadyInv, MapChanged, IdentityOf
<1>2. CASE Next
  <2>1. \E h \in Health, dt \in Elapsed :
          \/ UpdateOfMap(h, dt)
          \/ \E s \in Sample : UpdateOfSample(h, s, dt)
    BY <1>2 DEF Next
  <2>2. PICK h \in Health, dt \in Elapsed :
          \/ UpdateOfMap(h, dt)
          \/ \E s \in Sample : UpdateOfSample(h, s, dt)
    BY <2>1
  <2>3. CASE UpdateOfMap(h, dt)
    BY <2>3, UpdateOfMapIInv
  <2>4. CASE \E s \in Sample : UpdateOfSample(h, s, dt)
    BY <2>4, UpdateOfSampleIInv
  <2> QED BY <2>2, <2>3, <2>4
<1> QED BY <1>1, <1>2

\* The invariant holds in every state of the gate.
LEMMA SpecIInv == Spec => []IInv
<1>1. IInv /\ [Next]_vars => IInv'
  BY NextIInv
<1> QED BY InitIInv, <1>1, PTL DEF Spec

-----------------------------------------------------------------------------
(* The theorems.                                                            *)

\* The gate's memory, its answers and the minted scene keep their types.
THEOREM TypeCorrect == Spec => []TypeOK
<1>1. IInv => TypeOK
  BY DEF IInv, GateInv, TypeOK
<1> QED BY <1>1, SpecIInv, PTL

\* A token SetReference would accept describes the map reported now, with
\* every station within MapDelta of where it was when the token was minted.
THEOREM LeaseDescribesMapAlways == Spec => []LeaseDescribesMap
<1>1. IInv => LeaseDescribesMap
  <2> SUFFICES ASSUME IInv, TokenIsCurrent(snapshot.token)
               PROVE  /\ health.bridge
                      /\ snapshot.token.epoch = health.epoch
                      /\ snapshot.token.cohort = health.cohort
                      /\ \A l \in snapshot.token.cohort :
                           /\ health.scene[l] # None /\ minted[l] # None
                           /\ Near(health.scene[l], minted[l], MapDelta)
    BY DEF LeaseDescribesMap
  <2>1. /\ health.bridge
        /\ gate.ready_token # None /\ snapshot.token = gate.ready_token
        /\ gate.ready_identity = IdentityOf(health)
        /\ ~MapChanged(gate, health)
    BY DEF TokenIsCurrent, IInv, ReadyInv
  <2>2. gate.ready_token \in Token /\ IdentityOf(health) \in Identity
    BY <2>1 DEF IInv, GateInv, Gate, IdentityOf, Identity, Reading
  <2>3. /\ [epoch |-> gate.ready_token.epoch, cohort |-> gate.ready_token.cohort]
             = IdentityOf(health)
        /\ gate.ready_scene = minted
        /\ \A l \in gate.ready_token.cohort : minted[l] # None
    BY <2>1 DEF IInv, GateInv, LeaseInv
  <2>4. /\ gate.ready_token.epoch = health.epoch
        /\ gate.ready_token.cohort = health.cohort
    BY <2>3 DEF IdentityOf
  <2>5. gate.ready_token.cohort \subseteq Lighthouse
    BY <2>2 DEF Token, Cohort
  <2>6. IdentityOf(health) # None
    BY <2>2, ReadinessAssumption
  <2>7. \A l \in gate.ready_token.cohort :
          health.scene[l] # None /\ Near(health.scene[l], minted[l], MapDelta)
    BY <2>1, <2>3, <2>5, <2>6 DEF MapChanged
  <2> QED BY <2>1, <2>3, <2>4, <2>7
<1> QED BY <1>1, SpecIInv, PTL

\* The window holds only samples of the map last observed complete, taken
\* since the last revocation.
THEOREM WindowOfOneMapAlways == Spec => []WindowOfOneMap
<1>1. IInv => WindowOfOneMap
  BY DEF IInv, GateInv, WindowInv, WindowOfOneMap
<1> QED BY <1>1, SpecIInv, PTL

\* The gate implements the lease: every token it grants is numbered above all
\* the tokens before it, and none comes back once it is taken back.
THEOREM LeaseImplemented == Spec => ImplementsLease
<1> DEFINE cur == IF gate.ready_token = None THEN 0 ELSE gate.ready_token.readiness
<1>1. Init => Lease!Init
  BY DEF Init, Lease!Init, NewGate
<1>2. IInv /\ IInv' /\ (LeaseStep \/ UNCHANGED vars)
      => [Lease!Grant \/ Lease!Revoke]_<<cur, gate.readiness>>
  <2> SUFFICES ASSUME IInv, IInv', LeaseStep \/ UNCHANGED vars
               PROVE  [Lease!Grant \/ Lease!Revoke]_<<cur, gate.readiness>>
    OBVIOUS
  <2>1. CASE UNCHANGED vars
    BY <2>1 DEF vars
  <2>2. CASE gate'.ready_token = gate.ready_token /\ gate'.readiness = gate.readiness
    BY <2>2
  <2>3. CASE gate'.ready_token = None /\ gate'.readiness >= gate.readiness
    BY <2>3 DEF Lease!Revoke
  <2>4. CASE /\ gate'.ready_token # None
             /\ gate'.ready_token.readiness = gate'.readiness
             /\ gate'.readiness > gate.readiness
    BY <2>4 DEF Lease!Grant
  <2> QED BY <2>1, <2>2, <2>3, <2>4 DEF LeaseStep, Evolves
<1>3. Init /\ []IInv /\ [][Next]_vars => Lease!Spec
  BY <1>1, <1>2, NextIInv, PTL DEF Lease!Spec
<1> QED BY <1>3, SpecIInv, PTL DEF Spec, ImplementsLease
=============================================================================
