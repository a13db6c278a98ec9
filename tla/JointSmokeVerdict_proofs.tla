----------------------- MODULE JointSmokeVerdict_proofs -----------------------
(***************************************************************************)
(* The verdict of the joint smoke test: a scan without a failure has       *)
(* brought every body joint back to where it was found.  A joint is home,  *)
(* on its way out or on its way back, and what the streams and the cache   *)
(* may show of it is bounded on each; a dwell that passes takes the joint  *)
(* from one to the next.                                                   *)
(***************************************************************************)
EXTENDS JointSmoke_proofs

\* A tier is told from home by a joint that is seen late and judged with tolerance.
Discerning == \A i \in 1 .. Len(Tiers) : 2 * Tolerance + Lag < Tiers[i]

-----------------------------------------------------------------------------
(* The plan: odd motions lead out, the even one after each leads back.       *)

Way(m) == IF ((m - 1) \div 2) % 2 = 0 THEN "up" ELSE "down"
Opposite(way) == IF way = "up" THEN "down" ELSE "up"

LEMMA Halves ==
  ASSUME NEW m \in Nat \ {0}
  PROVE  /\ m % 2 \in {0, 1} /\ (m - 1) \div 2 \in Nat
         /\ m % 2 = 1 => /\ (m + 1) % 2 = 0 /\ m \div 2 = (m - 1) \div 2
         /\ m % 2 = 0 => /\ (m + 1) % 2 = 1 /\ (m - 1) % 2 = 1 /\ (m - 2) \div 2 = (m - 1) \div 2
         /\ \A n \in Nat : m <= 2 * n /\ m % 2 = 1 => m + 1 <= 2 * n
  OBVIOUS

LEMMA PlanFacts ==
  ASSUME NEW base \in Arm, NEW m \in 1 .. 2 * Excursions
  PROVE  LET x == Scan(base)[m]
         IN  /\ m \in DOMAIN Scan(base) /\ x.joint \in Body /\ x.judged
             /\ m % 2 = 0 => x.target = base[x.joint]
             /\ m % 2 = 1 => \E i \in 1 .. Len(Tiers) :
                  x.target = base[x.joint] + (IF Way(m) = "up" THEN Tiers[i] ELSE -Tiers[i])
<1>0. Excursions \in Nat /\ DOMAIN Scan(base) = 1 .. 2 * Excursions + 3
  BY ScanFacts
<1>1. PICK e \in 0 .. Excursions - 1 : e = (m - 1) \div 2
  BY <1>0
<1>2. PICK x : x = Excursion(base, e)
  OBVIOUS
<1>3. /\ x.joint \in Body
      /\ \E i \in 1 .. Len(Tiers) :
           x.target = base[x.joint] + (IF e % 2 = 0 THEN Tiers[i] ELSE -Tiers[i])
  BY <1>2, ExcursionFacts
<1>4. m \in DOMAIN Scan(base) /\ m <= 2 * Excursions
  BY <1>0
<1>5. Scan(base)[m] = [joint |-> x.joint, driven |-> x.driven, judged |-> TRUE,
                       target |-> IF m % 2 = 1 THEN x.target ELSE base[x.joint]]
  BY <1>0, <1>1, <1>2, <1>4 DEF Scan
<1>6. Way(m) = "up" <=> e % 2 = 0
  BY <1>1 DEF Way
<1> QED BY <1>3, <1>4, <1>5, <1>6

\* The way out and the way back of one excursion.
LEMMA TwinFacts ==
  ASSUME NEW base \in Arm, NEW m \in 1 .. 2 * Excursions, m % 2 = 1
  PROVE  /\ m + 1 \in 1 .. 2 * Excursions /\ (m + 1) % 2 = 0 /\ Way(m + 1) = Way(m)
         /\ Scan(base)[m + 1].joint = Scan(base)[m].joint
         /\ Scan(base)[m + 1].driven = Scan(base)[m].driven
<1>0. Excursions \in Nat /\ DOMAIN Scan(base) = 1 .. 2 * Excursions + 3
  BY ScanFacts
<1>1. /\ m + 1 \in 1 .. 2 * Excursions /\ (m + 1) % 2 = 0
      /\ (m + 1 - 1) \div 2 = (m - 1) \div 2
  <2>1. m \in Nat \ {0} /\ m <= 2 * Excursions
    BY <1>0
  <2>2. (m + 1) % 2 = 0 /\ m \div 2 = (m - 1) \div 2 /\ m + 1 <= 2 * Excursions
    BY <1>0, <2>1, Halves
  <2>3. m + 1 - 1 = m
    OBVIOUS
  <2> QED BY <1>0, <2>1, <2>2, <2>3
<1>2. PICK e \in 0 .. Excursions - 1 : e = (m - 1) \div 2
  BY <1>0
<1>3. PICK x : x = Excursion(base, e)
  OBVIOUS
<1>4. m \in DOMAIN Scan(base) /\ m + 1 \in DOMAIN Scan(base)
      /\ m <= 2 * Excursions /\ m + 1 <= 2 * Excursions
  BY <1>0, <1>1
<1>5. Scan(base)[m] = [joint |-> x.joint, driven |-> x.driven, judged |-> TRUE,
                       target |-> IF m % 2 = 1 THEN x.target ELSE base[x.joint]]
  BY <1>0, <1>2, <1>3, <1>4 DEF Scan
<1>6. Scan(base)[m + 1] = [joint |-> x.joint, driven |-> x.driven, judged |-> TRUE,
                       target |-> IF (m + 1) % 2 = 1 THEN x.target ELSE base[x.joint]]
  <2>1. PICK k \in 1 .. 2 * Excursions : k = m + 1
    BY <1>1
  <2>2. k \in 1 .. 2 * Excursions + 3 /\ k <= 2 * Excursions /\ (k - 1) \div 2 = e
    BY <1>0, <1>1, <1>2, <2>1
  <2>3. Scan(base)[k] = [joint |-> x.joint, driven |-> x.driven, judged |-> TRUE,
                         target |-> IF k % 2 = 1 THEN x.target ELSE base[x.joint]]
    BY <1>3, <2>2 DEF Scan
  <2> QED BY <2>1, <2>3
<1>7. Way(m + 1) = Way(m)
  BY <1>1 DEF Way
<1> QED BY <1>1, <1>5, <1>6, <1>7

LEMMA GripperFacts ==
  ASSUME NEW base \in Arm, NEW m \in DOMAIN Scan(base), ~(m <= 2 * Excursions)
  PROVE  Scan(base)[m].joint \notin Body /\ ~Scan(base)[m].judged
<1>1. m \in 1 .. 2 * Excursions + 3
  BY ScanFacts
<1>2. Scan(base)[m] = [joint |-> Gripper, driven |-> TRUE, judged |-> FALSE,
                       target |-> <<0, Opening, base[Gripper]>>[m - 2 * Excursions]]
  BY <1>1 DEF Scan
<1> QED BY <1>2, BodyFacts

-----------------------------------------------------------------------------
(* Where a joint is, by the leg of its excursion.                            *)

\* How far a position is out, along the way of the excursion.
Off(way, j, p) == IF way = "up" THEN p - Rest[j] ELSE Rest[j] - p

\* At home, and seen no further away than tolerance and lag allow.
AtHome(j, arm, goal, seen) ==
  /\ Gap(arm, Rest[j]) <= Tolerance /\ Gap(goal, Rest[j]) <= Tolerance
  /\ \A x \in seen : Gap(x, Rest[j]) <= Tolerance + Lag

\* On its way out it may stall, but is not seen further out than it is.
OnWayOut(way, j, arm, goal, seen) ==
  LET off(p) == Off(way, j, p)
  IN  /\ off(goal) >= -Tolerance /\ off(arm) >= -Tolerance
      /\ off(arm) <= Tolerance \/ off(arm) <= off(goal)
      /\ \A x \in seen : off(x) <= Tolerance + Lag \/ off(x) <= off(arm)

\* On its way back it is not seen at home before it is there.
OnWayBack(way, j, arm, goal, seen) ==
  LET off(p) == Off(way, j, p)
  IN  /\ off(goal) >= 0 /\ off(arm) >= 0
      /\ off(arm) <= Tolerance => off(goal) <= Tolerance
      /\ \A x \in seen : off(x) <= Tolerance => off(arm) <= Tolerance

InPlace(leg, way, j, arm, goal, seen) ==
  /\ leg = "home" => AtHome(j, arm, goal, seen)
  /\ leg = "out" => OnWayOut(way, j, arm, goal, seen)
  /\ leg = "back" => OnWayBack(way, j, arm, goal, seen)

LEMMA Bounds == Tolerance \in Nat /\ Lag \in Nat
  BY SmokeAssumption, ClientAssumption

LEMMA OffFacts ==
  ASSUME NEW j \in Body, NEW way \in {"up", "down"}, NEW p \in Int, NEW q \in Int
  PROVE  /\ Off(way, j, p) \in Int /\ Rest[j] \in Int
         /\ Off(way, j, Rest[j]) = 0
         /\ Ahead(way, p, q) <=> Off(way, j, p) <= Off(way, j, q)
         /\ Ahead(Opposite(way), p, q) <=> Off(way, j, q) <= Off(way, j, p)
         /\ Gap(p, Rest[j]) <= Tolerance <=>
              -Tolerance <= Off(way, j, p) /\ Off(way, j, p) <= Tolerance
         /\ Gap(p, Rest[j]) <= Tolerance + Lag <=>
              -(Tolerance + Lag) <= Off(way, j, p) /\ Off(way, j, p) <= Tolerance + Lag
         /\ Gap(p, q) <= Lag => /\ Off(way, j, p) <= Off(way, j, q) + Lag
                                /\ Off(way, j, q) <= Off(way, j, p) + Lag
         /\ Gap(p, q) <= Tolerance => /\ Off(way, j, p) <= Off(way, j, q) + Tolerance
                                      /\ Off(way, j, q) <= Off(way, j, p) + Tolerance
<1>1. PICK r \in Int : r = Rest[j]
  BY InRangeFacts
<1>2. CASE way = "up"
  BY <1>1, <1>2, Bounds DEF Off, Ahead, Opposite, Gap
<1>3. CASE way = "down"
  BY <1>1, <1>3, Bounds DEF Off, Ahead, Opposite, Gap
<1> QED BY <1>2, <1>3

\* p is one step nearer to g than it was, or where it was.
Nearer(p, g, q) == q = p \/ (p < g /\ q = p + 1) \/ (g < p /\ q = p - 1)

LEMMA NearerFacts ==
  ASSUME NEW j \in Body, NEW way \in {"up", "down"},
         NEW p \in Int, NEW g \in Int, NEW q \in Int, Nearer(p, g, q)
  PROVE  Nearer(Off(way, j, p), Off(way, j, g), Off(way, j, q))
<1>1. PICK r \in Int : r = Rest[j]
  BY InRangeFacts
<1>2. CASE way = "up"
  BY <1>1, <1>2 DEF Off, Nearer
<1>3. CASE way = "down"
  BY <1>1, <1>3 DEF Off, Nearer
<1> QED BY <1>2, <1>3

\* The servo moves the joint, and it is seen where it was.
LEMMA DriftStays ==
  ASSUME NEW j \in Body, NEW way \in {"up", "down"}, NEW leg,
         NEW p \in Int, NEW g \in Int, NEW q \in Int, Nearer(p, g, q),
         NEW S, S \subseteq Int, NEW S2, S2 \subseteq S \cup {p},
         InPlace(leg, way, j, p, g, S)
  PROVE  InPlace(leg, way, j, q, g, S2)
<1>1. PICK a \in Int, b \in Int, c \in Int :
        a = Off(way, j, p) /\ b = Off(way, j, g) /\ c = Off(way, j, q)
  BY OffFacts
<1>2. Nearer(a, b, c)
  BY <1>1, NearerFacts
<1>3. CASE leg = "home"
  <2>1. AtHome(j, p, g, S)
    BY <1>3 DEF InPlace
  <2>2. -Tolerance <= a /\ a <= Tolerance /\ -Tolerance <= b /\ b <= Tolerance
    BY <1>1, <2>1, OffFacts DEF AtHome
  <2>3. Gap(q, Rest[j]) <= Tolerance
    <3>1. -Tolerance <= c /\ c <= Tolerance
      BY <1>2, <2>2, Bounds DEF Nearer
    <3> QED BY <1>1, <3>1, OffFacts
  <2>4. Gap(p, Rest[j]) <= Tolerance + Lag
    <3>1. -(Tolerance + Lag) <= a /\ a <= Tolerance + Lag
      BY <2>2, Bounds
    <3> QED BY <1>1, <3>1, OffFacts
  <2>5. AtHome(j, q, g, S2)
    BY <2>1, <2>3, <2>4 DEF AtHome
  <2> QED BY <1>3, <2>5 DEF InPlace
<1>4. CASE leg = "out"
  <2>1. OnWayOut(way, j, p, g, S)
    BY <1>4 DEF InPlace
  <2>2. b >= -Tolerance /\ a >= -Tolerance /\ (a <= Tolerance \/ a <= b)
    BY <1>1, <2>1 DEF OnWayOut
  <2>3. /\ c >= -Tolerance /\ (c <= Tolerance \/ c <= b)
        /\ a <= c \/ a <= Tolerance
    BY <1>2, <2>2, Bounds DEF Nearer
  <2>4. ASSUME NEW x \in S2
        PROVE  Off(way, j, x) <= Tolerance + Lag \/ Off(way, j, x) <= c
    <3>1. PICK y \in Int : y = Off(way, j, x) /\ (y <= Tolerance + Lag \/ y <= a)
      <4>1. CASE x = p
        BY <1>1, <4>1
      <4>2. CASE x \in S
        BY <1>1, <2>1, <4>2, OffFacts DEF OnWayOut
      <4> QED BY <4>1, <4>2
    <3> QED BY <2>3, <3>1, Bounds
  <2>5. OnWayOut(way, j, q, g, S2)
    BY <1>1, <2>2, <2>3, <2>4 DEF OnWayOut
  <2> QED BY <1>4, <2>5 DEF InPlace
<1>5. CASE leg = "back"
  <2>1. OnWayBack(way, j, p, g, S)
    BY <1>5 DEF InPlace
  <2>2. b >= 0 /\ a >= 0 /\ (a <= Tolerance => b <= Tolerance)
    BY <1>1, <2>1 DEF OnWayBack
  <2>3. c >= 0 /\ (c <= Tolerance => b <= Tolerance) /\ (a <= Tolerance => c <= Tolerance)
    BY <1>2, <2>2, Bounds DEF Nearer
  <2>4. ASSUME NEW x \in S2, Off(way, j, x) <= Tolerance PROVE c <= Tolerance
    <3>1. a <= Tolerance
      <4>1. CASE x = p
        BY <1>1, <2>4, <4>1
      <4>2. CASE x \in S
        BY <1>1, <2>1, <2>4, <4>2 DEF OnWayBack
      <4> QED BY <4>1, <4>2
    <3> QED BY <2>3, <3>1
  <2>5. OnWayBack(way, j, q, g, S2)
    BY <1>1, <2>2, <2>3, <2>4 DEF OnWayBack
  <2> QED BY <1>5, <2>5 DEF InPlace
<1> QED BY <1>3, <1>4, <1>5 DEF InPlace

\* A goal that is further out on the way out, or nearer to home on the way back.
LEMMA GoalStays ==
  ASSUME NEW j \in Body, NEW way \in {"up", "down"}, NEW leg,
         NEW p \in Int, NEW g \in Int, NEW h \in Int, NEW S,
         InPlace(leg, way, j, p, g, S),
         leg = "home" => h = g,
         leg = "out" => Ahead(way, g, h),
         leg = "back" => Ahead(Opposite(way), g, h) /\ Off(way, j, h) >= 0
  PROVE  InPlace(leg, way, j, p, h, S)
<1>1. PICK a \in Int, b \in Int, c \in Int :
        a = Off(way, j, p) /\ b = Off(way, j, g) /\ c = Off(way, j, h)
  BY OffFacts
<1>2. CASE leg = "home"
  BY <1>2
<1>3. CASE leg = "out"
  <2>1. OnWayOut(way, j, p, g, S) /\ b <= c
    BY <1>1, <1>3, OffFacts DEF InPlace
  <2>2. b >= -Tolerance /\ a >= -Tolerance /\ (a <= Tolerance \/ a <= b)
    BY <1>1, <2>1 DEF OnWayOut
  <2>3. c >= -Tolerance /\ (a <= Tolerance \/ a <= c)
    BY <2>1, <2>2, Bounds
  <2>4. OnWayOut(way, j, p, h, S)
    BY <1>1, <2>1, <2>2, <2>3 DEF OnWayOut
  <2> QED BY <1>3, <2>4 DEF InPlace
<1>4. CASE leg = "back"
  <2>1. OnWayBack(way, j, p, g, S) /\ c <= b /\ c >= 0
    BY <1>1, <1>4, OffFacts DEF InPlace
  <2>2. a <= Tolerance => b <= Tolerance
    BY <1>1, <2>1 DEF OnWayBack
  <2>3. a <= Tolerance => c <= Tolerance
    BY <2>1, <2>2, Bounds
  <2>4. OnWayBack(way, j, p, h, S)
    BY <1>1, <2>1, <2>3 DEF OnWayBack
  <2> QED BY <1>4, <2>4 DEF InPlace
<1> QED BY <1>2, <1>3, <1>4 DEF InPlace

\* A way out begins at home.
LEMMA Leaves ==
  ASSUME NEW j \in Body, NEW way \in {"up", "down"},
         NEW p \in Int, NEW g \in Int, NEW S, S \subseteq Int, AtHome(j, p, g, S)
  PROVE  OnWayOut(way, j, p, g, S)
<1>1. /\ -Tolerance <= Off(way, j, p) /\ Off(way, j, p) <= Tolerance
      /\ -Tolerance <= Off(way, j, g)
  BY OffFacts DEF AtHome
<1>2. \A x \in S : Off(way, j, x) <= Tolerance + Lag
  BY OffFacts DEF AtHome
<1> QED BY <1>1, <1>2, OffFacts, Bounds DEF OnWayOut

\* What is seen of a joint at a dwell: by the cache, which is judged, or by a
\* stream, which is not further behind than the lag.
Witnessed(o, p, S) == o \in S /\ \A x \in S : x = o \/ Gap(x, p) <= Lag

\* A dwell that finds the joint at its tier: it is, and turns.
LEMMA Turns ==
  ASSUME NEW j \in Body, NEW way \in {"up", "down"},
         NEW p \in Int, NEW g \in Int, NEW S, S \subseteq Int, OnWayOut(way, j, p, g, S),
         NEW o \in Int, Witnessed(o, p, S),
         NEW t \in Int, 2 * Tolerance + Lag < Off(way, j, t), Gap(o, t) <= Tolerance
  PROVE  OnWayBack(way, j, p, g, S)
<1>1. PICK a \in Int, b \in Int, c \in Int, d \in Int :
        /\ a = Off(way, j, p) /\ b = Off(way, j, g)
        /\ c = Off(way, j, o) /\ d = Off(way, j, t)
  BY OffFacts
<1>2. b >= -Tolerance /\ (a <= Tolerance \/ a <= b) /\ (c <= Tolerance + Lag \/ c <= a)
  BY <1>1 DEF OnWayOut, Witnessed
<1>3. d <= c + Tolerance
  BY <1>1, OffFacts
<1>4. a > Tolerance + Lag /\ c > Tolerance /\ b >= a
  BY <1>1, <1>2, <1>3, Bounds
<1>5. ASSUME NEW x \in S PROVE ~(Off(way, j, x) <= Tolerance)
  <2>1. PICK y \in Int : y = Off(way, j, x) /\ (y = c \/ a <= y + Lag)
    <3>1. CASE x = o
      BY <1>1, <3>1
    <3>2. CASE Gap(x, p) <= Lag
      BY <1>1, <3>2, OffFacts
    <3> QED BY <3>1, <3>2 DEF Witnessed
  <2> QED BY <1>4, <2>1, Bounds
<1>6. a >= 0 /\ b >= 0 /\ ~(a <= Tolerance)
  BY <1>4, Bounds
<1> QED BY <1>1, <1>5, <1>6 DEF OnWayBack

\* A dwell that finds the joint at home: it is, and all that is seen of it is.
LEMMA Returns ==
  ASSUME NEW j \in Body, NEW way \in {"up", "down"},
         NEW p \in Int, NEW g \in Int, NEW S, S \subseteq Int, OnWayBack(way, j, p, g, S),
         NEW o \in Int, Witnessed(o, p, S), Gap(o, Rest[j]) <= Tolerance
  PROVE  AtHome(j, p, g, S)
<1>1. PICK a \in Int, b \in Int, c \in Int :
        a = Off(way, j, p) /\ b = Off(way, j, g) /\ c = Off(way, j, o)
  BY OffFacts
<1>2. /\ b >= 0 /\ a >= 0 /\ (a <= Tolerance => b <= Tolerance)
      /\ c <= Tolerance => a <= Tolerance
  BY <1>1 DEF OnWayBack, Witnessed
<1>3. -Tolerance <= c /\ c <= Tolerance
  BY <1>1, OffFacts
<1>4. Gap(p, Rest[j]) <= Tolerance /\ Gap(g, Rest[j]) <= Tolerance
  <2>1. -Tolerance <= a /\ a <= Tolerance /\ -Tolerance <= b /\ b <= Tolerance
    BY <1>2, <1>3, Bounds
  <2> QED BY <1>1, <2>1, OffFacts
<1>5. ASSUME NEW x \in S PROVE Gap(x, Rest[j]) <= Tolerance + Lag
  <2>1. PICK y \in Int : y = Off(way, j, x) /\ (y = c \/ (y <= a + Lag /\ a <= y + Lag))
    <3>1. CASE x = o
      BY <1>1, <3>1
    <3>2. CASE Gap(x, p) <= Lag
      BY <1>1, <3>2, OffFacts
    <3> QED BY <3>1, <3>2 DEF Witnessed
  <2>2. -(Tolerance + Lag) <= y /\ y <= Tolerance + Lag
    BY <1>2, <1>3, <2>1, Bounds
  <2> QED BY <2>1, <2>2, OffFacts
<1> QED BY <1>4, <1>5 DEF AtHome

-----------------------------------------------------------------------------
(* The legs of a plan.                                                       *)

Leg(a, j) ==
  IF ~Moving(a) \/ Motion(a).joint # j THEN "home"
  ELSE IF a.motion % 2 = 1 THEN "out" ELSE "back"

\* The ramp under way leads out, or home and not beyond.
Directed(a) ==
  \A j \in Body :
    LET way == Way(a.motion)
        c == a.command_state[j]
    IN  /\ Leg(a, j) = "out" => Steady(way, c, a.ramp)
        /\ Leg(a, j) = "back" =>
             /\ Steady(Opposite(way), c, a.ramp)
             /\ \A i \in 1 .. Len(a.ramp) : Off(way, j, a.ramp[i]) >= 0

\* Every body joint is where the plan a has it, when the servos are told goal.
Placed(a, goal) ==
  \A j \in Body :
    InPlace(Leg(a, j), Way(a.motion), j, server.arm[j], goal[j], Seen(j))

LEMMA SeenFacts ==
  ASSUME ClientTypeOK, NEW j \in Body
  PROVE  /\ j \in Joint /\ Seen(j) \subseteq Int
         /\ server.arm[j] \in Int /\ server.goal[j] \in Int /\ client.obs[j] \in Int
  BY BodyFacts, ClientAssumption DEF ClientTypeOK, Server, Client, Arm, Seen

LEMMA WayFacts ==
  ASSUME NEW m
  PROVE  Way(m) \in {"up", "down"} /\ Opposite(Way(m)) \in {"up", "down"}
  BY DEF Way, Opposite

LEMMA LegFacts ==
  ASSUME Discerning, NEW a, Running(a), a.base = Rest, NEW j \in Body
  PROVE  /\ Leg(a, j) \in {"home", "out", "back"}
         /\ Leg(a, j) # "home" =>
              /\ Moving(a) /\ a.motion \in 1 .. 2 * Excursions
              /\ Motion(a).joint = j /\ Motion(a).judged /\ Motion(a).driven
         /\ Leg(a, j) = "out" =>
              /\ a.motion % 2 = 1 /\ Motion(a).target \in Int
              /\ 2 * Tolerance + Lag < Off(Way(a.motion), j, Motion(a).target)
         /\ Leg(a, j) = "back" => a.motion % 2 = 0 /\ Motion(a).target = Rest[j]
<1>1. CASE Leg(a, j) = "home"
  BY <1>1
<1>2. CASE Leg(a, j) # "home"
  <2>1. Moving(a) /\ Motion(a).joint = j /\ Leg(a, j) = IF a.motion % 2 = 1 THEN "out" ELSE "back"
    BY <1>2 DEF Leg
  <2>2. a.motion \in DOMAIN Scan(Rest) /\ Motion(a) = Scan(Rest)[a.motion] /\ Motion(a).driven
    BY <2>1 DEF Running, Motion
  <2>3. a.motion \in 1 .. 2 * Excursions
    <3>1. a.motion <= 2 * Excursions
      BY <2>1, <2>2, ArmFacts, GripperFacts
    <3> QED BY <2>2, <3>1, ArmFacts, ScanFacts
  <2>4. a.motion % 2 \in {0, 1}
    BY <2>3, ArmFacts, ScanFacts, Halves
  <2>5. Motion(a).judged
    BY <2>2, <2>3, ArmFacts, PlanFacts
  <2>6. ASSUME a.motion % 2 = 0 PROVE Motion(a).target = Rest[j]
    BY <2>1, <2>2, <2>3, <2>6, ArmFacts, PlanFacts
  <2>7. ASSUME a.motion % 2 = 1
        PROVE  /\ Motion(a).target \in Int
               /\ 2 * Tolerance + Lag < Off(Way(a.motion), j, Motion(a).target)
    <3>1. PICK i \in 1 .. Len(Tiers) :
            Motion(a).target = Rest[j] + (IF Way(a.motion) = "up" THEN Tiers[i] ELSE -Tiers[i])
      BY <2>1, <2>2, <2>3, <2>7, ArmFacts, PlanFacts
    <3>2. PICK n \in Nat : n = Tiers[i] /\ 2 * Tolerance + Lag < n
      BY SmokeAssumption, ElementOfSeq DEF Discerning
    <3>3. PICK r \in Int : r = Rest[j]
      BY InRangeFacts
    <3>4. CASE Way(a.motion) = "up"
      BY <3>1, <3>2, <3>3, <3>4 DEF Off
    <3>5. CASE Way(a.motion) = "down"
      BY <3>1, <3>2, <3>3, <3>5 DEF Off
    <3> QED BY <3>4, <3>5, WayFacts
  <2> QED BY <2>1, <2>2, <2>3, <2>4, <2>5, <2>6, <2>7
<1> QED BY <1>1, <1>2

\* A fresh ramp leads where its target is.
LEMMA FreshIsSteady ==
  ASSUME NEW a, Fresh(a), NEW way \in {"up", "down"},
         Ahead(way, a.command_state[Motion(a).joint], Motion(a).target)
  PROVE  Steady(way, a.command_state[Motion(a).joint], a.ramp)
  BY DEF Fresh, Ahead

\* From an odd motion on, or behind the last excursion, the next leg leads out.
LEMMA BeginsAtHome ==
  ASSUME Discerning, ClientTypeOK, NEW b, Sane(b), b.base = Rest,
         NEW goal \in Arm, b.command_state = goal,
         NEW i \in Nat \ {0}, i % 2 = 1 \/ ~(i <= 2 * Excursions),
         Begins(b, i) \/ Ends(b, i),
         \A j \in Body : AtHome(j, server.arm[j], goal[j], Seen(j))
  PROVE  Directed(b) /\ Placed(b, goal)
<1>0. Running(b)
  BY DEF Sane
<1>1. ASSUME NEW j \in Body, Leg(b, j) = "back" PROVE FALSE
  <2>1. /\ b.motion \in 1 .. 2 * Excursions /\ b.motion % 2 = 0 /\ Moving(b)
        /\ Motion(b).driven
    BY <1>0, <1>1, LegFacts
  <2>2. Begins(b, i)
    BY <2>1 DEF Ends, Moving
  <2>3. PICK m \in Nat : m = b.motion - 1
    BY <2>1
  <2>4. Excursions \in Nat
    BY ArmFacts, ScanFacts
  <2>5. i <= b.motion /\ i # b.motion /\ m \in i .. b.motion - 1
    <3>1. i <= b.motion
      BY <2>2 DEF Begins
    <3>2. i # b.motion
      <4>1. b.motion <= 2 * Excursions
        BY <2>1
      <4> QED BY <2>1, <2>4, <4>1
    <3> QED BY <2>1, <2>3, <3>1, <3>2
  <2>6. ~Scan(Rest)[m].driven
    BY <2>2, <2>5 DEF Begins
  <2>7. m % 2 = 1
    <3>1. b.motion \in Nat \ {0}
      BY <2>1, <2>4
    <3>2. (b.motion - 1) % 2 = 1
      BY <2>1, <3>1, Halves
    <3> QED BY <2>3, <3>2
  <2>8. m \in 1 .. 2 * Excursions /\ b.motion = m + 1
    BY <2>1, <2>3, <2>4, <2>5
  <2>9. Scan(Rest)[m].driven = Motion(b).driven
    BY <2>7, <2>8, ArmFacts, TwinFacts DEF Motion
  <2> QED BY <2>1, <2>6, <2>9
<1>2. ASSUME NEW j \in Body, Leg(b, j) = "out"
      PROVE  /\ Steady(Way(b.motion), b.command_state[j], b.ramp)
             /\ OnWayOut(Way(b.motion), j, server.arm[j], goal[j], Seen(j))
  <2>1. PICK way \in {"up", "down"} : way = Way(b.motion)
    BY WayFacts
  <2>2. /\ Motion(b).joint = j /\ Moving(b) /\ Motion(b).target \in Int
        /\ 2 * Tolerance + Lag < Off(way, j, Motion(b).target)
    BY <1>0, <1>2, <2>1, LegFacts
  <2>3. Fresh(b)
    BY <2>2 DEF Begins, Ends, Moving
  <2>4. PICK t \in Int, g \in Int : t = Motion(b).target /\ g = goal[j]
    BY <2>2, BodyFacts, ClientAssumption DEF Arm
  <2>5. PICK x \in Int, y \in Int : x = Off(way, j, g) /\ y = Off(way, j, t)
    BY OffFacts
  <2>6. x <= Tolerance /\ 2 * Tolerance + Lag < y
    BY <2>2, <2>4, <2>5, OffFacts DEF AtHome
  <2>7. Ahead(way, g, t)
    <3>1. x <= y
      BY <2>6, Bounds
    <3> QED BY <2>5, <3>1, OffFacts
  <2>8. Steady(way, b.command_state[j], b.ramp)
    BY <2>2, <2>3, <2>4, <2>7, FreshIsSteady
  <2>9. OnWayOut(way, j, server.arm[j], goal[j], Seen(j))
    BY <2>4, SeenFacts, Leaves
  <2> QED BY <2>1, <2>8, <2>9
<1>3. Directed(b)
  BY <1>1, <1>2 DEF Directed
<1>4. Placed(b, goal)
  BY <1>1, <1>2 DEF Placed, InPlace
<1> QED BY <1>3, <1>4

-----------------------------------------------------------------------------
(* From one leg to the next.                                                 *)

\* When everything has been heard, the cache and the live streams are all that
\* shows a joint.
LEMMA WitnessFacts ==
  ASSUME ClientTypeOK, LagInv, client.heard = Joint, NEW j \in Body
  PROVE  Witnessed(client.obs[j], server.arm[j], Seen(j))
<1>1. j \in Joint /\ client.obs[j] \in Position
  BY BodyFacts DEF ClientTypeOK, Client, Arm
<1>2. client.obs[j] \in Seen(j)
  BY <1>1 DEF Seen
<1>3. ASSUME NEW x \in Seen(j), x # client.obs[j] PROVE Gap(x, server.arm[j]) <= Lag
  <2>1. PICK t \in Thread : consumer[t].live /\ consumer[t].sample[j] = x
    BY <1>3 DEF Seen
  <2> QED BY <1>1, <2>1 DEF LagInv
<1> QED BY <1>2, <1>3 DEF Witnessed

\* After a way out that was driven comes its way back.
LEMMA OutThenBack ==
  ASSUME Discerning, NEW a, Running(a), a.base = Rest, NEW m \in Body, Leg(a, m) = "out",
         NEW b, Sane(b), b.base = Rest, Begins(b, a.motion + 1) \/ Ends(b, a.motion + 1)
  PROVE  /\ Begins(b, a.motion + 1) /\ b.motion = a.motion + 1
         /\ Way(b.motion) = Way(a.motion)
         /\ Leg(b, m) = "back" /\ \A j \in Body : j # m => Leg(b, j) = "home"
<1>1. /\ a.motion \in 1 .. 2 * Excursions /\ a.motion % 2 = 1
      /\ Motion(a).joint = m /\ Motion(a).driven
  BY LegFacts
<1>2. PICK k \in 1 .. 2 * Excursions : k = a.motion + 1
  BY <1>1, ArmFacts, TwinFacts
<1>3. /\ k % 2 = 0 /\ Way(k) = Way(a.motion)
      /\ Scan(Rest)[k].joint = m /\ Scan(Rest)[k].driven
  BY <1>1, <1>2, ArmFacts, TwinFacts DEF Motion
<1>4. /\ Excursions \in Nat /\ DOMAIN Scan(Rest) = 1 .. 2 * Excursions + 3
      /\ Len(Scan(Rest)) = 2 * Excursions + 3
  BY ArmFacts, ScanFacts
<1>5. k \in k .. Len(Scan(Rest))
  BY <1>2, <1>4
<1>6. Begins(b, k)
  BY <1>2, <1>3, <1>5 DEF Ends
<1>7. b.motion = k
  <2>1. k <= b.motion /\ Moving(b)
    BY <1>6 DEF Begins, Moving
  <2>2. b.motion \in DOMAIN Scan(Rest)
    BY <2>1 DEF Sane, Running
  <2>3. ASSUME k # b.motion PROVE FALSE
    <3>1. k \in k .. b.motion - 1
      BY <1>2, <1>4, <2>1, <2>2, <2>3
    <3> QED BY <1>3, <1>6, <3>1 DEF Begins
  <2> QED BY <2>3
<1>8. Motion(b).joint = m /\ Moving(b)
  BY <1>3, <1>6, <1>7 DEF Motion, Begins, Moving
<1>9. Leg(b, m) = "back" /\ \A j \in Body : j # m => Leg(b, j) = "home"
  BY <1>3, <1>7, <1>8 DEF Leg
<1> QED BY <1>2, <1>3, <1>6, <1>7, <1>9

LEMMA DwellTurns ==
  ASSUME Discerning, ClientTypeOK, LagInv, client.heard = Joint,
         NEW a, Running(a), a.base = Rest, NEW goal \in Arm, Placed(a, goal),
         NEW m \in Body, Leg(a, m) = "out", Gap(client.obs[m], Motion(a).target) <= Tolerance,
         NEW b, Sane(b), b.base = Rest, b.command_state = goal,
         Begins(b, a.motion + 1) \/ Ends(b, a.motion + 1)
  PROVE  Directed(b) /\ Placed(b, goal)
<1>1. /\ Begins(b, a.motion + 1) /\ Way(b.motion) = Way(a.motion)
      /\ Leg(b, m) = "back" /\ \A j \in Body : j # m => Leg(b, j) = "home"
  BY OutThenBack
<1>2. PICK way \in {"up", "down"} : way = Way(a.motion) /\ way = Way(b.motion)
  BY <1>1, WayFacts
<1>3. PICK t \in Int : t = Motion(a).target /\ 2 * Tolerance + Lag < Off(way, m, t)
  BY <1>2, LegFacts
<1>4. PICK p \in Int, g \in Int, o \in Int :
        p = server.arm[m] /\ g = goal[m] /\ o = client.obs[m]
  BY SeenFacts, BodyFacts, ClientAssumption DEF Arm
<1>5. Witnessed(o, p, Seen(m))
  BY <1>4, WitnessFacts
<1>6. OnWayOut(way, m, p, g, Seen(m))
  BY <1>2, <1>4 DEF Placed, InPlace
<1>7. OnWayBack(way, m, p, g, Seen(m))
  BY <1>3, <1>4, <1>5, <1>6, SeenFacts, Turns
<1>8. ASSUME NEW j \in Body, j # m PROVE Leg(a, j) = "home"
  BY <1>8, LegFacts DEF Leg
<1>9. Placed(b, goal)
  BY <1>1, <1>2, <1>4, <1>7, <1>8 DEF Placed, InPlace
<1>10. Running(b) /\ Fresh(b)
  BY <1>1 DEF Sane, Begins
<1>11. Motion(b).joint = m /\ Motion(b).target = Rest[m] /\ b.command_state[m] = g
  BY <1>1, <1>4, <1>10, LegFacts
<1>12. Off(way, m, g) >= 0
  BY <1>7 DEF OnWayBack
<1>13. Rest[m] \in Int /\ Off(way, m, Rest[m]) = 0
  BY OffFacts
<1>14. Steady(Opposite(way), g, b.ramp)
  <2>1. Ahead(Opposite(way), g, Rest[m])
    BY <1>12, <1>13, OffFacts
  <2> QED BY <1>2, <1>10, <1>11, <2>1, WayFacts, FreshIsSteady
<1>15. ASSUME NEW i \in 1 .. Len(b.ramp) PROVE Off(way, m, b.ramp[i]) >= 0
  <2>1. PICK q \in Int : q = b.ramp[i]
    BY <1>10, ElementOfSeq, ClientAssumption DEF Running
  <2>2. Between(q, g, Rest[m])
    BY <1>10, <1>11, <2>1 DEF Fresh
  <2>3. CASE way = "up"
    BY <1>12, <1>13, <2>1, <2>2, <2>3 DEF Between, Off
  <2>4. CASE way = "down"
    BY <1>12, <1>13, <2>1, <2>2, <2>4 DEF Between, Off
  <2> QED BY <2>3, <2>4
<1>16. Directed(b)
  BY <1>1, <1>2, <1>11, <1>14, <1>15 DEF Directed
<1> QED BY <1>9, <1>16

LEMMA DwellReturns ==
  ASSUME Discerning, ClientTypeOK, LagInv, client.heard = Joint,
         NEW a, Running(a), a.base = Rest, NEW goal \in Arm, Placed(a, goal),
         NEW m \in Body, Leg(a, m) = "back", Gap(client.obs[m], Motion(a).target) <= Tolerance,
         NEW b, Sane(b), b.base = Rest, b.command_state = goal,
         Begins(b, a.motion + 1) \/ Ends(b, a.motion + 1)
  PROVE  Directed(b) /\ Placed(b, goal)
<1>1. a.motion \in 1 .. 2 * Excursions /\ a.motion % 2 = 0 /\ Motion(a).target = Rest[m]
  BY LegFacts
<1>2. PICK way \in {"up", "down"} : way = Way(a.motion)
  BY WayFacts
<1>3. PICK p \in Int, g \in Int, o \in Int :
        p = server.arm[m] /\ g = goal[m] /\ o = client.obs[m]
  BY SeenFacts, BodyFacts, ClientAssumption DEF Arm
<1>4. Witnessed(o, p, Seen(m))
  BY <1>3, WitnessFacts
<1>5. OnWayBack(way, m, p, g, Seen(m))
  BY <1>2, <1>3 DEF Placed, InPlace
<1>6. AtHome(m, p, g, Seen(m))
  BY <1>1, <1>3, <1>4, <1>5, SeenFacts, Returns
<1>7. ASSUME NEW j \in Body, j # m PROVE Leg(a, j) = "home"
  BY <1>7, LegFacts DEF Leg
<1>8. \A j \in Body : AtHome(j, server.arm[j], goal[j], Seen(j))
  BY <1>3, <1>6, <1>7 DEF Placed, InPlace
<1>9. PICK i \in Nat \ {0} : i = a.motion + 1 /\ i % 2 = 1
  <2>1. a.motion \in Nat \ {0}
    BY <1>1, ArmFacts, ScanFacts
  <2> QED BY <1>1, <2>1, Halves
<1> QED BY <1>8, <1>9, BeginsAtHome

\* A plan that goes on stays in place and on its way.
LEMMA AdvanceStays ==
  ASSUME Discerning, ClientTypeOK, LagInv,
         NEW a, Running(a), Moving(a), a.base = Rest,
         NEW goal \in Arm, a.command_state = goal, Directed(a), Placed(a, goal),
         a.pc = "dwell" => /\ client.heard = Joint
                           /\ Gap(client.obs[Motion(a).joint], Motion(a).target) <= Tolerance,
         NEW b, Advance(a, b)
  PROVE  Directed(b) /\ Placed(b, goal)
<1>1. Sane(b) /\ b.base = Rest /\ b.command_state = goal
  BY DEF Advance, SameCommands
<1>2. CASE Moving(b) /\ b.ramp = a.ramp /\ b.motion = a.motion
  <2>1. \A j \in Body : Leg(b, j) = Leg(a, j)
    BY <1>1, <1>2 DEF Leg, Motion
  <2> QED BY <1>1, <1>2, <2>1 DEF Directed, Placed
<1>3. CASE /\ a.pc = "dwell" \/ ~Motion(a).judged
           /\ Ends(b, a.motion + 1) \/ Begins(b, a.motion + 1)
  <2>1. CASE \E m \in Body : Leg(a, m) = "out"
    <3>1. PICK m \in Body : Leg(a, m) = "out"
      BY <2>1
    <3>2. Motion(a).joint = m /\ Motion(a).judged
      BY <3>1, LegFacts
    <3> QED BY <1>1, <1>3, <3>1, <3>2, DwellTurns
  <2>2. CASE \E m \in Body : Leg(a, m) = "back"
    <3>1. PICK m \in Body : Leg(a, m) = "back"
      BY <2>2
    <3>2. Motion(a).joint = m /\ Motion(a).judged
      BY <3>1, LegFacts
    <3> QED BY <1>1, <1>3, <3>1, <3>2, DwellReturns
  <2>3. CASE \A j \in Body : Leg(a, j) = "home"
    <3>1. \A j \in Body : AtHome(j, server.arm[j], goal[j], Seen(j))
      BY <2>3 DEF Placed, InPlace
    <3>2. a.motion \in DOMAIN Scan(Rest) /\ Motion(a) = Scan(Rest)[a.motion]
      BY DEF Running, Motion
    <3>3. Motion(a).joint \notin Body
      BY <2>3 DEF Leg
    <3>4. /\ Excursions \in Nat /\ DOMAIN Scan(Rest) = 1 .. 2 * Excursions + 3
      BY ArmFacts, ScanFacts
    <3>5. ~(a.motion <= 2 * Excursions)
      <4>1. ASSUME a.motion <= 2 * Excursions PROVE FALSE
        <5>1. a.motion \in 1 .. 2 * Excursions
          BY <3>2, <3>4, <4>1
        <5> QED BY <3>2, <3>3, <5>1, ArmFacts, PlanFacts
      <4> QED BY <4>1
    <3>6. a.motion + 1 \in Nat \ {0} /\ ~(a.motion + 1 <= 2 * Excursions)
      BY <3>2, <3>4, <3>5
    <3> QED BY <1>1, <1>3, <3>1, <3>6, BeginsAtHome
  <2>4. \A j \in Body : Leg(a, j) \in {"home", "out", "back"}
    BY LegFacts
  <2> QED BY <2>1, <2>2, <2>3, <2>4
<1> QED BY <1>2, <1>3 DEF Advance

-----------------------------------------------------------------------------
(* The invariant.                                                            *)

\* The scan goes on or is over, and nothing has failed.
Sound(a) == (Moving(a) \/ a.pc = "over") /\ a.failures = {}

VerdictInv == Sound(app) => Directed(app) /\ Placed(app, server.goal)

WInv == IInv /\ LagInv /\ VerdictInv

LEMMA PlanKept ==
  ASSUME NEW a, NEW b, b.base = a.base, b.motion = a.motion, Moving(b) <=> Moving(a)
  PROVE  \A j \in Body : Leg(b, j) = Leg(a, j)
  BY DEF Leg, Motion

\* The next goal keeps every joint in place.
LEMMA NextGoalPlaces ==
  ASSUME WInv, Discerning, app.pc = "ramp", app.failures = {},
         NEW action, action = FullAction(Head(app.ramp))
  PROVE  Placed(app, action)
<1>1. /\ Sane(app) /\ Running(app) /\ Moving(app) /\ ClientTypeOK /\ app.base = Rest
      /\ Directed(app) /\ Placed(app, server.goal)
  BY DEF WInv, IInv, TypeInv, BaseInv, VerdictInv, Sound, Sane, Moving
<1>2. PICK h \in Position : h = Head(app.ramp) /\ h = app.ramp[1] /\ 1 \in 1 .. Len(app.ramp)
  BY <1>1, HeadFacts
<1>3. app.ramp # <<>>
  BY <1>1, HeadFacts
<1>4. \A j \in Joint : action[j] = IF j = Motion(app).joint THEN h ELSE app.command_state[j]
  BY <1>1, <1>2, FullActionFacts
<1>5. server.goal = app.command_state \/ server.goal = action
  BY <1>1 DEF WInv, IInv, StepInv
<1>6. ASSUME NEW j \in Body
      PROVE  InPlace(Leg(app, j), Way(app.motion), j, server.arm[j], action[j], Seen(j))
  <2>1. PICK p \in Int, g \in Int : p = server.arm[j] /\ g = server.goal[j] /\ j \in Joint
    BY <1>1, SeenFacts
  <2>2. PICK way \in {"up", "down"} : way = Way(app.motion)
    BY WayFacts
  <2>3. InPlace(Leg(app, j), way, j, p, g, Seen(j))
    BY <1>1, <2>1, <2>2 DEF Placed
  <2>4. CASE Leg(app, j) = "home"
    <3>1. Motion(app).joint # j
      BY <1>1, <2>4 DEF Leg
    <3>2. action[j] = g
      BY <1>4, <1>5, <2>1, <3>1
    <3> QED BY <2>1, <2>2, <2>3, <3>2
  <2>5. CASE Leg(app, j) # "home"
    <3>1. Motion(app).joint = j /\ action[j] = h /\ h \in Int
      BY <1>1, <1>4, <2>1, <2>5, ClientAssumption DEF Leg
    <3>2. g = app.command_state[j] \/ g = h
      BY <1>5, <2>1, <3>1
    <3>3. Ahead(way, h, h) /\ Ahead(Opposite(way), h, h)
      BY <3>1, OffFacts
    <3>4. Leg(app, j) = "out" => Ahead(way, g, h)
      BY <1>1, <1>2, <1>3, <2>2, <3>2, <3>3 DEF Directed, Steady
    <3>5. Leg(app, j) = "back" => Ahead(Opposite(way), g, h) /\ Off(way, j, h) >= 0
      BY <1>1, <1>2, <1>3, <2>2, <3>2, <3>3 DEF Directed, Steady
    <3>6. InPlace(Leg(app, j), way, j, p, h, Seen(j))
      BY <2>1, <2>3, <2>5, <3>1, <3>4, <3>5, GoalStays
    <3> QED BY <2>1, <2>2, <3>1, <3>6
  <2> QED BY <2>4, <2>5
<1> QED BY <1>6 DEF Placed

\* The rest of the ramp leads where the ramp led.
LEMMA AnsweredIsDirected ==
  ASSUME WInv, Discerning, app.pc = "ramp", app.failures = {}, NEW a, Answered(a)
  PROVE  Directed(a) /\ \A j \in Body : Leg(a, j) = Leg(app, j)
<1>1. /\ Sane(app) /\ Running(app) /\ Moving(app) /\ Moving(a) /\ app.base = Rest
      /\ Directed(app)
  BY DEF WInv, IInv, TypeInv, BaseInv, VerdictInv, Sound, Sane, Moving, Answered
<1>2. \A j \in Body : Leg(a, j) = Leg(app, j)
  BY <1>1, PlanKept DEF Answered
<1>3. /\ app.ramp \in Seq(Position) /\ app.ramp # <<>>
      /\ Head(app.ramp) \in Position /\ Head(app.ramp) = app.ramp[1]
  BY <1>1, HeadFacts
<1>4. /\ a.ramp = Tail(app.ramp) /\ a.ramp \in Seq(Position)
      /\ Len(a.ramp) = Len(app.ramp) - 1
      /\ \A i \in 1 .. Len(a.ramp) : a.ramp[i] = app.ramp[i + 1]
  BY <1>3, HeadTailProperties DEF Answered
<1>5. PICK n \in Nat : n = Len(a.ramp) /\ Len(app.ramp) = n + 1
  <2>1. Len(a.ramp) \in Nat /\ Len(app.ramp) \in Nat
    BY <1>3, <1>4, LenProperties
  <2> QED BY <1>4, <2>1
<1>6. ASSUME NEW way, NEW c, Steady(way, c, app.ramp) PROVE Steady(way, app.ramp[1], a.ramp)
  <2>1. \A i \in 1 .. n : Ahead(way, app.ramp[i], app.ramp[i + 1])
    BY <1>5, <1>6 DEF Steady
  <2>2. ASSUME a.ramp # <<>> PROVE Ahead(way, app.ramp[1], a.ramp[1])
    <3>1. 1 \in 1 .. n
      BY <1>4, <1>5, <2>2, EmptySeq
    <3> QED BY <1>4, <1>5, <2>1, <3>1
  <2>3. ASSUME NEW i \in 1 .. Len(a.ramp) - 1 PROVE Ahead(way, a.ramp[i], a.ramp[i + 1])
    <3>1. i \in 1 .. n /\ i + 1 \in 1 .. n
      BY <1>5
    <3>2. a.ramp[i] = app.ramp[i + 1] /\ a.ramp[i + 1] = app.ramp[(i + 1) + 1]
      BY <1>4, <1>5, <3>1
    <3> QED BY <2>1, <3>1, <3>2
  <2> QED BY <2>2, <2>3 DEF Steady
<1>7. ASSUME NEW j \in Body, Leg(a, j) # "home" PROVE a.command_state[j] = app.ramp[1]
  <2>1. Motion(app).joint = j /\ j \in Joint
    BY <1>1, <1>2, <1>7, BodyFacts DEF Leg
  <2> QED BY <1>1, <1>3, <2>1, FullActionFacts DEF Answered
<1>8. ASSUME NEW j \in Body, Leg(a, j) = "back", NEW i \in 1 .. Len(a.ramp)
      PROVE  Off(Way(a.motion), j, a.ramp[i]) >= 0
  <2>1. a.ramp[i] = app.ramp[i + 1] /\ i + 1 \in 1 .. Len(app.ramp)
    BY <1>4, <1>5
  <2> QED BY <1>1, <1>2, <1>8, <2>1 DEF Directed, Answered
<1>9. \A j \in Body : /\ Leg(a, j) = "out" => Steady(Way(app.motion), app.ramp[1], a.ramp)
                      /\ Leg(a, j) = "back" =>
                           Steady(Opposite(Way(app.motion)), app.ramp[1], a.ramp)
  BY <1>1, <1>2, <1>6 DEF Directed
<1>10. a.motion = app.motion
  BY DEF Answered
<1> QED BY <1>2, <1>7, <1>8, <1>9, <1>10 DEF Directed

LEMMA InitWInv == Init => WInv
<1> SUFFICES ASSUME Init PROVE WInv
  OBVIOUS
<1>1. \A t \in Thread : ~consumer[t].live
  BY ConsumerValues DEF Init, ClientInit
<1>2. app.pc = "start"
  BY DEF Init
<1> QED BY <1>1, <1>2, InitIInv DEF WInv, LagInv, VerdictInv, Sound, Moving

LEMMA NextWInv ==
  ASSUME WholeTick, Discerning
  PROVE  WInv /\ [Next]_vars => WInv'
<1> SUFFICES ASSUME WInv, [Next]_vars PROVE WInv'
  OBVIOUS
<1>0. /\ IInv /\ IInv' /\ TypeInv /\ ClientTypeOK /\ ClientTypeOK' /\ Sane(app) /\ LagInv
      /\ server \in Server
  BY NextIInv DEF WInv, IInv, TypeInv, ClientTypeOK
<1>1. ASSUME NEW goal, server'.goal = goal, server'.arm = server.arm, UNCHANGED consumer,
             client'.heard = client.heard, client'.obs = client.obs,
             Sound(app') => Directed(app') /\ Placed(app', goal)
      PROVE  WInv'
  <2>1. LagInv'
    BY <1>0, <1>1 DEF LagInv
  <2>2. \A j \in Body : Seen(j)' = Seen(j)
    BY <1>1 DEF Seen
  <2>3. VerdictInv'
    BY <1>1, <2>2 DEF VerdictInv, Placed, Sound, Directed, Moving, Leg, Motion
  <2> QED BY <1>0, <2>1, <2>3 DEF WInv
<1>2. ASSUME SamePlan(app, app'), Sound(app')
      PROVE  /\ Sound(app) /\ \A j \in Body : Leg(app', j) = Leg(app, j)
             /\ app'.motion = app.motion
             /\ app'.ramp = app.ramp /\ app'.command_state = app.command_state
  <2>1. app'.pc = app.pc
    BY <1>2 DEF SamePlan, Sound, Moving
  <2>2. app'.base = app.base /\ app'.motion = app.motion /\ (Moving(app') <=> Moving(app))
    BY <1>2, <2>1 DEF SamePlan, SameCommands, Moving
  <2> QED BY <1>2, <2>1, <2>2, PlanKept DEF SamePlan, SameCommands, Sound
<1>3. ASSUME NEW goal, SamePlan(app, app'), Sound(app'), Directed(app), Placed(app, goal)
      PROVE  Directed(app') /\ Placed(app', goal)
  BY <1>2, <1>3 DEF Directed, Placed
<1>4. CASE SendGoal
  <2>1. PICK action : action = FullAction(Head(app.ramp))
    OBVIOUS
  <2>2. /\ app.pc = "ramp" /\ server' = [server EXCEPT !.goal = action]
        /\ client'.heard = client.heard /\ client'.obs = client.obs /\ UNCHANGED consumer
        /\ \E a : Answered(a) /\ Advance(a, app')
    BY <1>0, <1>4, <2>1, SendGoalFacts
  <2>3. PICK a : Answered(a) /\ Advance(a, app')
    BY <2>2
  <2>4. Running(a) /\ Moving(a) /\ a.base = Rest /\ a.command_state = action
        /\ a.pc # "dwell" /\ action \in Arm
    BY <1>0, <2>1, <2>2, <2>3, AnsweredFacts, NextGoalFacts DEF Answered
  <2>5. ASSUME Sound(app') PROVE Directed(app') /\ Placed(app', action)
    <3>1. app.failures = {}
      BY <2>3, <2>5 DEF Sound, Advance, SameCommands, Answered
    <3>2. Placed(app, action) /\ Directed(a) /\ \A j \in Body : Leg(a, j) = Leg(app, j)
      BY <2>1, <2>2, <2>3, <3>1, NextGoalPlaces, AnsweredIsDirected
    <3>3. Placed(a, action)
      BY <2>3, <3>2 DEF Placed, Answered
    <3> QED BY <1>0, <2>3, <2>4, <3>2, <3>3, AdvanceStays
  <2>6. server'.goal = action /\ server'.arm = server.arm
    BY <1>0, <2>2 DEF Server
  <2> QED BY <1>1, <2>2, <2>5, <2>6
<1>5. CASE AnswerLost
  <2>1. PICK action : action = FullAction(Head(app.ramp))
    OBVIOUS
  <2>2. /\ app.pc = "ramp" /\ server' = [server EXCEPT !.goal = action]
        /\ client'.heard = client.heard /\ client'.obs = client.obs /\ UNCHANGED consumer
        /\ SamePlan(app, app')
    BY <1>0, <1>5, <2>1, AnswerLostFacts
  <2>3. ASSUME Sound(app') PROVE Directed(app') /\ Placed(app', action)
    <3>1. Sound(app)
      BY <1>2, <2>2, <2>3
    <3>2. Placed(app, action) /\ Directed(app)
      BY <2>1, <2>2, <3>1, NextGoalPlaces DEF Sound, WInv, VerdictInv
    <3> QED BY <1>3, <2>2, <2>3, <3>2
  <2>4. server'.goal = action /\ server'.arm = server.arm
    BY <1>0, <2>2 DEF Server
  <2> QED BY <1>1, <2>2, <2>3, <2>4
<1>6. CASE ReadBase
  <2>1. /\ app.pc = "base" /\ UNCHANGED <<server, client, consumer>>
        /\ Sane(app') /\ app'.base = client.obs /\ app'.command_state = client.obs
        /\ Ends(app', 1) \/ Begins(app', 1)
        /\ client.heard = Joint
    BY <1>0, <1>6, ReadBaseFacts
  <2>2. Untouched
    BY <1>0, <2>1 DEF IInv, BaseInv
  <2>3. client.obs = Rest /\ server.goal = Rest /\ server.arm = Rest
    <3>1. client.obs \in [Joint -> Position] /\ Rest \in [Joint -> Position]
      BY <1>0, ClientAssumption DEF ClientTypeOK, Client, Arm
    <3> QED BY <2>1, <2>2, <3>1 DEF Untouched
  <2>4. ASSUME NEW j \in Body PROVE AtHome(j, server.arm[j], server.goal[j], Seen(j))
    <3>1. j \in Joint /\ Rest[j] \in Int
      BY InRangeFacts
    <3>2. \A x \in Seen(j) : x = Rest[j]
      BY <2>2, <3>1 DEF Untouched, Seen
    <3>3. Gap(Rest[j], Rest[j]) = 0
      BY <3>1 DEF Gap
    <3> QED BY <2>3, <3>2, <3>3, Bounds DEF AtHome
  <2>5. 1 \in Nat \ {0} /\ 1 % 2 = 1
    OBVIOUS
  <2>6. Directed(app') /\ Placed(app', Rest)
    BY <1>0, <2>1, <2>3, <2>4, <2>5, ArmFacts, BeginsAtHome
  <2> QED BY <1>1, <2>1, <2>3, <2>6
<1>7. CASE CheckProgress \/ Dwell
  <2>1. /\ app.pc \in {"check", "dwell"} /\ UNCHANGED <<server, client, consumer>>
        /\ \E a : Looked(a) /\ Advance(a, app')
    BY <1>0, <1>7, LookFacts
  <2>2. PICK a : Looked(a) /\ Advance(a, app')
    BY <2>1
  <2>3. Moving(app) /\ app.base = Rest /\ server.goal = app.command_state /\ server.goal \in Arm
    BY <1>0, <2>1 DEF IInv, BaseInv, StepInv, Moving, Server
  <2>4. Running(a) /\ Moving(a) /\ a.base = Rest /\ a.command_state = server.goal
        /\ a.motion = app.motion /\ Motion(a) = Motion(app)
    BY <2>2, <2>3 DEF Looked, Motion
  <2>5. \A j \in Body : Leg(a, j) = Leg(app, j)
    BY <2>2, <2>3, <2>4, PlanKept DEF Looked
  <2>6. ASSUME Sound(app') PROVE Directed(app') /\ Placed(app', server.goal)
    <3>1. a.failures = {} /\ app.failures = {}
      BY <2>2, <2>6 DEF Sound, Advance, SameCommands, Looked
    <3>2. Directed(app) /\ Placed(app, server.goal)
      BY <2>3, <3>1 DEF Sound, WInv, VerdictInv
    <3>3. Placed(a, server.goal)
      BY <2>4, <2>5, <3>2 DEF Placed
    <3>4. Directed(a)
      <4>1. CASE a.ramp = app.ramp
        BY <2>2, <2>4, <2>5, <3>2, <4>1 DEF Directed, Looked
      <4>2. CASE a.ramp = <<>>
        <5>1. Len(a.ramp) = 0
          BY <4>2
        <5> QED BY <4>2, <5>1 DEF Directed, Steady
      <4> QED BY <2>2, <4>1, <4>2 DEF Looked
    <3>5. a.pc = "dwell" => /\ client.heard = Joint
                            /\ Gap(client.obs[Motion(a).joint], Motion(a).target) <= Tolerance
      BY <2>2, <2>4, <3>1 DEF Looked, Judge
    <3> QED BY <1>0, <2>2, <2>3, <2>4, <3>3, <3>4, <3>5, AdvanceStays
  <2> QED BY <1>1, <2>1, <2>6
<1>8. CASE CallFails \/ Reenter
  <2>1. /\ SamePlan(app, app') /\ UNCHANGED <<server, consumer>>
        /\ client'.heard = client.heard /\ client'.obs = client.obs
    BY <1>0, <1>8, PauseFacts
  <2>2. ASSUME Sound(app') PROVE Directed(app') /\ Placed(app', server.goal)
    BY <1>2, <1>3, <2>1, <2>2 DEF WInv, VerdictInv
  <2> QED BY <1>1, <2>1, <2>2
<1>9. CASE Begin \/ Connected
  <2>1. /\ app'.pc \in {"connecting", "base", "failed"} /\ UNCHANGED <<server, consumer>>
        /\ client'.heard = client.heard /\ client'.obs = client.obs
    BY <1>0, <1>9, BeginFacts
  <2>2. ~Sound(app')
    BY <2>1 DEF Sound, Moving
  <2> QED BY <1>1, <2>1, <2>2
<1>10. CASE Next /\ ~AppStep
  <2>1. /\ app' = app /\ server'.goal = server.goal /\ LagInv'
        /\ \A j \in Joint : Drifts(j)
    BY <1>0, <1>10, OthersKeep DEF Kept
  <2>2. ASSUME Sound(app), NEW j \in Body
        PROVE  InPlace(Leg(app, j), Way(app.motion), j, server'.arm[j], server.goal[j], Seen(j)')
    <3>1. PICK p \in Int, g \in Int, q \in Int :
            p = server.arm[j] /\ g = server.goal[j] /\ q = server'.arm[j]
      BY <1>0, BodyFacts, ClientAssumption DEF ClientTypeOK, Server, Arm
    <3>2. InPlace(Leg(app, j), Way(app.motion), j, p, g, Seen(j))
      BY <2>2, <3>1 DEF WInv, VerdictInv, Placed
    <3>3. Nearer(p, g, q) /\ Seen(j)' \subseteq Seen(j) \cup {p}
      BY <2>1, <3>1, BodyFacts DEF Drifts, Nearer
    <3>4. Seen(j) \subseteq Int
      BY <1>0, SeenFacts
    <3> QED BY <3>1, <3>2, <3>3, <3>4, WayFacts, DriftStays
  <2>3. VerdictInv'
    BY <2>1, <2>2 DEF WInv, VerdictInv, Placed, Directed, Sound, Moving, Leg, Motion
  <2> QED BY <1>0, <2>1, <2>3 DEF WInv
<1>11. CASE UNCHANGED vars
  BY <1>1, <1>11 DEF vars, WInv, VerdictInv
<1> QED BY <1>4, <1>5, <1>6, <1>7, <1>8, <1>9, <1>10, <1>11 DEF AppStep

-----------------------------------------------------------------------------
\* When the first look finds a whole tick and every tier is told from home by a
\* joint that lags behind its streams and is judged with tolerance, "ALL STEPS
\* PASS" is printed only with every body joint back where it was found: whatever
\* was dropped, repeated, stalled or seen late (run_scan, evaluate_dwell).  For an
\* arm that keeps its pose while its server is without its robot.
THEOREM PassMeansHomeAlways ==
  ASSUME WholeTick, Discerning PROVE Spec => []PassMeansHome
<1>1. WInv => PassMeansHome
  <2> SUFFICES ASSUME WInv, app.pc = "over", app.failures = {}, NEW j \in Body
               PROVE  Gap(server.arm[j], Rest[j]) <= Tolerance
    BY DEF PassMeansHome
  <2>1. Leg(app, j) = "home"
    BY DEF Leg, Moving
  <2>2. AtHome(j, server.arm[j], server.goal[j], Seen(j))
    BY <2>1 DEF WInv, VerdictInv, Sound, Placed, InPlace
  <2> QED BY <2>2 DEF AtHome
<1> QED BY <1>1, InitWInv, NextWInv, PTL DEF Spec

=============================================================================
