-------------------------- MODULE JointSmoke_proofs --------------------------
(***************************************************************************)
(* Proofs about the joint smoke test, for every arm, range, set of tiers,  *)
(* ramp step and number of attempts: what a ramp and a plan consist of,    *)
(* and what therefore is ever commanded.                                   *)
(***************************************************************************)
EXTENDS JointSmoke, SequenceTheorems, WellFoundedInduction, TLAPS

-----------------------------------------------------------------------------
(* Arithmetic.                                                               *)

LEMMA Cancel ==
  ASSUME NEW n \in Nat \ {0}, NEW a \in Int, NEW b \in Int, n * a < n * b
  PROVE  a < b
<1> SUFFICES ASSUME b <= a PROVE FALSE
  OBVIOUS
<1>1. PICK c \in Nat : a = b + c
  <2>1. a - b \in Nat /\ a = b + (a - b)
    OBVIOUS
  <2> QED BY <2>1
<1>2. n * a = n * b + n * c
  BY <1>1
<1>3. n * c >= 0
  OBVIOUS
<1> QED BY <1>2, <1>3

LEMMA Quotient ==
  ASSUME NEW x \in Int, NEW n \in Nat \ {0}
  PROVE  /\ x \div n \in Int
         /\ n * (x \div n) <= x /\ x < n * (x \div n) + n
         /\ x % n \in 0 .. n - 1
  OBVIOUS

\* A distance in n equal steps: floored, each is at most m long when n of them
\* reach, and none leaves the way.
LEMMA EqualSteps ==
  ASSUME NEW d \in Int, NEW n \in Nat \ {0}, NEW m \in Nat, d <= n * m, -d <= n * m,
         NEW i \in 0 .. n
  PROVE  /\ (d * i) \div n \in Int
         /\ (d * 0) \div n = 0 /\ (d * n) \div n = d
         /\ 0 <= d => 0 <= (d * i) \div n /\ (d * i) \div n <= d
         /\ d <= 0 => d <= (d * i) \div n /\ (d * i) \div n <= 0
         /\ i < n => /\ (d * (i + 1)) \div n - (d * i) \div n <= m
                     /\ (d * i) \div n - (d * (i + 1)) \div n <= m
                     /\ 0 <= d => (d * i) \div n <= (d * (i + 1)) \div n
                     /\ d <= 0 => (d * (i + 1)) \div n <= (d * i) \div n
<1> DEFINE q(k) == (d * k) \div n
<1>1. ASSUME NEW k \in 0 .. n
      PROVE  q(k) \in Int /\ n * q(k) <= d * k /\ d * k < n * q(k) + n
  <2>1. d * k \in Int
    OBVIOUS
  <2> QED BY <2>1, Quotient
<1>2. q(0) = 0
  <2>1. d * 0 = 0
    OBVIOUS
  <2> QED BY <2>1
<1>3. q(n) = d
  <2>1. q(n) \in Int /\ n * q(n) <= d * n /\ d * n < n * q(n) + n
    BY <1>1
  <2> HIDE DEF q
  <2>2. PICK x \in Int : x = q(n)
    BY <2>1
  <2>3. d * n = n * d /\ n * (x + 1) = n * x + n /\ n * (d + 1) = n * d + n
    OBVIOUS
  <2>4. d < x + 1
    BY <2>1, <2>2, <2>3, Cancel
  <2>5. x < d + 1
    <3>1. n * x < n * (d + 1)
      BY <2>1, <2>2, <2>3
    <3> QED BY <3>1, Cancel
  <2> QED BY <2>2, <2>4, <2>5
<1>4. PICK x \in Int : x = q(i) /\ n * x <= d * i /\ d * i < n * x + n
  BY <1>1
<1>5. n * (x + 1) = n * x + n /\ n * d = d * n /\ n * (d + 1) = n * d + n /\ n * 0 = 0
      /\ n * 1 = n
  OBVIOUS
<1>6. ASSUME 0 <= d PROVE 0 <= x /\ x <= d
  <2>1. 0 <= d * i /\ d * i <= d * n
    <3>1. PICK c \in Nat : n = i + c
      <4>1. n - i \in Nat /\ n = i + (n - i)
        OBVIOUS
      <4> QED BY <4>1
    <3>2. d * n = d * i + d * c /\ 0 <= d * i /\ 0 <= d * c
      BY <1>6, <3>1
    <3> QED BY <3>2
  <2>2. 0 < x + 1
    <3>1. n * 0 < n * (x + 1)
      BY <1>4, <1>5, <2>1
    <3> QED BY <3>1, Cancel
  <2>3. x < d + 1
    <3>1. n * x < n * (d + 1)
      BY <1>4, <1>5, <2>1
    <3> QED BY <3>1, Cancel
  <2> QED BY <2>2, <2>3
<1>7. ASSUME d <= 0 PROVE d <= x /\ x <= 0
  <2>1. d * i <= 0 /\ d * n <= d * i
    <3>1. PICK c \in Nat : n = i + c
      <4>1. n - i \in Nat /\ n = i + (n - i)
        OBVIOUS
      <4> QED BY <4>1
    <3>2. d * n = d * i + d * c /\ d * i <= 0 /\ d * c <= 0
      BY <1>7, <3>1
    <3> QED BY <3>2
  <2>2. d < x + 1
    <3>1. n * d < n * (x + 1)
      BY <1>4, <1>5, <2>1
    <3> QED BY <3>1, Cancel
  <2>3. x < 1
    <3>1. n * x < n * 1
      BY <1>4, <1>5, <2>1
    <3> QED BY <3>1, Cancel
  <2> QED BY <2>2, <2>3
<1>8. ASSUME i < n
      PROVE  /\ q(i + 1) - x <= m /\ x - q(i + 1) <= m
             /\ 0 <= d => x <= q(i + 1)
             /\ d <= 0 => q(i + 1) <= x
  <2>1. PICK y \in Int : y = q(i + 1) /\ n * y <= d * (i + 1) /\ d * (i + 1) < n * y + n
    BY <1>1, <1>8
  <2>2. d * (i + 1) = d * i + d
    OBVIOUS
  <2>3. /\ n * (y - x) = n * y - n * x /\ n * (x - y) = n * x - n * y
        /\ n * (m + 1) = n * m + n
        /\ n * (y + 1) = n * y + n /\ n * (x + 1) = n * x + n
    OBVIOUS
  <2>4. y - x < m + 1
    <3>1. n * (y - x) < n * (m + 1)
      BY <1>4, <2>1, <2>2, <2>3
    <3> QED BY <3>1, Cancel
  <2>5. x - y < m + 1
    <3>1. n * (x - y) < n * (m + 1)
      BY <1>4, <2>1, <2>2, <2>3
    <3> QED BY <3>1, Cancel
  <2>6. ASSUME 0 <= d PROVE x < y + 1
    <3>1. n * x < n * (y + 1)
      BY <1>4, <2>1, <2>2, <2>3, <2>6
    <3> QED BY <3>1, Cancel
  <2>7. ASSUME d <= 0 PROVE y < x + 1
    <3>1. n * y < n * (x + 1)
      BY <1>4, <2>1, <2>2, <2>3, <2>7
    <3> QED BY <3>1, Cancel
  <2> QED BY <2>1, <2>4, <2>5, <2>6, <2>7
<1> QED BY <1>2, <1>3, <1>4, <1>6, <1>7, <1>8

-----------------------------------------------------------------------------
(* A ramp.                                                                   *)

\* Between two positions, ends included.
Between(p, a, b) == (a <= p /\ p <= b) \/ (b <= p /\ p <= a)

\* From p on, no goal of a ramp is further than one step from the one before it.
Smooth(p, r) ==
  /\ r # <<>> => Gap(r[1], p) <= MaxStep
  /\ \A i \in 1 .. Len(r) - 1 : Gap(r[i + 1], r[i]) <= MaxStep

\* From p on, a ramp goes one way only.
Ahead(way, p, q) == IF way = "up" THEN p <= q ELSE q <= p
Steady(way, p, r) ==
  /\ r # <<>> => Ahead(way, p, r[1])
  /\ \A i \in 1 .. Len(r) - 1 : Ahead(way, r[i], r[i + 1])

LEMMA RampFacts ==
  ASSUME NEW c \in Int, NEW t \in Int, NEW r, r = RampGoal(c, t)
  PROVE  /\ r \in Seq(Int) /\ r # <<>> /\ Smooth(c, r)
         /\ \A i \in 1 .. Len(r) : Between(r[i], c, t)
         /\ c <= t => Steady("up", c, r)
         /\ t <= c => Steady("down", c, r)
<1>0. MaxStep \in Nat \ {0}
  BY SmokeAssumption
<1>1. PICK d \in Int : d = t - c
  OBVIOUS
<1>2. PICK needed : needed = (Gap(0, d) + MaxStep - 1) \div MaxStep
  OBVIOUS
<1>3. /\ needed \in Nat /\ d <= MaxStep * needed /\ -d <= MaxStep * needed
      /\ d # 0 => needed # 0
  <2>1. PICK g \in Nat : g = Gap(0, d) /\ d <= g /\ -d <= g /\ (d # 0 => g # 0)
    BY DEF Gap
  <2>2. PICK x \in Int : x = g + MaxStep - 1
    BY <1>0
  <2>3. /\ needed \in Int /\ MaxStep * needed <= x /\ x < MaxStep * needed + MaxStep
    BY <1>0, <1>2, <2>1, <2>2, Quotient
  <2>4. g <= MaxStep * needed
    BY <1>0, <2>2, <2>3
  <2>5. needed > -1
    <3>1. MaxStep * (-1) < MaxStep * needed
      <4>1. MaxStep * (-1) = -MaxStep /\ MaxStep * needed \in Int
        BY <1>0, <2>3
      <4> QED BY <1>0, <2>1, <2>4, <4>1
    <3> QED BY <1>0, <2>3, <3>1, Cancel
  <2>6. needed = 0 => MaxStep * needed = 0
    BY <1>0
  <2> QED BY <1>0, <2>1, <2>3, <2>4, <2>5, <2>6
<1>4. PICK n \in Nat \ {0} : n = IF needed = 0 THEN 1 ELSE needed
  BY <1>3
<1>5. d <= n * MaxStep /\ -d <= n * MaxStep
  BY <1>0, <1>3, <1>4
<1> DEFINE q(i) == (d * i) \div n
<1>6. r = [i \in 1 .. n |-> IF i = n THEN t ELSE c + q(i)]
  BY <1>1, <1>2, <1>4 DEF RampGoal
<1>7. \A i \in 0 .. n :
        /\ q(i) \in Int /\ q(0) = 0 /\ q(n) = d
        /\ 0 <= d => 0 <= q(i) /\ q(i) <= d
        /\ d <= 0 => d <= q(i) /\ q(i) <= 0
        /\ i < n => /\ q(i + 1) - q(i) <= MaxStep /\ q(i) - q(i + 1) <= MaxStep
                    /\ 0 <= d => q(i) <= q(i + 1)
                    /\ d <= 0 => q(i + 1) <= q(i)
  BY <1>0, <1>5, EqualSteps
<1> HIDE DEF q
<1>8. \A i \in 1 .. n : r[i] = c + q(i) /\ r[i] \in Int
  BY <1>1, <1>6, <1>7
<1>9. r \in Seq(Int) /\ Len(r) = n /\ r # <<>>
  <2>1. r \in [1 .. n -> Int]
    BY <1>6, <1>8
  <2> QED BY <2>1, IsASeq, LenProperties, EmptySeq
<1>10. \A i \in 1 .. n : Between(r[i], c, t)
  BY <1>1, <1>7, <1>8 DEF Between
<1>11. Gap(r[1], c) <= MaxStep
  <2>1. /\ q(0) = 0 /\ q(1) \in Int
        /\ q(0 + 1) - q(0) <= MaxStep /\ q(0) - q(0 + 1) <= MaxStep
    BY <1>7
  <2> QED BY <1>0, <1>8, <2>1 DEF Gap
<1>12. ASSUME NEW i \in 1 .. n - 1 PROVE Gap(r[i + 1], r[i]) <= MaxStep
  <2>1. /\ q(i) \in Int /\ q(i + 1) \in Int
        /\ q(i + 1) - q(i) <= MaxStep /\ q(i) - q(i + 1) <= MaxStep
    BY <1>7
  <2>2. r[i] = c + q(i) /\ r[i + 1] = c + q(i + 1)
    BY <1>8
  <2> QED BY <1>0, <2>1, <2>2 DEF Gap
<1>13. ASSUME c <= t PROVE Steady("up", c, r)
  <2>1. 0 <= d
    BY <1>1, <1>13
  <2>2. c <= r[1]
    <3>1. 1 \in 1 .. n /\ q(1) \in Int /\ 0 <= q(1)
      BY <1>7, <2>1
    <3> QED BY <1>8, <3>1
  <2>3. ASSUME NEW i \in 1 .. n - 1 PROVE r[i] <= r[i + 1]
    <3>1. q(i) \in Int /\ q(i + 1) \in Int /\ q(i) <= q(i + 1)
      BY <1>7, <2>1
    <3>2. r[i] = c + q(i) /\ r[i + 1] = c + q(i + 1)
      BY <1>8
    <3> QED BY <3>1, <3>2
  <2> QED BY <1>9, <2>2, <2>3 DEF Steady, Ahead
<1>14. ASSUME t <= c PROVE Steady("down", c, r)
  <2>1. d <= 0
    BY <1>1, <1>14
  <2>2. r[1] <= c
    <3>1. 1 \in 1 .. n /\ q(1) \in Int /\ q(1) <= 0
      BY <1>7, <2>1
    <3> QED BY <1>8, <3>1
  <2>3. ASSUME NEW i \in 1 .. n - 1 PROVE r[i + 1] <= r[i]
    <3>1. q(i) \in Int /\ q(i + 1) \in Int /\ q(i + 1) <= q(i)
      BY <1>7, <2>1
    <3>2. r[i] = c + q(i) /\ r[i + 1] = c + q(i + 1)
      BY <1>8
    <3> QED BY <3>1, <3>2
  <2> QED BY <1>9, <2>2, <2>3 DEF Steady, Ahead
<1> QED BY <1>9, <1>10, <1>11, <1>12, <1>13, <1>14 DEF Smooth

-----------------------------------------------------------------------------
(* The plan.                                                                 *)

LEMMA MinFacts ==
  ASSUME NEW S, S \subseteq Nat, S # {}
  PROVE  Min(S) \in S /\ \A y \in S : Min(S) <= y
<1>1. PICK x \in S : \A y \in S : ~(<<y, x>> \in OpToRel(<, Nat))
  BY NatLessThanWellFounded, WFMin
<1>2. \A y \in S : ~(y < x)
  BY <1>1 DEF OpToRel
<1>3. \E m \in S : \A y \in S : m <= y
  BY <1>2
<1> QED BY <1>3 DEF Min

\* What one motion of a plan is: a body joint goes to an approved target or back
\* to its base; the gripper goes anywhere it can be.
Planned(base, m) ==
  /\ m.joint \in Joint /\ m.judged \in BOOLEAN /\ m.driven \in BOOLEAN
  /\ m.joint \in Body /\ m.driven =>
       Approved(m.joint, m.target) \/ m.target = base[m.joint]
  /\ m.joint = Gripper => m.target \in Position
  /\ m.judged => m.joint \in Body
  /\ m.driven => m.target \in Int

LEMMA BodyFacts ==
  /\ Joint = Body \cup {Gripper} /\ Gripper \in Joint /\ Gripper \notin Body
  /\ Joints - 1 \in Nat \ {0} /\ 1 .. Joints - 1 = Body
  BY SmokeAssumption, ClientAssumption DEF Joint, Body, Gripper

LEMMA ExcursionFacts ==
  ASSUME NEW base \in Arm, NEW e \in 0 .. Excursions - 1
  PROVE  LET x == Excursion(base, e)
         IN  /\ x.joint \in Body /\ x.target \in Int
             /\ x.driven \in BOOLEAN /\ (x.driven => Approved(x.joint, x.target))
             /\ \E i \in 1 .. Len(Tiers) :
                  x.target = base[x.joint] + (IF e % 2 = 0 THEN Tiers[i] ELSE -Tiers[i])
<1>1. PICK n \in Nat \ {0} : n = Joints - 1
  BY BodyFacts
<1>2. PICK l \in Nat : l = Len(Tiers)
  BY SmokeAssumption, LenProperties
<1>3. PICK w \in Nat \ {0} : w = 2 * n
  OBVIOUS
<1>4. e \in Nat /\ e < w * l
  <2>1. 2 * n * l = w * l /\ w * l \in Nat
    BY <1>3
  <2> QED BY <1>1, <1>2, <2>1 DEF Excursions
<1>5. (e \div 2) % n \in 0 .. n - 1
  <2>1. e \div 2 \in Int
    BY <1>4
  <2> QED BY <2>1, Quotient
<1>6. 1 + ((e \div 2) % n) \in Body
  BY <1>1, <1>5, BodyFacts
<1>7. PICK k \in Int : k = e \div w /\ w * k <= e /\ e < w * k + w
  <2>1. e \div w \in Int /\ w * (e \div w) <= e /\ e < w * (e \div w) + w
    BY <1>4, Quotient
  <2> QED BY <2>1
<1>8. 0 < k + 1
  <2>1. w * (k + 1) = w * k + w /\ w * 0 = 0
    OBVIOUS
  <2>2. w * 0 < w * (k + 1)
    BY <1>4, <1>7, <2>1
  <2> QED BY <2>2, Cancel
<1>9. k < l
  <2>1. w * k < w * l
    BY <1>4, <1>7
  <2> QED BY <2>1, Cancel
<1>10. 1 + k \in 1 .. Len(Tiers) /\ Tiers[1 + k] \in Nat
  <2>1. 1 + k \in 1 .. Len(Tiers)
    BY <1>2, <1>8, <1>9
  <2> QED BY <2>1, SmokeAssumption, ElementOfSeq
<1>11. PICK j \in Body : j = 1 + ((e \div 2) % n)
  BY <1>6
<1>12. PICK tier \in Nat : tier = Tiers[1 + k]
  BY <1>10
<1>13. base[j] \in Int
  BY <1>11, BodyFacts, ClientAssumption DEF Arm
<1>14. PICK target \in Int : target = base[j] + (IF e % 2 = 0 THEN tier ELSE -tier)
  BY <1>13
<1>15. PICK b \in BOOLEAN : b = Approved(j, target)
  BY DEF Approved
<1>16. Excursion(base, e) = [joint |-> j, target |-> target, driven |-> b]
  BY <1>1, <1>3, <1>7, <1>11, <1>12, <1>14, <1>15 DEF Excursion
<1> QED BY <1>10, <1>11, <1>12, <1>14, <1>15, <1>16

LEMMA ScanFacts ==
  ASSUME NEW base \in Arm
  PROVE  /\ Excursions \in Nat
         /\ Len(Scan(base)) = 2 * Excursions + 3
         /\ DOMAIN Scan(base) = 1 .. 2 * Excursions + 3
         /\ \A m \in DOMAIN Scan(base) : Planned(base, Scan(base)[m])
<1>1. Excursions \in Nat
  <2>1. PICK n \in Nat : n = Joints - 1
    BY BodyFacts
  <2>2. PICK l \in Nat : l = Len(Tiers)
    BY SmokeAssumption, LenProperties
  <2> QED BY <2>1, <2>2 DEF Excursions
<1>2. DOMAIN Scan(base) = 1 .. 2 * Excursions + 3
  BY DEF Scan
<1>3. Len(Scan(base)) = 2 * Excursions + 3
  BY <1>1, <1>2
<1>4. ASSUME NEW m \in 1 .. 2 * Excursions + 3, m <= 2 * Excursions
      PROVE  Planned(base, Scan(base)[m])
  <2>1. PICK e \in 0 .. Excursions - 1 : e = (m - 1) \div 2
    BY <1>1, <1>4
  <2>2. PICK x : x = Excursion(base, e)
    OBVIOUS
  <2>3. /\ x.joint \in Body /\ x.target \in Int
        /\ x.driven \in BOOLEAN /\ (x.driven => Approved(x.joint, x.target))
    BY <2>2, ExcursionFacts
  <2>4. Scan(base)[m] = [joint |-> x.joint, driven |-> x.driven, judged |-> TRUE,
                         target |-> IF m % 2 = 1 THEN x.target ELSE base[x.joint]]
    BY <1>4, <2>1, <2>2 DEF Scan
  <2>5. base[x.joint] \in Int
    BY <2>3, BodyFacts, ClientAssumption DEF Arm
  <2> QED BY <2>3, <2>4, <2>5, BodyFacts DEF Planned
<1>5. ASSUME NEW m \in 1 .. 2 * Excursions + 3, ~(m <= 2 * Excursions)
      PROVE  Planned(base, Scan(base)[m])
  <2>1. PICK k \in {1, 2, 3} : k = m - 2 * Excursions
    BY <1>1, <1>5
  <2>2. Scan(base)[m] = [joint |-> Gripper, driven |-> TRUE, judged |-> FALSE,
                         target |-> <<0, Opening, base[Gripper]>>[k]]
    BY <1>5, <2>1 DEF Scan
  <2>3. PICK p \in Position : p = <<0, Opening, base[Gripper]>>[k]
    <3>1. 0 \in Position /\ Opening \in Position /\ base[Gripper] \in Position
      BY BodyFacts, SmokeAssumption, ClientAssumption DEF Arm
    <3>2. <<0, Opening, base[Gripper]>>[k] \in Position
      BY <2>1, <3>1
    <3> QED BY <3>2
  <2>4. Scan(base)[m] = [joint |-> Gripper, driven |-> TRUE, judged |-> FALSE, target |-> p]
    BY <2>2, <2>3
  <2> QED BY <2>3, <2>4, BodyFacts, ClientAssumption DEF Planned
<1> QED BY <1>1, <1>2, <1>3, <1>4, <1>5

-----------------------------------------------------------------------------
(* The application.                                                          *)

Moving(a) == a.pc \in {"ramp", "check", "dwell"}

\* Between two motions the ramp may be over.
Running(a) ==
  /\ a \in App /\ a.ramp \in Seq(Position)
  /\ Moving(a) => a.motion \in DOMAIN Scan(a.base) /\ Motion(a).driven
  /\ a.pc = "dwell" => Motion(a).judged

Sane(a) == Running(a) /\ (a.pc = "ramp" => a.ramp # <<>>)

\* A ramp that has just begun.
Fresh(a) ==
  LET p == a.command_state[Motion(a).joint]
      target == Motion(a).target
  IN  /\ Smooth(p, a.ramp)
      /\ \A i \in 1 .. Len(a.ramp) : Between(a.ramp[i], p, target)
      /\ p <= target => Steady("up", p, a.ramp)
      /\ target <= p => Steady("down", p, a.ramp)

\* The motion begins that is the first one driven from the i-th on.
Begins(a, i) ==
  /\ a.pc = "ramp" /\ Fresh(a)
  /\ i <= a.motion /\ \A m \in i .. a.motion - 1 : ~Scan(a.base)[m].driven

\* No motion is left that is driven.
Ends(a, i) ==
  a.pc = "over" /\ \A m \in i .. Len(Scan(a.base)) : ~Scan(a.base)[m].driven

SameCommands(a, b) ==
  /\ b.base = a.base /\ b.command_state = a.command_state /\ b.failures = a.failures

\* The plan goes on: with the same motion, or, when it has been judged or is not,
\* with the next one or the end.
Advance(a, b) ==
  /\ Sane(b) /\ SameCommands(a, b)
  /\ \/ Moving(b) /\ b.ramp = a.ramp /\ b.motion = a.motion
     \/ /\ a.pc = "dwell" \/ ~Motion(a).judged
        /\ Ends(b, a.motion + 1) \/ Begins(b, a.motion + 1)

\* A motion that is driven has a target where its joint can be.
LEMMA TargetFacts ==
  ASSUME NEW base \in Arm, NEW m \in DOMAIN Scan(base), Scan(base)[m].driven
  PROVE  /\ Planned(base, Scan(base)[m])
         /\ Scan(base)[m].joint \in Joint /\ Scan(base)[m].target \in Position
<1>1. Planned(base, Scan(base)[m])
  BY ScanFacts
<1>2. PICK x : x = Scan(base)[m]
  OBVIOUS
<1>3. CASE x.joint = Gripper
  BY <1>1, <1>2, <1>3 DEF Planned
<1>4. CASE x.joint \in Body /\ Approved(x.joint, x.target)
  <2>1. PICK t \in Int : t = x.target
    BY <1>1, <1>2 DEF Planned
  <2>2. PICK lo \in Int, hi \in Int : lo = Limit[x.joint].lo + Margin /\ hi = Limit[x.joint].hi - Margin
    BY <1>4, SmokeAssumption
  <2>3. lo .. hi \subseteq Position
    BY <1>4, <2>2, SmokeAssumption
  <2>4. t \in lo .. hi
    BY <1>4, <2>1, <2>2 DEF Approved
  <2> QED BY <1>1, <1>2, <2>1, <2>3, <2>4 DEF Planned
<1>5. CASE x.joint \in Body /\ x.target = base[x.joint]
  BY <1>1, <1>2, <1>5, BodyFacts DEF Arm, Planned
<1> QED BY <1>1, <1>2, <1>3, <1>4, <1>5, BodyFacts DEF Planned

LEMMA BetweenPositions ==
  ASSUME NEW a \in Position, NEW b \in Position, NEW p \in Int, Between(p, a, b)
  PROVE  p \in Position
<1>1. a \in Int /\ b \in Int /\ a .. b \subseteq Position /\ b .. a \subseteq Position
  BY ClientAssumption
<1> QED BY <1>1 DEF Between

LEMMA StartMotionFacts ==
  ASSUME NEW a \in App, a.ramp \in Seq(Position), NEW i \in Nat \ {0},
         NEW b, b = StartMotion(a, i)
  PROVE  Sane(b) /\ SameCommands(a, b) /\ (Ends(b, i) \/ Begins(b, i))
<1> DEFINE driven == {m \in i .. Len(Scan(a.base)) : Scan(a.base)[m].driven}
<1>0. a.base \in Arm /\ a.command_state \in Arm
  BY DEF App
<1>1. CASE driven = {}
  <2>1. b = [a EXCEPT !.pc = "over"]
    BY <1>1 DEF StartMotion
  <2>2. b \in App
    BY <2>1 DEF App
  <2>3. b.pc = "over" /\ b.ramp = a.ramp /\ SameCommands(a, b)
    BY <2>1 DEF App, SameCommands
  <2> QED BY <1>1, <2>2, <2>3 DEF SameCommands, Sane, Running, Moving, Ends
<1>2. CASE driven # {}
  <2>1. PICK k : k = Min(driven)
    OBVIOUS
  <2>2. k \in driven /\ \A m \in driven : k <= m
    <3>1. driven \subseteq Nat
      BY <1>0, ScanFacts
    <3> QED BY <1>2, <2>1, <3>1, MinFacts
  <2>3. k \in Nat /\ k \in DOMAIN Scan(a.base) /\ Scan(a.base)[k].driven
    BY <1>0, <2>2, ScanFacts
  <2>4. PICK x : x = Scan(a.base)[k]
    OBVIOUS
  <2>5. x.joint \in Joint /\ x.target \in Position
    BY <1>0, <2>3, <2>4, TargetFacts
  <2>6. PICK c \in Position : c = a.command_state[x.joint]
    BY <1>0, <2>5 DEF Arm
  <2>7. PICK t \in Position : t = x.target
    BY <2>5
  <2>8. c \in Int /\ t \in Int
    BY ClientAssumption
  <2>9. PICK r : r = RampGoal(c, t)
    OBVIOUS
  <2>10. /\ r \in Seq(Int) /\ r # <<>> /\ Smooth(c, r)
         /\ \A n \in 1 .. Len(r) : Between(r[n], c, t)
         /\ c <= t => Steady("up", c, r)
         /\ t <= c => Steady("down", c, r)
    BY <2>8, <2>9, RampFacts
  <2>11. r \in Seq(Position)
    <3>1. \A n \in 1 .. Len(r) : r[n] \in Int
      BY <2>10, ElementOfSeq
    <3>2. \A n \in 1 .. Len(r) : r[n] \in Position
      BY <2>10, <3>1, BetweenPositions
    <3> QED BY <2>10, <3>2
  <2>12. PICK f \in BOOLEAN : f <=> t >= c
    BY <2>8
  <2>13. PICK d : d = [a EXCEPT !.motion = k, !.check = <<>>]
    OBVIOUS
  <2>14. Motion(d) = x /\ d.command_state = a.command_state
    BY <2>4, <2>13 DEF App, Motion
  <2>15. b = [d EXCEPT !.pc = "ramp", !.forward = Motion(d).target >= a.command_state[Motion(d).joint],
                       !.ramp = RampGoal(a.command_state[Motion(d).joint], Motion(d).target)]
    BY <1>2, <2>1, <2>13 DEF StartMotion
  <2>16. b = [d EXCEPT !.pc = "ramp", !.forward = f, !.ramp = r]
    <3>1. b = [d EXCEPT !.pc = "ramp", !.forward = (t >= c), !.ramp = r]
      <4>1. Motion(d).target = t /\ a.command_state[Motion(d).joint] = c
        BY <2>6, <2>7, <2>14
      <4> QED BY <2>9, <2>15, <4>1
    <3>2. (t >= c) = f
      <4>1. CASE t >= c
        BY <2>12, <4>1
      <4>2. CASE ~(t >= c)
        BY <2>12, <4>2
      <4> QED BY <4>1, <4>2
    <3> QED BY <3>1, <3>2
  <2>17. d \in App
    <3>1. <<>> \in Seq(Position)
      OBVIOUS
    <3> QED BY <2>3, <2>13, <3>1 DEF App
  <2>18. b \in App
    BY <2>10, <2>16, <2>17 DEF App
  <2>19. /\ b.pc = "ramp" /\ b.ramp = r /\ b.motion = k
         /\ SameCommands(a, b)
    BY <2>13, <2>16, <2>17 DEF App, SameCommands
  <2>20. Motion(b) = x
    BY <2>4, <2>19 DEF Motion, SameCommands
  <2>21. Sane(b)
    BY <2>3, <2>4, <2>10, <2>11, <2>18, <2>19, <2>20
       DEF Sane, Running, Moving, SameCommands
  <2>22. Fresh(b)
    BY <2>6, <2>7, <2>10, <2>19, <2>20 DEF Fresh, SameCommands
  <2>23. ASSUME NEW m \in i .. k - 1 PROVE ~Scan(a.base)[m].driven
    <3>1. k \in Nat /\ i \in Nat /\ k \in i .. Len(Scan(a.base)) /\ Len(Scan(a.base)) \in Nat
      BY <1>0, <2>2, <2>3, ScanFacts
    <3>2. m \in i .. Len(Scan(a.base)) /\ ~(k <= m)
      BY <3>1
    <3> QED BY <2>2, <3>2
  <2>24. i <= k
    BY <2>2
  <2> QED BY <2>19, <2>21, <2>22, <2>23, <2>24 DEF Begins, SameCommands
<1> QED BY <1>1, <1>2

LEMMA EndRampFacts ==
  ASSUME NEW a, Running(a), Moving(a), NEW b, b = EndRamp(a)
  PROVE  Advance(a, b)
<1>1. CASE Motion(a).judged
  <2>1. b = [a EXCEPT !.pc = "dwell"]
    BY <1>1 DEF EndRamp
  <2>2. b \in App
    BY <2>1 DEF App, Running
  <2>3. b.pc = "dwell" /\ b.ramp = a.ramp /\ b.motion = a.motion /\ SameCommands(a, b)
    BY <2>1 DEF App, Running, SameCommands
  <2>4. Motion(b) = Motion(a)
    BY <2>3 DEF Motion, SameCommands
  <2> QED BY <1>1, <2>2, <2>3, <2>4 DEF Advance, Sane, Running, Moving, SameCommands
<1>2. CASE ~Motion(a).judged
  <2>1. a \in App /\ a.ramp \in Seq(Position) /\ a.motion + 1 \in Nat \ {0}
    BY DEF Running, App
  <2>2. Sane(b) /\ SameCommands(a, b) /\ (Ends(b, a.motion + 1) \/ Begins(b, a.motion + 1))
    BY <1>2, <2>1, StartMotionFacts DEF EndRamp
  <2> QED BY <1>2, <2>2 DEF Advance
<1> QED BY <1>1, <1>2

-----------------------------------------------------------------------------
(* The client's own threads and the follower: they command nothing, and what *)
(* is sampled and stored before the first command is the arm at rest.        *)

\* The arm as it was found, and all that is known of it.
Untouched ==
  /\ server.goal = Rest /\ server.arm = Rest
  /\ \A t \in Thread : consumer[t].live => consumer[t].sample = Rest
  /\ \A j \in client.heard : client.obs[j] = Rest[j]

\* Where joint j has been seen: by the cache, by a stream.
Seen(j) ==
  {x \in Position : \/ j \in client.heard /\ client.obs[j] = x
                    \/ \E t \in Thread : consumer[t].live /\ consumer[t].sample[j] = x}

\* Joint j stays or goes towards its goal, and is seen where it was seen, or is.
Drifts(j) ==
  /\ Seen(j)' \subseteq Seen(j) \cup {server.arm[j]}
  /\ \/ server'.arm[j] = server.arm[j]
     \/ server.arm[j] < server.goal[j] /\ server'.arm[j] = server.arm[j] + 1
     \/ server.goal[j] < server.arm[j] /\ server'.arm[j] = server.arm[j] - 1

\* A live stream is not further behind than the lag.
LagInv ==
  \A t \in Thread : consumer[t].live =>
    \A j \in Joint : Gap(consumer[t].sample[j], server.arm[j]) <= Lag

\* What a step that is not the application's keeps.
Kept ==
  /\ ClientTypeOK'
  /\ server'.goal = server.goal
  /\ Untouched => Untouched'
  /\ LagInv => LagInv'
  /\ \A j \in Joint : Drifts(j)

\* The arm stands still, and nothing new is known but where it is.
StandsStill ==
  /\ ClientTypeOK'
  /\ server'.goal = server.goal /\ server'.arm = server.arm
  /\ \A j \in client'.heard :
       \/ j \in client.heard /\ client'.obs[j] = client.obs[j]
       \/ \E t \in Thread : consumer[t].live /\ client'.obs[j] = consumer[t].sample[j]
  /\ \A t \in Thread : consumer'[t].live =>
       \/ consumer[t].live /\ consumer'[t].sample = consumer[t].sample
       \/ consumer'[t].sample = server.arm

LEMMA StandingKeeps == ASSUME ClientTypeOK, StandsStill PROVE Kept
<1>1. /\ server.arm \in [Joint -> Position] /\ client'.heard \subseteq Joint
      /\ \A j \in Joint : server.arm[j] \in Int
      /\ Lag \in Nat
  BY ClientAssumption DEF ClientTypeOK, Server, Arm, StandsStill, Client
<1>2. Untouched => Untouched'
  BY <1>1 DEF StandsStill, Untouched
<1>3. ASSUME LagInv, NEW t \in Thread, consumer'[t].live, NEW j \in Joint
      PROVE  Gap(consumer'[t].sample[j], server'.arm[j]) <= Lag
  <2>1. CASE consumer[t].live /\ consumer'[t].sample = consumer[t].sample
    BY <1>3, <2>1 DEF LagInv, StandsStill
  <2>2. CASE consumer'[t].sample = server.arm
    BY <1>1, <2>2 DEF StandsStill, Gap
  <2> QED BY <1>3, <2>1, <2>2 DEF StandsStill
<1>4. ASSUME NEW j \in Joint, NEW x \in Seen(j)', x # server.arm[j] PROVE x \in Seen(j)
  <2>1. x \in Position
    BY <1>4 DEF Seen
  <2>2. CASE j \in client'.heard /\ client'.obs[j] = x
    BY <2>1, <2>2 DEF Seen, StandsStill
  <2>3. ASSUME NEW t \in Thread, consumer'[t].live, consumer'[t].sample[j] = x
        PROVE  x \in Seen(j)
    <3>1. consumer[t].live /\ consumer'[t].sample = consumer[t].sample
      BY <1>4, <2>3 DEF StandsStill
    <3> QED BY <2>1, <2>3, <3>1 DEF Seen
  <2> QED BY <1>4, <2>2, <2>3 DEF Seen
<1>5. \A j \in Joint : Drifts(j)
  BY <1>4 DEF Drifts, StandsStill
<1> QED BY <1>2, <1>3, <1>5 DEF Kept, StandsStill, LagInv

LEMMA ArmFacts == Rest \in Arm /\ Zero \in Arm /\ 1 \in Joint
  BY ClientAssumption DEF Arm, Zero, Joint

LEMMA ConsumerValues ==
  /\ NoConsumer \in Consumer /\ ~NoConsumer.live
  /\ [NoConsumer EXCEPT !.pc = "opening"] \in Consumer
  /\ ~[NoConsumer EXCEPT !.pc = "opening"].live
  /\ \A c \in Consumer : CutOff(c) \in Consumer /\ ~CutOff(c).live
  BY ArmFacts DEF NoConsumer, Consumer, CutOff

\* The thread t of the consumer is somewhere else now, without a live stream.
LEMMA Unplugged ==
  ASSUME ClientTypeOK, NEW t \in Thread, NEW c \in Consumer, ~c.live,
         consumer' = [consumer EXCEPT ![t] = c], UNCHANGED <<server, client>>
  PROVE  StandsStill
  BY DEF ClientTypeOK, StandsStill

LEMMA LeaveStreamFacts ==
  ASSUME NEW t \in Thread, LeaveStream(t)
  PROVE  \E c \in Consumer : ~c.live /\ consumer' = [consumer EXCEPT ![t] = c]
<1>1. CASE client.stop
  BY <1>1, ConsumerValues DEF LeaveStream
<1>2. CASE ~client.stop
  BY <1>2, ConsumerValues DEF LeaveStream
<1> QED BY <1>1, <1>2

LEMMA LinkKeeps ==
  ASSUME ClientTypeOK, LinkStep
  PROVE  StandsStill
<1>1. CASE Close
  <2>1. PICK up \in BOOLEAN : server' = [server EXCEPT !.up = up]
    <3>1. server.up \in BOOLEAN /\ server = [server EXCEPT !.up = server.up]
      BY DEF ClientTypeOK, Server
    <3> QED BY <1>1, <3>1 DEF Close
  <2>2. server' \in Server /\ server'.goal = server.goal /\ server'.arm = server.arm
    BY <2>1 DEF ClientTypeOK, Server
  <2>3. client' \in Client /\ client'.heard = {}
    BY <1>1, ArmFacts DEF Close, ClientTypeOK, Client, Link
  <2>4. consumer' = [t \in Thread |-> CutOff(consumer[t])]
    BY <1>1 DEF Close
  <2>5. consumer' \in [Thread -> Consumer] /\ \A t \in Thread : ~consumer'[t].live
    BY <2>4, ConsumerValues DEF ClientTypeOK
  <2> QED BY <2>2, <2>3, <2>5 DEF ClientTypeOK, StandsStill
<1>2. CASE ConnectFails
  <2>1. client' = [client EXCEPT !.link = "joining", !.stop = TRUE] /\ UNCHANGED <<server, consumer>>
    BY <1>2 DEF ConnectFails, CleanUp
  <2>2. /\ client' \in Client
        /\ client'.heard = client.heard /\ client'.obs = client.obs
    BY <2>1 DEF ClientTypeOK, Client, Link
  <2> QED BY <2>1, <2>2 DEF ClientTypeOK, StandsStill
<1>3. ASSUME NEW t \in Thread, Connect(t) PROVE StandsStill
  <2> PICK known \in BOOLEAN :
        client' = [client EXCEPT !.link = "up", !.stop = FALSE, !.known = known]
    BY <1>3 DEF Connect, FeatureInfo, ClientTypeOK, Client
  <2>1. /\ server' = [server EXCEPT !.up = TRUE]
        /\ consumer' = [consumer EXCEPT ![t] = [NoConsumer EXCEPT !.pc = "opening"]]
    BY <1>3 DEF Connect
  <2>2. server' \in Server /\ server'.goal = server.goal /\ server'.arm = server.arm
    BY <2>1 DEF ClientTypeOK, Server
  <2>3. /\ client' \in Client
        /\ client'.heard = client.heard /\ client'.obs = client.obs
    BY <2>1 DEF ClientTypeOK, Client, Link
  <2>4. PICK c \in Consumer : ~c.live /\ c = [NoConsumer EXCEPT !.pc = "opening"]
    BY ConsumerValues
  <2>5. /\ consumer' \in [Thread -> Consumer]
        /\ \A u \in Thread : consumer'[u] = IF u = t THEN c ELSE consumer[u]
    BY <2>1, <2>4 DEF ClientTypeOK
  <2> QED BY <2>2, <2>3, <2>4, <2>5 DEF ClientTypeOK, StandsStill
<1> QED BY <1>1, <1>2, <1>3 DEF LinkStep

LEMMA TimeKeeps ==
  ASSUME ClientTypeOK, GrowStale \/ DropRobot
  PROVE  StandsStill
<1>1. CASE GrowStale
  <2>1. /\ client' \in Client /\ UNCHANGED <<server, consumer>>
        /\ client'.heard = client.heard /\ client'.obs = client.obs
    BY <1>1 DEF GrowStale, ClientTypeOK, Client
  <2> QED BY <2>1 DEF ClientTypeOK, StandsStill
<1>2. CASE DropRobot
  <2>1. /\ server' \in Server /\ UNCHANGED <<client, consumer>>
        /\ server'.goal = server.goal /\ server'.arm = server.arm
    BY <1>2 DEF DropRobot, ClientTypeOK, Server
  <2> QED BY <2>1 DEF ClientTypeOK, StandsStill
<1> QED BY <1>1, <1>2

LEMMA ConsumerKeeps ==
  ASSUME ClientTypeOK, NEW t \in Thread, ConsumerStep(t) \/ StreamDies(t)
  PROVE  StandsStill
<1>0. /\ consumer[t] \in Consumer /\ server \in Server /\ client \in Client
      /\ consumer \in [Thread -> Consumer]
  BY DEF ClientTypeOK
<1>1. ASSUME LeaveStream(t), UNCHANGED <<server, client>> PROVE StandsStill
  BY <1>1, LeaveStreamFacts, Unplugged
<1>2. CASE StreamDies(t)
  <2>1. consumer' = [consumer EXCEPT ![t] = CutOff(consumer[t])] /\ UNCHANGED <<server, client>>
    BY <1>0, <1>2 DEF StreamDies
  <2> QED BY <1>0, <2>1, ConsumerValues, Unplugged
<1>3. CASE Interrupted(t)
  BY <1>1, <1>3 DEF Interrupted
<1>4. CASE OpenStream(t)
  <2>1. CASE client.stop
    BY <1>4, <2>1, ConsumerValues, Unplugged DEF OpenStream
  <2>2. CASE ~client.stop /\ ~(At("up") /\ server.up)
    BY <1>1, <1>4, <2>2 DEF OpenStream
  <2>3. CASE ~client.stop /\ At("up") /\ server.up
    <3>1. PICK c : c = [pc |-> "reading", live |-> TRUE, sample |-> server.arm, next |-> 1]
      OBVIOUS
    <3>2. c \in Consumer /\ c.sample = server.arm
      BY <1>0, <3>1, ArmFacts DEF Consumer, Server
    <3>3. consumer' = [consumer EXCEPT ![t] = c] /\ UNCHANGED <<server, client>>
      BY <1>4, <2>3, <3>1 DEF OpenStream
    <3> QED BY <1>0, <3>2, <3>3 DEF ClientTypeOK, StandsStill
  <2> QED BY <2>1, <2>2, <2>3
<1>5. CASE Consume(t)
  <2>1. CASE client.stop
    BY <1>1, <1>5, <2>1 DEF Consume
  <2>2. CASE ~client.stop
    <3>1. PICK c \in Consumer : c = consumer[t] /\ c.live
      BY <1>0, <1>5 DEF Consume
    <3>2. PICK j \in Joint : j = c.next
      BY <3>1 DEF Consumer
    <3>3. PICK p \in Position : p = c.sample[j]
      BY <3>1, <3>2 DEF Consumer, Arm
    <3>4. /\ client' = IF client.known THEN Store(client, j, p) ELSE client
          /\ consumer' = [consumer EXCEPT ![t] =
                            IF j < Joints THEN [c EXCEPT !.next = @ + 1]
                            ELSE [c EXCEPT !.sample = server.arm, !.next = 1]]
          /\ server' = server
      BY <1>5, <2>2, <3>1, <3>2, <3>3 DEF Consume
    <3>5. PICK d \in Consumer : /\ consumer' = [consumer EXCEPT ![t] = d]
                                /\ d.sample = c.sample \/ d.sample = server.arm
      <4>1. CASE j < Joints
        <5>1. PICK k \in Joint : k = j + 1
          BY <4>1, ClientAssumption DEF Joint
        <5>2. [c EXCEPT !.next = @ + 1] = [c EXCEPT !.next = k]
          BY <3>1, <3>2, <5>1 DEF Consumer
        <5>3. [c EXCEPT !.next = k] \in Consumer /\ [c EXCEPT !.next = k].sample = c.sample
          BY <3>1, <5>1 DEF Consumer
        <5> QED BY <3>4, <4>1, <5>2, <5>3
      <4>2. CASE ~(j < Joints)
        <5>1. PICK d : d = [c EXCEPT !.sample = server.arm, !.next = 1]
          OBVIOUS
        <5>2. d \in Consumer /\ d.sample = server.arm
          BY <1>0, <3>1, <5>1, ArmFacts DEF Consumer, Server
        <5> QED BY <3>4, <4>2, <5>1, <5>2
      <4> QED BY <4>1, <4>2
    <3>6. /\ client' \in Client
          /\ \/ client'.heard = client.heard /\ client'.obs = client.obs
             \/ /\ client'.heard = client.heard \cup {j}
                /\ client'.obs = [client.obs EXCEPT ![j] = p]
      <4>1. CASE client.known
        <5>1. client' = [client EXCEPT !.obs = [client.obs EXCEPT ![j] = p], !.obs_time = "fresh",
                                       !.heard = client.heard \cup {j}]
          BY <1>0, <3>4, <4>1 DEF Store, Client
        <5>2. [client.obs EXCEPT ![j] = p] \in Arm
          BY <1>0 DEF Client, Arm
        <5> QED BY <1>0, <5>1, <5>2 DEF Client
      <4>2. CASE ~client.known
        BY <1>0, <3>4, <4>2
      <4> QED BY <4>1, <4>2
    <3>7. ClientTypeOK'
      BY <1>0, <3>4, <3>5, <3>6 DEF ClientTypeOK
    <3>8. \A k \in client'.heard :
            \/ k \in client.heard /\ client'.obs[k] = client.obs[k]
            \/ client'.obs[k] = c.sample[k]
      <4>1. client.obs \in [Joint -> Position] /\ client.heard \subseteq Joint
        BY <1>0 DEF Client, Arm
      <4> QED BY <3>3, <3>6, <4>1
    <3>9. \A u \in Thread : consumer'[u].live =>
            \/ consumer[u].live /\ consumer'[u].sample = consumer[u].sample
            \/ consumer'[u].sample = server.arm
      BY <1>0, <3>1, <3>5
    <3> QED BY <3>1, <3>4, <3>7, <3>8, <3>9 DEF StandsStill
  <2> QED BY <2>1, <2>2
<1> QED BY <1>2, <1>3, <1>4, <1>5 DEF ConsumerStep

\* A servo does not leave the way to its goal, nor the streams behind.
LEMMA ServoKeeps ==
  ASSUME ClientTypeOK, NEW j \in Joint, Servo(j)
  PROVE  Kept
<1>1. PICK p \in Position, g \in Position : p = server.arm[j] /\ g = server.goal[j]
  BY DEF ClientTypeOK, Server, Arm
<1>2. p \in Int /\ g \in Int /\ p # g
  BY <1>1, ClientAssumption DEF Servo
<1>3. PICK n \in Int : n = IF p < g THEN p + 1 ELSE p - 1
  BY <1>2
<1>4. n \in Position
  BY <1>2, <1>3, BetweenPositions DEF Between
<1>5. /\ server' = [server EXCEPT !.arm = [server.arm EXCEPT ![j] = n]]
      /\ UNCHANGED <<client, consumer>>
      /\ \A t \in Thread : consumer[t].live => Gap(consumer[t].sample[j], n) <= Lag
  BY <1>1, <1>3 DEF Servo, ClientTypeOK, Server
<1>6. /\ [server.arm EXCEPT ![j] = n] \in Arm
      /\ \A k \in Joint : [server.arm EXCEPT ![j] = n][k] = IF k = j THEN n ELSE server.arm[k]
  BY <1>4 DEF ClientTypeOK, Server, Arm
<1>7. /\ server' \in Server /\ server'.goal = server.goal
      /\ \A k \in Joint : server'.arm[k] = IF k = j THEN n ELSE server.arm[k]
  BY <1>5, <1>6 DEF ClientTypeOK, Server
<1>8. ~Untouched
  BY <1>1, <1>2 DEF Untouched
<1>9. LagInv => LagInv'
  BY <1>5, <1>7 DEF LagInv
<1>10. ASSUME NEW k \in Joint PROVE Drifts(k)
  <2>1. Seen(k)' = Seen(k)
    BY <1>5 DEF Seen
  <2>2. CASE k = j
    BY <1>1, <1>2, <1>3, <1>7, <2>1, <2>2 DEF Drifts
  <2>3. CASE k # j
    BY <1>7, <2>1, <2>3 DEF Drifts
  <2> QED BY <2>2, <2>3
<1> QED BY <1>5, <1>7, <1>8, <1>9, <1>10 DEF ClientTypeOK, Kept

-----------------------------------------------------------------------------
(* What the steps of the application do.                                     *)

TypeInv == ClientTypeOK /\ Sane(app)

\* The plan is where it was, or given up.
SamePlan(a, b) ==
  /\ b \in App /\ SameCommands(a, b)
  /\ b.motion = a.motion /\ b.ramp = a.ramp
  /\ b.pc \in {a.pc, "failed"}

LEMMA SamePlanFacts ==
  ASSUME NEW a, Sane(a), NEW b, SamePlan(a, b)
  PROVE  Sane(b) /\ Motion(b) = Motion(a)
  BY DEF SamePlan, SameCommands, Sane, Running, Moving, Motion

LEMMA SucceededFacts ==
  ASSUME NEW a \in App
  PROVE  Succeeded(a) = [a EXCEPT !.attempts = Attempts] /\ Succeeded(a) \in App
<1>1. Attempts \in 1 .. Attempts
  BY SmokeAssumption
<1>2. Succeeded(a) = [a EXCEPT !.attempts = Attempts]
  BY DEF Succeeded
<1>3. [a EXCEPT !.attempts = Attempts] \in App
  BY <1>1 DEF App
<1> QED BY <1>2, <1>3

\* A call that fails changes nothing the client has observed.
LEMMA RetryFacts ==
  ASSUME Sane(app), NEW c \in Client, Retry(c)
  PROVE  /\ SamePlan(app, app') /\ client' \in Client
         /\ client'.heard = c.heard /\ client'.obs = c.obs
<1>0. app \in App
  BY DEF Sane, Running
<1>1. CASE app.attempts = 1
  <2>1. app' = [app EXCEPT !.pc = "failed"] /\ client' = c
    BY <1>1 DEF Retry
  <2> QED BY <1>0, <2>1 DEF SamePlan, SameCommands, App
<1>2. CASE app.attempts # 1
  <2>1. PICK n \in 1 .. Attempts : n = app.attempts - 1
    BY <1>0, <1>2, SmokeAssumption DEF App
  <2>2. PICK b \in BOOLEAN : b <=> At("up")
    BY DEF At
  <2>3. app' = [app EXCEPT !.attempts = n, !.leaving = b]
    <3>1. app' = [app EXCEPT !.attempts = n, !.leaving = At("up")]
      <4>1. app' = [app EXCEPT !.attempts = app.attempts - 1, !.leaving = At("up")]
        BY <1>0, <1>2 DEF Retry, App
      <4> QED BY <2>1, <4>1
    <3>2. At("up") = b
      <4>1. CASE At("up")
        BY <2>2, <4>1 DEF At
      <4>2. CASE ~At("up")
        BY <2>2, <4>2 DEF At
      <4> QED BY <4>1, <4>2
    <3> QED BY <3>1, <3>2
  <2>4. SamePlan(app, app')
    BY <1>0, <2>3 DEF SamePlan, SameCommands, App
  <2>5. \/ client' = [c EXCEPT !.link = "joining", !.stop = TRUE]
        \/ client' = [c EXCEPT !.link = "calling"]
    BY <1>2 DEF Retry, CleanUp
  <2>6. client' \in Client /\ client'.heard = c.heard /\ client'.obs = c.obs
    BY <2>5 DEF Client, Link
  <2> QED BY <2>4, <2>6
<1> QED BY <1>1, <1>2

\* A full action leaves nothing to the cache of the last action.
LEMMA FullActionFacts ==
  ASSUME Sane(app), Moving(app), NEW goal \in Position
  PROVE  /\ Motion(app).joint \in Joint
         /\ FullAction(goal) \in Arm /\ Merged(FullAction(goal)) = FullAction(goal)
         /\ \A j \in Joint : FullAction(goal)[j] =
              IF j = Motion(app).joint THEN goal ELSE app.command_state[j]
<1>1. app.base \in Arm /\ app.command_state \in Arm
  BY DEF Sane, Running, App
<1>2. Motion(app).joint \in Joint
  BY <1>1, TargetFacts DEF Sane, Running, Motion
<1>3. /\ FullAction(goal) \in [Joint -> Position]
      /\ \A j \in Joint : FullAction(goal)[j] =
           IF j = Motion(app).joint THEN goal ELSE app.command_state[j]
  BY <1>1, <1>2 DEF FullAction, Arm
<1>4. Merged(FullAction(goal)) = FullAction(goal)
  BY <1>3 DEF Merged
<1> QED BY <1>2, <1>3, <1>4 DEF Arm

\* The next goal has been answered: the ramp is one shorter.
Answered(a) ==
  /\ Running(a) /\ a.pc = "ramp"
  /\ a.base = app.base /\ a.motion = app.motion /\ a.ramp = Tail(app.ramp)
  /\ a.command_state = FullAction(Head(app.ramp))
  /\ a.failures = app.failures

LEMMA HeadFacts ==
  ASSUME Sane(app), app.pc = "ramp"
  PROVE  /\ app.ramp \in Seq(Position) /\ app.ramp # <<>>
         /\ Head(app.ramp) \in Position /\ Head(app.ramp) = app.ramp[1]
         /\ 1 \in 1 .. Len(app.ramp)
<1>1. app.ramp \in Seq(Position) /\ app.ramp # <<>>
  BY DEF Sane, Running
<1>2. Len(app.ramp) \in Nat \ {0}
  BY <1>1, EmptySeq
<1>3. Head(app.ramp) \in Position
  BY <1>1, HeadTailProperties
<1> QED BY <1>1, <1>2, <1>3

LEMMA SendGoalFacts ==
  ASSUME TypeInv, SendGoal
  PROVE  /\ app.pc = "ramp"
         /\ server' = [server EXCEPT !.goal = FullAction(Head(app.ramp))]
         /\ client' \in Client /\ client'.heard = client.heard /\ client'.obs = client.obs
         /\ UNCHANGED consumer
         /\ \E a : Answered(a) /\ Advance(a, app')
<1>1. /\ app \in App /\ Sane(app) /\ app.pc = "ramp" /\ Moving(app)
      /\ client \in Client /\ UNCHANGED consumer
  BY DEF TypeInv, ClientTypeOK, Sane, Running, Moving, SendGoal
<1>2. PICK goal \in Position : goal = Head(app.ramp)
  BY <1>1, HeadFacts
<1>3. /\ FullAction(goal) \in Arm /\ Merged(FullAction(goal)) = FullAction(goal)
  BY <1>1, FullActionFacts
<1>4. PICK r \in Seq(Position) : r = Tail(app.ramp)
  BY <1>1, HeadFacts, HeadTailProperties
<1>5. PICK a : a = [Succeeded(app) EXCEPT !.ramp = Tail(@),
                                          !.command_state[Motion(app).joint] = goal]
  OBVIOUS
<1>6. a = [app EXCEPT !.attempts = Attempts, !.ramp = r, !.command_state = FullAction(goal)]
  BY <1>1, <1>4, <1>5 DEF Succeeded, FullAction, App
<1>7. a \in App
  <2>1. r \in Seq(Int)
    BY <1>4, SeqMonotonic, ClientAssumption
  <2>2. PICK d \in App : d = [app EXCEPT !.attempts = Attempts]
    BY <1>1, SucceededFacts
  <2>3. a = [d EXCEPT !.ramp = r, !.command_state = FullAction(goal)]
    BY <1>1, <1>6, <2>2 DEF App
  <2> QED BY <1>3, <2>1, <2>2, <2>3 DEF App
<1>8. /\ a.pc = "ramp" /\ a.base = app.base /\ a.motion = app.motion /\ a.ramp = r
      /\ a.command_state = FullAction(goal) /\ a.failures = app.failures
  BY <1>1, <1>6 DEF App
<1>9. Motion(a) = Motion(app)
  BY <1>8 DEF Motion
<1>10. Running(a)
  BY <1>1, <1>4, <1>7, <1>8, <1>9 DEF Sane, Running, Moving
<1>11. Answered(a)
  BY <1>2, <1>4, <1>8, <1>10 DEF Answered
<1>12. Advance(a, app')
  <2>1. CASE app' = [a EXCEPT !.pc = "check"]
    <3>1. app' \in App
      BY <1>7, <2>1 DEF App
    <3>2. /\ app'.pc = "check" /\ app'.ramp = a.ramp /\ app'.motion = a.motion
          /\ SameCommands(a, app')
      BY <1>7, <2>1 DEF App, SameCommands
    <3>3. Motion(app') = Motion(a)
      BY <3>2 DEF Motion, SameCommands
    <3> QED BY <1>8, <1>10, <3>1, <3>2, <3>3
            DEF Advance, Sane, Running, Moving, SameCommands
  <2>2. CASE a.ramp = <<>> /\ app' = EndRamp(a)
    <3>1. Moving(a)
      BY <1>8 DEF Moving
    <3> QED BY <1>10, <2>2, <3>1, EndRampFacts
  <2>3. CASE a.ramp # <<>> /\ app' = a
    BY <1>8, <1>10, <2>3 DEF Advance, Sane, Moving, SameCommands
  <2>4. \/ app' = [a EXCEPT !.pc = "check"]
        \/ app' = IF a.ramp = <<>> THEN EndRamp(a) ELSE a
    BY <1>2, <1>5 DEF SendGoal
  <2> QED BY <2>1, <2>2, <2>3, <2>4
<1>13. server' = [server EXCEPT !.goal = FullAction(goal)]
  BY <1>2, <1>3 DEF SendGoal, Apply
<1>14. client' = [client EXCEPT !.act = FullAction(goal)]
  BY <1>2, <1>3 DEF SendGoal, Send
<1>15. client' \in Client /\ client'.heard = client.heard /\ client'.obs = client.obs
  BY <1>1, <1>3, <1>14 DEF Client
<1> QED BY <1>1, <1>2, <1>11, <1>12, <1>13, <1>15

\* The pose the arm was found in becomes the base of the plan and the last command.
LEMMA ReadBaseFacts ==
  ASSUME TypeInv, ReadBase
  PROVE  /\ app.pc = "base" /\ UNCHANGED <<server, client, consumer>>
         /\ WholeTick => client.heard = Joint
         /\ Sane(app') /\ app'.base = client.obs /\ app'.command_state = client.obs
         /\ Ends(app', 1) \/ Begins(app', 1)
<1>1. /\ app \in App /\ app.ramp \in Seq(Position) /\ client.obs \in Arm
      /\ app.pc = "base" /\ UNCHANGED <<server, client, consumer>>
      /\ WholeTick => client.heard = Joint
  BY DEF TypeInv, ClientTypeOK, Client, Sane, Running, ReadBase, Observe
<1>2. PICK d \in App : d = Succeeded(app) /\ d.ramp = app.ramp
  BY <1>1, SucceededFacts DEF App
<1>3. PICK a : a = [d EXCEPT !.base = client.obs, !.command_state = client.obs]
  OBVIOUS
<1>4. /\ a \in App /\ a.ramp = app.ramp
      /\ a.base = client.obs /\ a.command_state = client.obs
  BY <1>1, <1>2, <1>3 DEF App
<1>5. app' = StartMotion(a, 1)
  BY <1>2, <1>3 DEF ReadBase
<1>6. a.ramp \in Seq(Position) /\ 1 \in Nat \ {0}
  BY <1>1, <1>4
<1>7. Sane(app') /\ SameCommands(a, app') /\ (Ends(app', 1) \/ Begins(app', 1))
  BY <1>4, <1>5, <1>6, StartMotionFacts
<1>8. /\ app'.base = client.obs /\ app'.command_state = client.obs
  BY <1>4, <1>7 DEF SameCommands
<1> QED BY <1>1, <1>7, <1>8

\* A look at the joint, under way or at the end of a motion, commands nothing.
Looked(a) ==
  /\ Running(a) /\ Moving(a)
  /\ a.base = app.base /\ a.motion = app.motion /\ a.command_state = app.command_state
  /\ a.ramp = app.ramp \/ a.ramp = <<>>
  /\ a.failures = {} => app.failures = {}
  /\ a.pc = "dwell" =>
       /\ WholeTick => client.heard = Joint
       /\ a.failures = {} => Judge(client.obs[Motion(app).joint])

LEMMA LookFacts ==
  ASSUME TypeInv, CheckProgress \/ Dwell
  PROVE  /\ app.pc \in {"check", "dwell"} /\ UNCHANGED <<server, client, consumer>>
         /\ \E a : Looked(a) /\ Advance(a, app')
<1>1. /\ app \in App /\ Sane(app) /\ app.pc \in {"check", "dwell"} /\ Moving(app)
      /\ client.obs \in Arm /\ UNCHANGED <<server, client, consumer>>
  BY DEF TypeInv, ClientTypeOK, Client, Sane, Running, Moving, CheckProgress, Dwell, Observe
<1>2. PICK d \in App : /\ d = Succeeded(app)
                       /\ d.pc = app.pc /\ d.base = app.base /\ d.motion = app.motion
                       /\ d.ramp = app.ramp /\ d.command_state = app.command_state
                       /\ d.failures = app.failures
  BY <1>1, SucceededFacts DEF App
<1>3. PICK j \in Joint : /\ j = Motion(app).joint
                         /\ Motion(app).judged => j \in Body
  <2>1. app.base \in Arm /\ app.motion \in DOMAIN Scan(app.base) /\ Motion(app).driven
    BY <1>1 DEF App, Sane, Running
  <2>2. Planned(app.base, Motion(app))
    BY <2>1, ScanFacts DEF Motion
  <2> QED BY <2>2 DEF Planned
<1>4. CASE CheckProgress
  <2>1. PICK pos \in Position : pos = client.obs[j]
    BY <1>1 DEF Arm
  <2>2. PICK r : /\ r = app.ramp \/ r = <<>>
                 /\ r = IF /\ app.check # <<>>
                           /\ IF app.forward THEN pos <= Head(app.check)
                              ELSE pos >= Head(app.check)
                        THEN <<>> ELSE app.ramp
    OBVIOUS
  <2>3. PICK a : a = [d EXCEPT !.check = <<pos>>, !.pc = "ramp", !.ramp = r]
    OBVIOUS
  <2>4. app' = IF a.ramp = <<>> THEN EndRamp(a) ELSE a
    BY <1>2, <1>3, <1>4, <2>1, <2>2, <2>3 DEF CheckProgress
  <2>5. r \in Seq(Int) /\ r \in Seq(Position)
    BY <1>1, <2>2 DEF App, Sane, Running
  <2>6. a \in App
    <3>1. <<pos>> \in Seq(Position)
      OBVIOUS
    <3> QED BY <2>3, <2>5, <3>1 DEF App
  <2>7. /\ a.pc = "ramp" /\ a.ramp = r /\ a.base = app.base /\ a.motion = app.motion
        /\ a.command_state = app.command_state /\ a.failures = app.failures
    BY <1>2, <2>3 DEF App
  <2>8. Motion(a) = Motion(app)
    BY <2>7 DEF Motion
  <2>9. Running(a) /\ Moving(a)
    BY <1>1, <2>5, <2>6, <2>7, <2>8 DEF Sane, Running, Moving
  <2>10. Advance(a, app')
    <3>1. CASE a.ramp = <<>>
      BY <2>4, <2>9, <3>1, EndRampFacts
    <3>2. CASE a.ramp # <<>>
      BY <2>4, <2>7, <2>9, <3>2 DEF Advance, Sane, SameCommands
    <3> QED BY <3>1, <3>2
  <2> QED BY <1>1, <2>2, <2>7, <2>9, <2>10 DEF Looked
<1>5. CASE Dwell
  <2>1. j \in Body /\ app.pc = "dwell"
    BY <1>1, <1>3, <1>5 DEF Sane, Running, Dwell, Observe
  <2>2. PICK f \in SUBSET Body :
          f = IF Judge(client.obs[j]) THEN app.failures ELSE app.failures \cup {j}
    BY <1>1, <2>1 DEF App
  <2>3. PICK a : a = [d EXCEPT !.failures = f]
    OBVIOUS
  <2>4. app' = StartMotion(a, app.motion + 1)
    BY <1>2, <1>3, <1>5, <2>2, <2>3 DEF Dwell
  <2>5. a \in App
    BY <2>2, <2>3 DEF App
  <2>6. /\ a.pc = "dwell" /\ a.ramp = app.ramp /\ a.base = app.base /\ a.motion = app.motion
        /\ a.command_state = app.command_state /\ a.failures = f
    BY <1>2, <2>1, <2>3 DEF App
  <2>7. Motion(a) = Motion(app)
    BY <2>6 DEF Motion
  <2>8. Running(a) /\ Moving(a)
    BY <1>1, <2>1, <2>5, <2>6, <2>7 DEF Sane, Running, Moving
  <2>9. app.motion + 1 \in Nat \ {0}
    BY <1>1 DEF App
  <2>10. Advance(a, app')
    <3>1. Sane(app') /\ SameCommands(a, app')
          /\ (Ends(app', a.motion + 1) \/ Begins(app', a.motion + 1))
      BY <2>4, <2>5, <2>6, <2>8, <2>9, StartMotionFacts DEF Running
    <3> QED BY <2>6, <3>1 DEF Advance
  <2>11. /\ f = {} => app.failures = {} /\ Judge(client.obs[j])
         /\ WholeTick => client.heard = Joint
    BY <1>5, <2>2 DEF Dwell, Observe
  <2>12. Looked(a)
    BY <1>3, <2>6, <2>8, <2>11 DEF Looked
  <2> QED BY <1>1, <2>10, <2>12
<1> QED BY <1>1, <1>4, <1>5

LEMMA AnswerLostFacts ==
  ASSUME TypeInv, AnswerLost
  PROVE  /\ app.pc = "ramp" /\ SamePlan(app, app')
         /\ server' = [server EXCEPT !.goal = FullAction(Head(app.ramp))]
         /\ client' \in Client /\ client'.heard = client.heard /\ client'.obs = client.obs
         /\ UNCHANGED consumer
<1>1. Sane(app) /\ app.pc = "ramp" /\ Moving(app) /\ client \in Client /\ UNCHANGED consumer
  BY DEF TypeInv, ClientTypeOK, Moving, AnswerLost
<1>2. PICK goal \in Position : goal = Head(app.ramp)
  BY <1>1, HeadFacts
<1>3. PICK action \in Arm : action = FullAction(goal) /\ Merged(FullAction(goal)) = action
  BY <1>1, FullActionFacts
<1>4. PICK c : c = [client EXCEPT !.act = action]
  OBVIOUS
<1>5. c \in Client /\ c.heard = client.heard /\ c.obs = client.obs
  BY <1>1, <1>4 DEF Client
<1>6. Retry(c)
  BY <1>2, <1>3, <1>4 DEF AnswerLost
<1>7. server' = [server EXCEPT !.goal = action]
  BY <1>2, <1>3 DEF AnswerLost, Apply
<1> QED BY <1>1, <1>2, <1>3, <1>5, <1>6, <1>7, RetryFacts

\* Reconnecting, and what is done before the first look.
LEMMA PauseFacts ==
  ASSUME TypeInv, CallFails \/ Reenter
  PROVE  /\ SamePlan(app, app') /\ UNCHANGED <<server, consumer>>
         /\ client' \in Client /\ client'.heard = client.heard /\ client'.obs = client.obs
<1>1. Sane(app) /\ app \in App /\ client \in Client
  BY DEF TypeInv, ClientTypeOK, Sane, Running
<1>2. CASE CallFails
  BY <1>1, <1>2, RetryFacts DEF CallFails
<1>3. CASE Reenter
  <2>1. SamePlan(app, app')
    BY <1>1, <1>3 DEF Reenter, SamePlan, SameCommands, App
  <2>2. client' \in Client /\ client'.heard = client.heard /\ client'.obs = client.obs
    BY <1>1, <1>3 DEF Reenter, Client, Link
  <2> QED BY <1>3, <2>1, <2>2 DEF Reenter
<1> QED BY <1>2, <1>3

LEMMA BeginFacts ==
  ASSUME TypeInv, Begin \/ Connected
  PROVE  /\ app.pc \in {"start", "connecting"} /\ app'.pc \in {"connecting", "base", "failed"}
         /\ Sane(app') /\ UNCHANGED <<server, consumer>>
         /\ client' \in Client /\ client'.heard = client.heard /\ client'.obs = client.obs
<1>1. app \in App /\ app.ramp \in Seq(Position) /\ client \in Client
  BY DEF TypeInv, ClientTypeOK, Sane, Running
<1>2. PICK pc \in {"connecting", "base", "failed"} : app' = [app EXCEPT !.pc = pc]
  <2>1. CASE Begin
    BY <2>1 DEF Begin
  <2>2. CASE Connected
    <3>1. (IF At("up") THEN "base" ELSE "failed") \in {"base", "failed"}
      OBVIOUS
    <3> QED BY <2>2, <3>1 DEF Connected
  <2> QED BY <2>1, <2>2
<1>3. app' \in App /\ app'.pc = pc /\ app'.ramp = app.ramp
  BY <1>1, <1>2 DEF App
<1>4. Sane(app')
  BY <1>1, <1>2, <1>3 DEF Sane, Running, Moving
<1>5. /\ app.pc \in {"start", "connecting"} /\ UNCHANGED <<server, consumer>>
      /\ client' \in Client /\ client'.heard = client.heard /\ client'.obs = client.obs
  <2>1. CASE Begin
    BY <1>1, <2>1 DEF Begin, Client, Link
  <2>2. CASE Connected
    BY <1>1, <2>2 DEF Connected
  <2> QED BY <2>1, <2>2
<1> QED BY <1>2, <1>3, <1>4, <1>5

LEMMA OthersKeep ==
  ASSUME ClientTypeOK, Next, ~AppStep
  PROVE  Kept /\ UNCHANGED app
  BY LinkKeeps, TimeKeeps, ConsumerKeeps, ServoKeeps, StandingKeeps DEF Next

LEMMA InitType == Init => TypeInv
<1> SUFFICES ASSUME Init PROVE TypeInv
  OBVIOUS
<1>1. server \in Server /\ client \in Client
  BY ArmFacts DEF Init, ClientInit, Server, Client, Link
<1>2. consumer \in [Thread -> Consumer]
  BY ConsumerValues DEF Init, ClientInit
<1>3. /\ app.pc = "start" /\ app.ramp = <<>>
      /\ app \in App
  <2>1. <<>> \in Seq(Int) /\ <<>> \in Seq(Position) /\ Attempts \in 1 .. Attempts
    BY SmokeAssumption
  <2> QED BY <2>1, ArmFacts DEF Init, App
<1>4. app.ramp \in Seq(Position)
  BY <1>3
<1> QED BY <1>1, <1>2, <1>3, <1>4 DEF TypeInv, ClientTypeOK, Sane, Running, Moving

LEMMA NextType == TypeInv /\ [Next]_vars => TypeInv'
<1> SUFFICES ASSUME TypeInv, [Next]_vars PROVE TypeInv'
  OBVIOUS
<1>0. server \in Server /\ client \in Client /\ consumer \in [Thread -> Consumer] /\ Sane(app)
  BY DEF TypeInv, ClientTypeOK
<1>1. ASSUME server' \in Server, client' \in Client, consumer' \in [Thread -> Consumer], Sane(app')
      PROVE  TypeInv'
  BY <1>1 DEF TypeInv, ClientTypeOK, Sane, Running, Moving, Motion
<1>2. ASSUME app.pc = "ramp", server' = [server EXCEPT !.goal = FullAction(Head(app.ramp))]
      PROVE  server' \in Server
  <2>1. FullAction(Head(app.ramp)) \in Arm
    BY <1>0, <1>2, HeadFacts, FullActionFacts DEF Moving
  <2> QED BY <1>0, <1>2, <2>1 DEF Server
<1>3. CASE SendGoal
  BY <1>0, <1>1, <1>2, <1>3, SendGoalFacts DEF Advance
<1>4. CASE AnswerLost
  BY <1>0, <1>1, <1>2, <1>4, AnswerLostFacts, SamePlanFacts
<1>5. CASE ReadBase
  BY <1>0, <1>1, <1>5, ReadBaseFacts
<1>6. CASE CheckProgress \/ Dwell
  BY <1>0, <1>1, <1>6, LookFacts DEF Advance
<1>7. CASE CallFails \/ Reenter
  BY <1>0, <1>1, <1>7, PauseFacts, SamePlanFacts
<1>8. CASE Begin \/ Connected
  BY <1>0, <1>1, <1>8, BeginFacts
<1>9. CASE Next /\ ~AppStep
  <2>1. ClientTypeOK' /\ app' = app
    BY <1>9, OthersKeep DEF TypeInv, Kept
  <2> QED BY <1>0, <1>1, <2>1 DEF ClientTypeOK
<1>10. CASE UNCHANGED vars
  BY <1>0, <1>1, <1>10 DEF vars
<1> QED BY <1>3, <1>4, <1>5, <1>6, <1>7, <1>8, <1>9, <1>10 DEF AppStep

-----------------------------------------------------------------------------
(* What is commanded.                                                        *)

\* Not nearer to an end of its range than the margin, unless it was found there.
InRange(j, p) ==
  /\ p >= Limit[j].lo + Margin \/ p >= Rest[j]
  /\ p <= Limit[j].hi - Margin \/ p <= Rest[j]

\* Until the first command nothing is touched, and what the plan begins from is
\* the pose the arm was found in.
BaseInv ==
  /\ app.pc \in {"start", "connecting", "base"} => Untouched
  /\ Moving(app) => app.base = Rest

\* What the plan a commands, now and with the rest of its ramp, is in range ...
StaysInRange(a) ==
  Moving(a) =>
    /\ \A j \in Body : InRange(j, a.command_state[j])
    /\ Motion(a).joint \in Body =>
         \A i \in 1 .. Len(a.ramp) : InRange(Motion(a).joint, a.ramp[i])

\* ... and comes in small steps.
IsSmooth(a) == Moving(a) => Smooth(a.command_state[Motion(a).joint], a.ramp)

RangeInv == StaysInRange(app) /\ CommandsStayInRange

\* The servos have the last goal that was answered, or already the next.
StepInv ==
  /\ IsSmooth(app)
  /\ Moving(app) =>
       \/ server.goal = app.command_state
       \/ app.pc = "ramp" /\ server.goal = FullAction(Head(app.ramp))

IInv == TypeInv /\ BaseInv /\ RangeInv /\ StepInv

LEMMA InRangeFacts ==
  ASSUME NEW j \in Body
  PROVE  /\ Limit[j].lo + Margin \in Int /\ Limit[j].hi - Margin \in Int
         /\ Rest[j] \in Int /\ j \in Joint
         /\ InRange(j, Rest[j])
         /\ \A p \in Int : Approved(j, p) => InRange(j, p)
         /\ \A a, b, p \in Int : InRange(j, a) /\ InRange(j, b) /\ Between(p, a, b)
                                   => InRange(j, p)
<1>1. /\ Limit[j].lo \in Int /\ Limit[j].hi \in Int /\ Margin \in Int
      /\ Rest[j] \in Int /\ j \in Joint
  <2>1. j \in Joint
    BY BodyFacts
  <2>2. Rest[j] \in Position
    BY <2>1, ClientAssumption
  <2>3. Limit[j] \in [lo : Int, hi : Int]
    BY SmokeAssumption
  <2>4. Limit[j].lo \in Int /\ Limit[j].hi \in Int
    BY <2>3
  <2>5. Margin \in Int
    BY SmokeAssumption
  <2>6. Rest[j] \in Int
    BY <2>2, ClientAssumption
  <2> QED BY <2>1, <2>4, <2>5, <2>6
<1>2. PICK lo \in Int, hi \in Int, rest \in Int :
        lo = Limit[j].lo + Margin /\ hi = Limit[j].hi - Margin /\ rest = Rest[j]
  BY <1>1
<1>3. \A p : InRange(j, p) <=> (p >= lo \/ p >= rest) /\ (p <= hi \/ p <= rest)
  BY <1>2 DEF InRange
<1>4. \A p : Approved(j, p) <=> lo <= p /\ p <= hi
  BY <1>2 DEF Approved
<1>5. ASSUME NEW a \in Int, NEW b \in Int, NEW p \in Int,
             InRange(j, a), InRange(j, b), Between(p, a, b)
      PROVE  InRange(j, p)
  BY <1>2, <1>3, <1>5 DEF Between
<1>6. \A p \in Int : Approved(j, p) => InRange(j, p)
  BY <1>2, <1>3, <1>4
<1>7. InRange(j, Rest[j])
  BY <1>2, <1>3
<1> QED BY <1>1, <1>2, <1>5, <1>6, <1>7

\* A ramp that begins in range leads to a target in range, smoothly.
LEMMA FreshFacts ==
  ASSUME NEW a, Sane(a), Moving(a), Fresh(a), a.base = Rest,
         \A j \in Body : InRange(j, a.command_state[j])
  PROVE  StaysInRange(a) /\ IsSmooth(a)
<1>1. a.base \in Arm /\ a.command_state \in Arm /\ a.ramp \in Seq(Position)
  BY DEF Sane, Running, App
<1>2. /\ Motion(a).joint \in Joint /\ Motion(a).target \in Position /\ Motion(a).driven
      /\ Planned(a.base, Motion(a))
  BY <1>1, TargetFacts DEF Sane, Running, Motion
<1>3. ASSUME NEW i \in 1 .. Len(a.ramp), Motion(a).joint \in Body
      PROVE  InRange(Motion(a).joint, a.ramp[i])
  <2>1. PICK j \in Body : j = Motion(a).joint
    BY <1>3
  <2>2. PICK c \in Position : c = a.command_state[j]
    BY <1>1, <2>1, BodyFacts DEF Arm
  <2>3. PICK t \in Position : t = Motion(a).target
    BY <1>2
  <2>4. PICK p \in Position : p = a.ramp[i]
    BY <1>1, ElementOfSeq
  <2>5. c \in Int /\ t \in Int /\ p \in Int
    BY ClientAssumption
  <2>6. Between(p, c, t)
    BY <2>1, <2>2, <2>3, <2>4 DEF Fresh
  <2>7. InRange(j, c)
    BY <2>2
  <2>8. InRange(j, t)
    <3>1. Approved(j, t) \/ t = Rest[j]
      BY <1>2, <2>1, <2>3 DEF Planned
    <3> QED BY <2>5, <3>1, InRangeFacts
  <2> QED BY <2>1, <2>4, <2>5, <2>6, <2>7, <2>8, InRangeFacts
<1> QED BY <1>3 DEF StaysInRange, IsSmooth, Fresh

LEMMA AdvanceFacts ==
  ASSUME NEW a, Running(a), Moving(a), a.base = Rest, StaysInRange(a), IsSmooth(a),
         NEW b, Advance(a, b)
  PROVE  /\ StaysInRange(b) /\ IsSmooth(b)
         /\ b.base = Rest /\ b.command_state = a.command_state
         /\ b.pc \in {"over", "ramp", "check", "dwell"}
<1>1. /\ b.base = Rest /\ b.command_state = a.command_state
      /\ b.pc \in {"over", "ramp", "check", "dwell"}
  BY DEF Advance, Begins, Ends, Moving, SameCommands
<1>2. CASE b.pc = "over"
  BY <1>1, <1>2 DEF StaysInRange, IsSmooth, Moving
<1>3. CASE Moving(b) /\ b.ramp = a.ramp /\ b.motion = a.motion
  <2>1. Motion(b) = Motion(a)
    BY <1>1, <1>3 DEF Motion, Advance, SameCommands
  <2> QED BY <1>1, <1>3, <2>1 DEF StaysInRange, IsSmooth
<1>4. CASE b.pc = "ramp" /\ Fresh(b)
  <2>1. \A j \in Body : InRange(j, b.command_state[j])
    BY <1>1 DEF StaysInRange
  <2> QED BY <1>1, <1>4, <2>1, FreshFacts DEF Advance, Moving
<1> QED BY <1>1, <1>2, <1>3, <1>4 DEF Advance, Begins, Ends

LEMMA SamePlanKeeps ==
  ASSUME NEW a, Sane(a), NEW b, SamePlan(a, b), StaysInRange(a), IsSmooth(a)
  PROVE  StaysInRange(b) /\ IsSmooth(b) /\ (Moving(b) => Moving(a))
<1>1. Motion(b) = Motion(a)
  BY SamePlanFacts
<1> QED BY <1>1 DEF SamePlan, SameCommands, StaysInRange, IsSmooth, Moving

\* The next goal: one step from the last command, in range, and then what is left
\* of the ramp is again in range and smooth.
LEMMA NextGoalFacts ==
  ASSUME IInv, app.pc = "ramp", NEW action, action = FullAction(Head(app.ramp))
  PROVE  /\ action \in Arm
         /\ \A j \in Body : InRange(j, action[j])
         /\ \A j \in Joint : Gap(action[j], server.goal[j]) <= MaxStep
<1>1. /\ Sane(app) /\ Moving(app) /\ app.command_state \in Arm /\ MaxStep \in Nat
  BY SmokeAssumption DEF IInv, TypeInv, Sane, Running, App, Moving
<1>2. PICK g \in Position : g = Head(app.ramp) /\ g = app.ramp[1] /\ 1 \in 1 .. Len(app.ramp)
  BY <1>1, HeadFacts
<1>3. PICK m \in Joint : m = Motion(app).joint
  BY <1>1, <1>2, FullActionFacts
<1>4. /\ action \in Arm
      /\ \A j \in Joint : action[j] = IF j = m THEN g ELSE app.command_state[j]
  BY <1>1, <1>2, <1>3, FullActionFacts
<1>5. ASSUME NEW j \in Body PROVE InRange(j, action[j])
  <2>1. CASE j = m
    BY <1>1, <1>2, <1>3, <1>4, <2>1, BodyFacts DEF IInv, RangeInv, StaysInRange
  <2>2. CASE j # m
    BY <1>1, <1>4, <2>2, BodyFacts DEF IInv, RangeInv, StaysInRange
  <2> QED BY <2>1, <2>2
<1>6. ASSUME NEW j \in Joint PROVE Gap(action[j], server.goal[j]) <= MaxStep
  <2>1. action[j] \in Int /\ app.command_state[j] \in Int
    BY <1>1, <1>4, ClientAssumption DEF Arm
  <2>2. Gap(g, app.command_state[m]) <= MaxStep
    BY <1>1, <1>2, <1>3, HeadFacts DEF IInv, StepInv, IsSmooth, Smooth
  <2>3. CASE server.goal = app.command_state
    <3>1. CASE j = m
      BY <1>4, <2>2, <2>3, <3>1
    <3>2. CASE j # m
      BY <1>1, <1>4, <2>1, <2>3, <3>2 DEF Gap
    <3> QED BY <3>1, <3>2
  <2>4. CASE server.goal = action
    BY <1>1, <2>1, <2>4 DEF Gap
  <2> QED BY <1>1, <2>3, <2>4 DEF IInv, StepInv
<1> QED BY <1>4, <1>5, <1>6

LEMMA AnsweredFacts ==
  ASSUME IInv, app.pc = "ramp", NEW a, Answered(a)
  PROVE  Moving(a) /\ a.base = Rest /\ StaysInRange(a) /\ IsSmooth(a)
<1>1. Sane(app) /\ Moving(app) /\ app.base = Rest /\ a.base = Rest /\ Moving(a)
  BY DEF IInv, TypeInv, BaseInv, Moving, Answered
<1>2. Motion(a) = Motion(app)
  BY DEF Answered, Motion
<1>3. /\ app.ramp \in Seq(Position) /\ app.ramp # <<>>
      /\ Head(app.ramp) \in Position /\ Head(app.ramp) = app.ramp[1]
  BY <1>1, HeadFacts
<1>4. PICK m \in Joint : m = Motion(app).joint /\ a.command_state[m] = app.ramp[1]
  BY <1>1, <1>3, FullActionFacts DEF Answered
<1>5. /\ a.ramp = Tail(app.ramp) /\ a.ramp \in Seq(Position)
      /\ Len(a.ramp) = Len(app.ramp) - 1
      /\ \A i \in 1 .. Len(a.ramp) : a.ramp[i] = app.ramp[i + 1]
  BY <1>3, HeadTailProperties DEF Answered
<1>6. PICK n \in Nat : n = Len(a.ramp) /\ Len(app.ramp) = n + 1
  <2>1. Len(a.ramp) \in Nat /\ Len(app.ramp) \in Nat
    BY <1>3, <1>5, LenProperties
  <2> QED BY <1>5, <2>1
<1>7. StaysInRange(a)
  <2>1. \A j \in Body : InRange(j, a.command_state[j])
    BY NextGoalFacts DEF Answered
  <2>2. ASSUME NEW i \in 1 .. Len(a.ramp), m \in Body PROVE InRange(m, a.ramp[i])
    <3>1. a.ramp[i] = app.ramp[i + 1] /\ i + 1 \in 1 .. Len(app.ramp)
      BY <1>5, <1>6
    <3> QED BY <1>1, <1>4, <2>2, <3>1 DEF IInv, RangeInv, StaysInRange
  <2> QED BY <1>2, <1>4, <2>1, <2>2 DEF StaysInRange
<1>8. IsSmooth(a)
  <2>1. \A i \in 1 .. Len(app.ramp) - 1 : Gap(app.ramp[i + 1], app.ramp[i]) <= MaxStep
    BY <1>1 DEF IInv, StepInv, IsSmooth, Smooth
  <2>2. ASSUME a.ramp # <<>> PROVE Gap(a.ramp[1], app.ramp[1]) <= MaxStep
    <3>1. n >= 1
      BY <1>5, <1>6, <2>2, EmptySeq
    <3>2. a.ramp[1] = app.ramp[1 + 1] /\ 1 \in 1 .. Len(app.ramp) - 1
      BY <1>5, <1>6, <3>1
    <3> QED BY <2>1, <3>2
  <2>3. ASSUME NEW i \in 1 .. Len(a.ramp) - 1 PROVE Gap(a.ramp[i + 1], a.ramp[i]) <= MaxStep
    <3>1. /\ i \in 1 .. Len(a.ramp) /\ i + 1 \in 1 .. Len(a.ramp)
          /\ i + 1 \in 1 .. Len(app.ramp) - 1
      BY <1>6
    <3>2. a.ramp[i] = app.ramp[i + 1] /\ a.ramp[i + 1] = app.ramp[(i + 1) + 1]
      BY <1>5, <3>1
    <3> QED BY <2>1, <3>1, <3>2
  <2>4. Smooth(app.ramp[1], a.ramp)
    BY <2>2, <2>3 DEF Smooth
  <2> QED BY <1>2, <1>4, <2>4 DEF IsSmooth
<1> QED BY <1>1, <1>7, <1>8

LEMMA InitIInv == Init => IInv
<1> SUFFICES ASSUME Init PROVE IInv
  OBVIOUS
<1>1. server.goal = Rest /\ server.arm = Rest /\ client.heard = {} /\ app.pc = "start"
  BY DEF Init, ClientInit
<1>2. \A t \in Thread : ~consumer[t].live
  BY ConsumerValues DEF Init, ClientInit
<1>3. ~Moving(app)
  BY <1>1 DEF Moving
<1>4. BaseInv
  BY <1>1, <1>2, <1>3 DEF BaseInv, Untouched
<1>5. CommandsStayInRange
  BY <1>1, InRangeFacts DEF CommandsStayInRange, InRange
<1> QED BY <1>3, <1>4, <1>5, InitType DEF IInv, RangeInv, StepInv, StaysInRange, IsSmooth

\* What a step keeps of the invariant when it leaves the goal of the servos.
LEMMA NextIInv ==
  ASSUME WholeTick
  PROVE  IInv /\ [Next]_vars => IInv'
<1> SUFFICES ASSUME IInv, [Next]_vars PROVE IInv'
  OBVIOUS
<1>0. /\ TypeInv /\ ClientTypeOK /\ Sane(app) /\ TypeInv'
      /\ server \in Server /\ consumer \in [Thread -> Consumer]
  BY NextType DEF IInv, TypeInv, ClientTypeOK
<1>1. ASSUME StaysInRange(app'), IsSmooth(app'), BaseInv',
             \A j \in Body : InRange(j, server'.goal[j]),
             Moving(app') => \/ server'.goal = app'.command_state
                             \/ app'.pc = "ramp"
                                /\ server'.goal = [app'.command_state EXCEPT
                                                     ![Motion(app').joint] = Head(app'.ramp)]
      PROVE  IInv'
  <2>1. RangeInv'
    BY <1>1 DEF RangeInv, StaysInRange, CommandsStayInRange, InRange, Moving, Motion
  <2>2. StepInv'
    BY <1>1 DEF StepInv, IsSmooth, Smooth, FullAction, Moving, Motion
  <2> QED BY <1>0, <1>1, <2>1, <2>2 DEF IInv
<1>2. /\ StaysInRange(app) /\ IsSmooth(app)
      /\ \A j \in Body : InRange(j, server.goal[j])
      /\ Moving(app) => app.base = Rest
  BY DEF IInv, RangeInv, StepInv, BaseInv, CommandsStayInRange, InRange
<1>3. CASE SendGoal
  <2>1. PICK action : action = FullAction(Head(app.ramp))
    OBVIOUS
  <2>2. /\ app.pc = "ramp" /\ server' = [server EXCEPT !.goal = action]
        /\ \E a : Answered(a) /\ Advance(a, app')
    BY <1>0, <1>3, <2>1, SendGoalFacts
  <2>3. PICK a : Answered(a) /\ Advance(a, app')
    BY <2>2
  <2>4. Moving(a) /\ a.base = Rest /\ StaysInRange(a) /\ IsSmooth(a) /\ Running(a)
        /\ a.command_state = action
    BY <2>1, <2>2, <2>3, AnsweredFacts DEF Answered
  <2>5. /\ StaysInRange(app') /\ IsSmooth(app') /\ app'.base = Rest
        /\ app'.command_state = action
        /\ app'.pc \in {"over", "ramp", "check", "dwell"}
    BY <2>3, <2>4, AdvanceFacts
  <2>6. server'.goal = action /\ \A j \in Body : InRange(j, action[j])
    BY <1>0, <2>1, <2>2, NextGoalFacts DEF Server
  <2>7. BaseInv'
    BY <2>5 DEF BaseInv
  <2> QED BY <1>1, <2>5, <2>6, <2>7
<1>4. CASE AnswerLost
  <2>1. PICK action : action = FullAction(Head(app.ramp))
    OBVIOUS
  <2>2. /\ app.pc = "ramp" /\ server' = [server EXCEPT !.goal = action]
        /\ SamePlan(app, app')
    BY <1>0, <1>4, <2>1, AnswerLostFacts
  <2>3. StaysInRange(app') /\ IsSmooth(app') /\ Motion(app') = Motion(app)
    BY <1>0, <1>2, <2>2, SamePlanKeeps, SamePlanFacts
  <2>4. server'.goal = action /\ \A j \in Body : InRange(j, action[j])
    BY <1>0, <2>1, <2>2, NextGoalFacts DEF Server
  <2>5. BaseInv'
    BY <1>2, <2>2 DEF BaseInv, SamePlan, SameCommands, Moving
  <2>6. Moving(app') => app'.pc = "ramp" /\ action = [app'.command_state EXCEPT
                                                 ![Motion(app').joint] = Head(app'.ramp)]
    BY <2>1, <2>2, <2>3 DEF SamePlan, SameCommands, FullAction, Moving
  <2> QED BY <1>1, <2>3, <2>4, <2>5, <2>6
<1>5. CASE ReadBase
  <2>1. /\ app.pc = "base" /\ UNCHANGED server
        /\ client.heard = Joint
        /\ Sane(app') /\ app'.base = client.obs /\ app'.command_state = client.obs
        /\ app'.pc = "over" \/ (app'.pc = "ramp" /\ Fresh(app'))
    BY <1>0, <1>5, ReadBaseFacts DEF Begins, Ends
  <2>2. client.obs = Rest /\ server.goal = Rest
    <3>1. Untouched
      BY <2>1 DEF IInv, BaseInv
    <3>2. client.obs \in [Joint -> Position] /\ Rest \in [Joint -> Position]
      BY <1>0, ClientAssumption DEF ClientTypeOK, Client, Arm
    <3> QED BY <2>1, <3>1, <3>2 DEF Untouched
  <2>3. \A j \in Body : InRange(j, Rest[j])
    BY InRangeFacts
  <2>4. StaysInRange(app') /\ IsSmooth(app')
    <3>1. CASE app'.pc = "over"
      BY <3>1 DEF StaysInRange, IsSmooth, Moving
    <3>2. CASE app'.pc = "ramp" /\ Fresh(app')
      <4>1. Moving(app')
        BY <3>2 DEF Moving
      <4> QED BY <2>1, <2>2, <2>3, <3>2, <4>1, FreshFacts
    <3> QED BY <2>1, <3>1, <3>2
  <2>5. BaseInv'
    BY <2>1, <2>2 DEF BaseInv
  <2> QED BY <1>1, <2>1, <2>2, <2>3, <2>4, <2>5
<1>6. CASE CheckProgress \/ Dwell
  <2>1. /\ app.pc \in {"check", "dwell"} /\ UNCHANGED server
        /\ \E a : Looked(a) /\ Advance(a, app')
    BY <1>0, <1>6, LookFacts
  <2>2. PICK a : Looked(a) /\ Advance(a, app')
    BY <2>1
  <2>3. Motion(a) = Motion(app) /\ Moving(app)
    BY <2>1, <2>2 DEF Looked, Motion, Moving
  <2>4. StaysInRange(a) /\ IsSmooth(a)
    <3>1. CASE a.ramp = app.ramp
      BY <1>2, <2>2, <2>3, <3>1 DEF Looked, StaysInRange, IsSmooth
    <3>2. CASE a.ramp = <<>>
      <4>1. Len(a.ramp) = 0
        BY <3>2
      <4> QED BY <1>2, <2>2, <2>3, <3>2, <4>1 DEF Looked, StaysInRange, IsSmooth, Smooth
    <3> QED BY <2>2, <3>1, <3>2 DEF Looked
  <2>5. Running(a) /\ Moving(a) /\ a.base = Rest /\ a.command_state = app.command_state
    BY <1>2, <2>2, <2>3 DEF Looked
  <2>6. /\ StaysInRange(app') /\ IsSmooth(app') /\ app'.base = Rest
        /\ app'.command_state = app.command_state
        /\ app'.pc \in {"over", "ramp", "check", "dwell"}
    BY <2>2, <2>4, <2>5, AdvanceFacts
  <2>7. server'.goal = app.command_state
    BY <2>1, <2>3 DEF IInv, StepInv
  <2>8. BaseInv'
    BY <2>6 DEF BaseInv
  <2> QED BY <1>1, <1>2, <2>1, <2>6, <2>7, <2>8
<1>7. CASE CallFails \/ Reenter
  <2>1. /\ SamePlan(app, app') /\ UNCHANGED <<server, consumer>>
        /\ client'.heard = client.heard /\ client'.obs = client.obs
    BY <1>0, <1>7, PauseFacts
  <2>2. StaysInRange(app') /\ IsSmooth(app') /\ Motion(app') = Motion(app)
    BY <1>0, <1>2, <2>1, SamePlanKeeps, SamePlanFacts
  <2>3. BaseInv'
    BY <1>2, <2>1 DEF IInv, BaseInv, SamePlan, SameCommands, Moving, Untouched
  <2>4. Moving(app') =>
          \/ server'.goal = app'.command_state
          \/ app'.pc = "ramp" /\ server'.goal = [app'.command_state EXCEPT
                                                   ![Motion(app').joint] = Head(app'.ramp)]
    BY <2>1, <2>2 DEF IInv, StepInv, SamePlan, SameCommands, FullAction, Moving
  <2> QED BY <1>1, <1>2, <2>1, <2>2, <2>3, <2>4
<1>8. CASE Begin \/ Connected
  <2>1. /\ app.pc \in {"start", "connecting"} /\ app'.pc \in {"connecting", "base", "failed"}
        /\ UNCHANGED <<server, consumer>>
        /\ client'.heard = client.heard /\ client'.obs = client.obs
    BY <1>0, <1>8, BeginFacts
  <2>2. ~Moving(app')
    BY <2>1 DEF Moving
  <2>3. BaseInv'
    BY <2>1, <2>2 DEF IInv, BaseInv, Untouched, Moving
  <2> QED BY <1>1, <1>2, <2>1, <2>2, <2>3 DEF StaysInRange, IsSmooth
<1>9. CASE Next /\ ~AppStep
  <2>1. UNCHANGED app /\ server'.goal = server.goal /\ (Untouched => Untouched')
    BY <1>0, <1>9, OthersKeep DEF Kept
  <2>2. BaseInv'
    BY <2>1 DEF IInv, BaseInv, Moving
  <2> QED BY <1>1, <1>2, <2>1, <2>2 DEF IInv, StepInv, FullAction
<1>10. CASE UNCHANGED vars
  <2>1. UNCHANGED <<app, server, client, consumer>>
    BY <1>10 DEF vars
  <2>2. BaseInv'
    BY <2>1 DEF IInv, BaseInv, Untouched, Moving
  <2> QED BY <1>1, <1>2, <2>1, <2>2 DEF IInv, StepInv, FullAction
<1> QED BY <1>3, <1>4, <1>5, <1>6, <1>7, <1>8, <1>9, <1>10 DEF AppStep

LEMMA Invariance == ASSUME WholeTick PROVE Spec => []IInv
  BY InitIInv, NextIInv, PTL DEF Spec

\* Only a goal of the ramp under way moves the servos' goal.
LEMMA StepIsSmall == IInv /\ [Next]_vars =>
                       \A j \in Joint : Gap(server'.goal[j], server.goal[j]) <= MaxStep
<1> SUFFICES ASSUME IInv, [Next]_vars, NEW j \in Joint
             PROVE  Gap(server'.goal[j], server.goal[j]) <= MaxStep
  OBVIOUS
<1>0. /\ TypeInv /\ ClientTypeOK /\ server \in Server
      /\ server.goal[j] \in Int /\ MaxStep \in Nat
  BY ClientAssumption, SmokeAssumption DEF IInv, TypeInv, ClientTypeOK, Server, Arm
<1>1. CASE SendGoal \/ AnswerLost
  <2>1. PICK action : action = FullAction(Head(app.ramp))
    OBVIOUS
  <2>2. app.pc = "ramp" /\ server' = [server EXCEPT !.goal = action]
    BY <1>0, <1>1, <2>1, SendGoalFacts, AnswerLostFacts
  <2> QED BY <1>0, <2>1, <2>2, NextGoalFacts DEF Server
<1>2. CASE server'.goal = server.goal
  BY <1>0, <1>2 DEF Gap
<1>3. server'.goal = server.goal \/ SendGoal \/ AnswerLost
  BY <1>0, ReadBaseFacts, LookFacts, PauseFacts, BeginFacts, OthersKeep
     DEF AppStep, Kept, vars
<1> QED BY <1>1, <1>2, <1>3

-----------------------------------------------------------------------------
\* Every reachable state is well typed: whatever is observed, repeated or lost, the
\* application is at a motion of its plan, and every position commanded, sampled or
\* cached is one where a joint can be (ramp_goal, build_scan_steps, _send_joint).
THEOREM TypeCorrect == Spec => []TypeOK
<1>1. TypeInv => TypeOK
  BY DEF TypeInv, TypeOK, Sane, Running
<1> QED BY <1>1, InitType, NextType, PTL DEF Spec

\* When the first look finds a whole tick, no body joint is ever commanded nearer
\* to an end of its range than the margin, unless it was found there, and then not
\* further, whatever the plan, the failures and the retries (check_target).
THEOREM CommandsStayInRangeAlways ==
  ASSUME WholeTick PROVE Spec => []CommandsStayInRange
<1>1. IInv => CommandsStayInRange
  BY DEF IInv, RangeInv
<1> QED BY <1>1, Invariance, PTL

\* When the first look finds a whole tick, no command takes a joint further than
\* one ramp step from its last one, over failures, retries, lost answers and
\* stalled ramps (_send_joint, ramp_goal, retrying_rpc).
THEOREM CommandsAreSmallAlways ==
  ASSUME WholeTick PROVE Spec => CommandsAreSmall
<1>1. IInv /\ [Next]_vars =>
        [\A j \in Joint : Gap(server'.goal[j], server.goal[j]) <= MaxStep]_vars
  BY StepIsSmall
<1> QED BY <1>1, Invariance, PTL DEF Spec, CommandsAreSmall

=============================================================================
