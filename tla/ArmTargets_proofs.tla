-------------------------- MODULE ArmTargets_proofs --------------------------
(***************************************************************************)
(* Theorems about ArmTargets, for every preset table and every plan.  Types *)
(* and box hold for every envelope; that goals stay within reach and are   *)
(* stable, both up to the rounding, for envelopes whose limits fit together *)
(* (LimitsFit), and so for every step of the grid; what the cache promises, *)
(* for plans the precheck of the boards leaves no trace in (Anchored, or   *)
(* mock).  The hypotheses are constant formulas.                           *)
(***************************************************************************)
EXTENDS ArmTargets, WellFoundedInduction, SequenceTheorems, TLAPS

-----------------------------------------------------------------------------
(* The clamping.                                                           *)

LEMMA ClampInRange ==
  ASSUME NEW v \in Int, NEW lo \in Int, NEW hi \in Int, lo <= hi
  PROVE  Clamp(v, lo, hi) \in lo..hi
  BY DEF Clamp

\* Every nonempty set of naturals has a least element.
LEMMA LeastNat ==
  ASSUME NEW S, S \subseteq Nat, S # {}
  PROVE  \E n \in S : \A m \in S : n <= m
<1> DEFINE R == OpToRel(<, Nat)
<1>1. IsWellFoundedOn(R, Nat)
  BY NatLessThanWellFounded, Zenon
<1>2. PICK n \in S : \A m \in S : ~(<<m, n>> \in R)
  BY <1>1, WFMin, Zenon
<1>3. \A m \in S : ~(m < n)
  BY <1>2 DEF OpToRel
<1> QED BY <1>3

\* A scaled coordinate exists: the least number of half steps that is enough.
LEMMA HalfStepsIs ==
  ASSUME NEW v \in Nat, NEW L \in Nat, NEW x \in Nat, NEW z \in Nat, v = x \/ v = z
  PROVE  LET h == HalfSteps(v, L, x, z)
         IN  /\ h \in 0..(2 * L)
             /\ h * h * (x * x + z * z) >= 4 * (v * v * L * L)
             /\ h = 0 \/ (h - 1) * (h - 1) * (x * x + z * z) < 4 * (v * v * L * L)
<1> DEFINE s == x * x + z * z
           q == 4 * (v * v * L * L)
           S == {n \in Nat : n * n * s >= q}
<1>1. v * v \in Nat /\ v * v <= s /\ s \in Nat /\ q \in Nat
  <2>1. x * x \in Nat /\ z * z \in Nat
    OBVIOUS
  <2> QED BY <2>1
<1>2. 2 * L \in S
  <2> DEFINE a == v * v   b == L * L
  <2>1. a \in Nat /\ b \in Nat /\ a <= s
    BY <1>1
  <2>2. a * b <= b * s /\ b * s \in Int /\ a * b \in Int
    <3> HIDE DEF a, b, s
    <3> QED BY <2>1, <1>1
  <2>3. q = 4 * (a * b)
    OBVIOUS
  <2>4. (2 * L) * (2 * L) * s = 4 * (b * s)
    <3> HIDE DEF s
    <3> QED BY <1>1
  <2>5. (2 * L) * (2 * L) * s >= q
    <3> HIDE DEF s, a, b, q
    <3> QED BY <2>2, <2>3, <2>4
  <2> QED BY <2>5
<1>3. PICK n \in S : \A m \in S : n <= m
  <2> HIDE DEF s, q
  <2> QED BY <1>2, LeastNat
<1>4. n \in 0..(2 * L) /\ n * n * s >= q
  BY <1>2, <1>3
<1>5. n = 0 \/ (n - 1) * (n - 1) * s < q
  <2> SUFFICES ASSUME n # 0 PROVE (n - 1) * (n - 1) * s < q
    OBVIOUS
  <2>1. n - 1 \in Nat /\ n - 1 \notin S
    BY <1>3, <1>4
  <2>2. (n - 1) * (n - 1) * s \in Int
    BY <2>1, <1>1
  <2> HIDE DEF s, q
  <2> QED BY <2>1, <2>2, <1>1
<1>6. \E h \in 0..(2 * L) : h * h * s >= q /\ (h = 0 \/ (h - 1) * (h - 1) * s < q)
  BY <1>4, <1>5
<1> QED BY <1>6 DEF HalfSteps

-----------------------------------------------------------------------------
(* The envelope.                                                           *)

LEMMA Limited ==
  ASSUME plan \in PlanType
  PROVE  /\ \A l \in Limits : Envelope[l] \in Int
         /\ Envelope["xmin"] <= Envelope["xmax"] /\ Envelope["ymin"] <= Envelope["ymax"]
         /\ Envelope["zmin"] <= Envelope["zmax"] /\ Envelope["tmin"] <= Envelope["tmax"]
         /\ Envelope["smin"] <= Envelope["smax"] /\ Envelope["zmin"] <= Envelope["lowz"]
         /\ Envelope["rmin"] \in Nat /\ Envelope["rmax"] \in Nat
<1>1. Envelope \in EnvelopeType
  BY DEF PlanType, Envelope
<1>2. Envelope \in [Limits -> Int]
  BY <1>1 DEF EnvelopeType
<1> QED BY <1>1, <1>2 DEF EnvelopeType, Limits

LEMMA Ordered ==
  ASSUME plan \in PlanType
  PROVE  /\ Envelope["xmin"] \in Nat /\ Envelope["xmax"] \in Nat /\ Envelope["xmin"] <= Envelope["xmax"]
         /\ Envelope["zmin"] \in Nat /\ Envelope["zmax"] \in Nat /\ Envelope["zmin"] <= Envelope["zmax"]
         /\ Envelope["rmin"] \in Nat /\ Envelope["rmax"] \in Nat /\ Envelope["rmin"] <= Envelope["rmax"]
         /\ Envelope["lowx"] \in Int /\ Envelope["lowz"] \in Nat /\ Envelope["zmin"] <= Envelope["lowz"]
<1>1. Envelope \in EnvelopeType
  BY DEF PlanType, Envelope
<1> QED BY <1>1 DEF EnvelopeType, Limits

\* Whatever the reach asks for, the result is back in the box.
LEMMA WithinReachInBox ==
  ASSUME plan \in PlanType, NEW x \in Envelope["xmin"]..Envelope["xmax"], NEW z \in Envelope["zmin"]..Envelope["zmax"]
  PROVE  LET h == WithinReach(x, z)
         IN  /\ h[1] \in 2 * Envelope["xmin"] .. 2 * Envelope["xmax"]
             /\ h[2] \in 2 * Envelope["zmin"] .. 2 * Envelope["zmax"]
<1>1. /\ x \in Nat /\ z \in Nat
      /\ 2 * Envelope["xmin"] \in Int /\ 2 * Envelope["xmax"] \in Int
      /\ 2 * Envelope["zmin"] \in Int /\ 2 * Envelope["zmax"] \in Int
      /\ 2 * Envelope["xmin"] <= 2 * Envelope["xmax"] /\ 2 * Envelope["zmin"] <= 2 * Envelope["zmax"]
      /\ 2 * x \in 2 * Envelope["xmin"] .. 2 * Envelope["xmax"]
      /\ 2 * z \in 2 * Envelope["zmin"] .. 2 * Envelope["zmax"]
  BY Ordered
<1>2. ASSUME NEW L \in Nat
      PROVE  /\ Scaled(x, z, L)[1] \in 2 * Envelope["xmin"] .. 2 * Envelope["xmax"]
             /\ Scaled(x, z, L)[2] \in 2 * Envelope["zmin"] .. 2 * Envelope["zmax"]
  <2>1. HalfSteps(x, L, x, z) \in 0..(2 * L) /\ HalfSteps(z, L, x, z) \in 0..(2 * L)
    BY <1>1, HalfStepsIs
  <2>2. HalfSteps(x, L, x, z) \in Int /\ HalfSteps(z, L, x, z) \in Int
    BY <2>1
  <2> QED BY <1>1, <2>2, ClampInRange DEF Scaled
<1>3. WithinReach(x, z) \in {Scaled(x, z, Envelope["rmax"]), Scaled(x, z, Envelope["rmin"]), <<2 * x, 2 * z>>}
  BY DEF WithinReach
<1> QED BY <1>1, <1>2, <1>3, Ordered

LEMMA Half ==
  ASSUME NEW a \in Int, NEW b \in Int, NEW h \in 2 * a .. 2 * b
  PROVE  h \div 2 \in a..b
  OBVIOUS

\* A clamped goal is a raw command inside the envelope.
LEMMA ClampedInBox ==
  ASSUME plan \in PlanType, NEW r \in Raw
  PROVE  ClampT104(r) \in Raw /\ InBox(ClampT104(r))
<1> DEFINE cx == ClampX(r.x)   cz == ClampZ(r.z)   h == WithinReach(cx, cz)
<1>0. /\ r.x \in Int /\ r.y \in Int /\ r.z \in Int /\ r.t \in Int /\ r.spd \in Int
      /\ \A l \in Limits : Envelope[l] \in Int
  BY Limited DEF Raw
<1>1. cx \in Envelope["xmin"]..Envelope["xmax"] /\ cz \in Envelope["zmin"]..Envelope["zmax"]
  BY <1>0, Limited, ClampInRange DEF ClampX, ClampZ, Limits
<1>2. /\ h[1] \in 2 * Envelope["xmin"] .. 2 * Envelope["xmax"]
      /\ h[2] \in 2 * Envelope["zmin"] .. 2 * Envelope["zmax"]
  <2> HIDE DEF cx, cz
  <2> QED BY <1>1, WithinReachInBox
<1>3. Clamp(r.y, Envelope["ymin"], Envelope["ymax"]) \in Envelope["ymin"]..Envelope["ymax"]
  BY <1>0, Limited, ClampInRange DEF Limits
<1>4. Clamp(r.t, Envelope["tmin"], Envelope["tmax"]) \in Envelope["tmin"]..Envelope["tmax"]
  BY <1>0, Limited, ClampInRange DEF Limits
<1>5. SafeSpeed(r.spd) \in Envelope["smin"]..Envelope["smax"]
  <2>1. {Envelope["smin"], Envelope["smax"]} \subseteq Int /\ Envelope["smin"] <= Envelope["smax"]
    BY Limited DEF Limits
  <2>2. CASE r.spd <= 0
    BY <2>1, <2>2 DEF SafeSpeed
  <2>3. CASE ~(r.spd <= 0)
    BY <1>0, <2>1, <2>3, ClampInRange DEF SafeSpeed
  <2> QED BY <2>2, <2>3
<1> DEFINE a == h[1]   b == h[2]
           z == IF a <= 2 * Envelope["lowx"] /\ b > 2 * Envelope["lowz"]
                THEN Envelope["lowz"] ELSE b \div 2
           y == Clamp(r.y, Envelope["ymin"], Envelope["ymax"])
           t == Clamp(r.t, Envelope["tmin"], Envelope["tmax"])
           x == a \div 2
<1>6. ClampT104(r) = [T |-> 104, x |-> x, y |-> y, z |-> z, t |-> t, spd |-> SafeSpeed(r.spd)]
  BY DEF ClampT104
<1>7. /\ a \in 2 * Envelope["xmin"] .. 2 * Envelope["xmax"]
      /\ b \in 2 * Envelope["zmin"] .. 2 * Envelope["zmax"]
  BY <1>2
<1> HIDE DEF a, b
<1>8. x \in Envelope["xmin"]..Envelope["xmax"] /\ b \div 2 \in Envelope["zmin"]..Envelope["zmax"]
  BY <1>7, Ordered, Half
<1>9. z \in Envelope["zmin"]..Envelope["zmax"]
  <2>1. CASE a <= 2 * Envelope["lowx"] /\ b > 2 * Envelope["lowz"]
    BY <2>1, <1>7, Ordered
  <2> QED BY <1>8, <2>1
<1>10. x < Envelope["lowx"] => z <= Envelope["lowz"]
  <2>1. a \in Int /\ b \in Int
    BY <1>7, Ordered
  <2> QED BY <2>1, Ordered
<1> HIDE DEF x, y, z, t
<1>11. y \in Envelope["ymin"]..Envelope["ymax"] /\ t \in Envelope["tmin"]..Envelope["tmax"]
  BY <1>3, <1>4 DEF y, t
<1> QED BY <1>0, <1>5, <1>6, <1>8, <1>9, <1>10, <1>11 DEF Raw, InBox, Limits

-----------------------------------------------------------------------------
(* The translator.                                                         *)

LEMMA HomeTypes == Home \in Pose /\ HomeRaw \in Raw
  BY DEF Home, HomeRaw, Pose, Raw

LEMMA BuildType ==
  ASSUME NEW a \in ArmMove, NEW p \in Pose, Known(a)
  PROVE  Build(a, p) \in Raw
<1>1. CASE a.op = "init"
  BY <1>1, HomeTypes DEF Build
<1>2. CASE a.op = "preset"
  BY <1>2, ArmAssumption DEF Build, Known, ArmAssumption
<1>3. CASE a.op = "delta"
  <2> DEFINE t == IF a.keepT THEN p.t + a.t ELSE a.t
  <2>1. /\ p.x + a.x \in Int /\ p.y + a.y \in Int /\ p.z + a.z \in Int /\ t \in Int
        /\ a.spd \in Int
    BY DEF ArmMove, Pose
  <2>2. Build(a, p) = Goal(p.x + a.x, p.y + a.y, p.z + a.z, t, a.spd)
    BY <1>3 DEF Build
  <2> HIDE DEF t
  <2> QED BY <2>1, <2>2 DEF Goal, Raw
<1>4. CASE a.op = "xyz"
  <2> DEFINE t == IF a.keepT THEN p.t ELSE a.t
  <2>1. a.x \in Int /\ a.y \in Int /\ a.z \in Int /\ t \in Int /\ a.spd \in Int
    BY DEF ArmMove, Pose
  <2>2. Build(a, p) = Goal(a.x, a.y, a.z, t, a.spd)
    BY <1>4 DEF Build
  <2> HIDE DEF t
  <2> QED BY <2>1, <2>2 DEF Goal, Raw
<1> QED BY <1>1, <1>2, <1>3, <1>4 DEF ArmMove

LEMMA SanitizeType ==
  ASSUME plan \in PlanType, NEW r \in Raw, NEW mode
  PROVE  /\ Sanitize(r, mode) \in Raw
         /\ mode = "clamp" /\ Sanitize(r, mode).T = 104 => InBox(Sanitize(r, mode))
<1>1. CASE mode = "clamp" /\ r.T = 104
  BY <1>1, ClampedInBox DEF Sanitize
<1>2. CASE ~(mode = "clamp" /\ r.T = 104)
  BY <1>2 DEF Sanitize
<1> QED BY <1>1, <1>2

LEMMA PoseAfterType ==
  ASSUME NEW r \in Raw, NEW p \in Pose
  PROVE  PoseAfter(r, p) \in Pose
  BY HomeTypes DEF PoseAfter, Raw, Pose

LEMMA CachedType ==
  ASSUME plan \in PlanType, NEW a \in ArmMove, NEW p \in Pose, NEW mode
  PROVE  Cached(a, p, mode) \in Pose
<1>1. CASE Warns(a, p, mode)
  BY <1>1 DEF Cached
<1>2. CASE ~Warns(a, p, mode)
  <2>1. Build(a, p) \in Raw
    BY <1>2, BuildType DEF Warns
  <2>2. Sanitize(Build(a, p), mode) \in Raw
    BY <2>1, SanitizeType
  <2> QED BY <1>2, <2>2, PoseAfterType DEF Cached
<1> QED BY <1>1, <1>2

-----------------------------------------------------------------------------
(* The invariant: the state is well typed and what was sent is in the box. *)

Inv == TypeOK /\ SentInBox

LEMMA InitInv == Init => Inv
<1> SUFFICES ASSUME Init PROVE Inv
  OBVIOUS
<1>1. plan \in PlanType /\ \A k \in DOMAIN plan.order : plan.order[k] \in DOMAIN plan.acts
  BY ArmAssumption DEF Init, ArmAssumption
<1>2. TypeOK
  BY <1>1, HomeTypes DEF Init, TypeOK
<1>3. SentInBox
  BY DEF Init, SentInBox, Moves
<1> QED BY <1>2, <1>3 DEF Inv

LEMMA NextInv == Inv /\ [Next]_vars => Inv'
<1> SUFFICES ASSUME Inv, [Next]_vars PROVE Inv'
  OBVIOUS
<1> USE DEF Inv, TypeOK, SentInBox, Moves, InBox, Envelope
<1>1. CASE UNCHANGED vars
  BY <1>1 DEF vars
<1>2. CASE Precheck
  <2>1. plan.acts[idx] \in ArmMove
    BY <1>2 DEF Precheck, PlanType
  <2>2. Cached(plan.acts[idx], pose, plan.mode) \in Pose
    BY <2>1, CachedType
  <2> QED BY <1>2, <2>2 DEF Precheck
<1>3. CASE PrecheckDone
  BY <1>3 DEF PrecheckDone
<1>4. CASE RunRaises
  BY <1>4 DEF RunRaises
<1>5. CASE RunWarning
  BY <1>5 DEF RunWarning, Go
<1>6. CASE RunSend
  <2> DEFINE r == Sanitize(Build(current, pose), plan.mode)
  <2>1. current \in ArmMove
    <3>1. idx \in DOMAIN plan.order /\ plan.order[idx] \in DOMAIN plan.acts
      BY <1>6 DEF RunSend, PlanType
    <3> QED BY <3>1 DEF current, PlanType
  <2>2. Build(current, pose) \in Raw
    BY <1>6, <2>1, BuildType DEF RunSend, Warns
  <2>3. r \in Raw /\ (plan.mode = "clamp" /\ r.T = 104 => InBox(r))
    BY <2>2, SanitizeType
  <2>4. Cached(current, pose, plan.mode) \in Pose /\ PoseAfter(r, base) \in Pose
    BY <2>1, <2>3, CachedType, PoseAfterType
  <2>5. /\ last' = Append(last, r) /\ base' = PoseAfter(r, base)
        /\ pose' = Cached(current, pose, plan.mode) /\ plan' = plan
        /\ idx' \in {idx, idx + 1} /\ phase' \in {"run", "over"}
    BY <1>6 DEF RunSend, Go
  <2> HIDE DEF r
  <2>6. TypeOK'
    BY <2>3, <2>4, <2>5
  <2>7. SentInBox'
    <3> SUFFICES ASSUME plan.mode = "clamp", NEW k \in DOMAIN last', last'[k].T = 104
                 PROVE  InBox(last'[k])
      BY <2>5
    <3>1. CASE k = Len(last) + 1
      <4>1. last'[k] = r
        BY <2>5, <3>1, <2>3
      <4> QED BY <4>1, <2>3
    <3>2. CASE k # Len(last) + 1
      <4>1. k \in DOMAIN last /\ last'[k] = last[k]
        BY <2>5, <3>2, <2>3
      <4> QED BY <4>1
    <3> QED BY <3>1, <3>2
  <2> QED BY <2>6, <2>7
<1> QED BY <1>1, <1>2, <1>3, <1>4, <1>5, <1>6 DEF Next

-----------------------------------------------------------------------------
(* The reach.  What is imposed on a goal after its reach (the box again and  *)
(* the low ceiling) leaves it within reach when the limits fit together.     *)

LEMMA SquareGrows ==
  ASSUME NEW a \in Nat, NEW b \in Nat, a <= b
  PROVE  a * a <= b * b /\ a * a \in Nat /\ b * b \in Nat
<1>1. a * a <= a * b
  OBVIOUS
<1>2. a * b <= b * b
  OBVIOUS
<1> QED BY <1>1, <1>2

LEMMA Cancel ==
  ASSUME NEW a \in Int, NEW b \in Int, NEW s \in Int, s > 0
  PROVE  (a * s <= b * s => a <= b) /\ (a * s < b * s => a < b)
<1>1. ASSUME a > b PROVE a * s > b * s
  BY <1>1
<1>2. ASSUME a = b PROVE a * s = b * s
  BY <1>2
<1>3. a * s \in Int /\ b * s \in Int
  OBVIOUS
<1> QED BY <1>1, <1>2, <1>3

LEMMA ClampIsBound ==
  ASSUME NEW v \in Int, NEW lo \in Int, NEW hi \in Int, lo <= hi
  PROVE  /\ Clamp(v, lo, hi) = lo \/ Clamp(v, lo, hi) <= v
         /\ Clamp(v, lo, hi) = hi \/ Clamp(v, lo, hi) >= v
  BY DEF Clamp

LEMMA ProductGrows ==
  ASSUME NEW a \in Nat, NEW b \in Nat, NEW c \in Nat, NEW d \in Nat, a <= b, c <= d
  PROVE  a * c <= b * d /\ a * c \in Nat /\ b * d \in Nat
<1>1. a * c <= b * c /\ b * c <= b * d
  OBVIOUS
<1> QED BY <1>1

LEMMA Root ==
  ASSUME NEW a \in Nat, NEW b \in Nat
  PROVE  (a * a <= b * b => a <= b) /\ (a * a < b * b => a < b) /\ (a < b => a * a < b * b)
<1>1. b <= a => b * b <= a * a
  BY SquareGrows
<1>2. a < b => a * a < b * b
  OBVIOUS
<1>3. b < a => b * b < a * a
  OBVIOUS
<1>4. a * a \in Int /\ b * b \in Int
  OBVIOUS
<1> QED BY <1>1, <1>2, <1>3, <1>4

\* The half steps over the exact length are at most one, before and after rounding.
LEMMA HalfStepsClose ==
  ASSUME NEW v \in Nat, NEW L \in Nat, NEW x \in Nat, NEW z \in Nat, v = x \/ v = z,
         NEW s, s = x * x + z * z, s > 0
  PROVE  LET n == HalfSteps(v, L, x, z) \div 2
         IN  /\ n \in Nat
             /\ (2 * n + 1) * (2 * n + 1) * s >= 4 * (v * v * L * L)
             /\ \E a \in Nat : 2 * n <= a + 1 /\ a * a * s <= 4 * (v * v * L * L)
<1> DEFINE h == HalfSteps(v, L, x, z)   n == h \div 2   q == 4 * (v * v * L * L)
<1>1. h \in Nat /\ h * h * s >= q /\ (h = 0 \/ (h - 1) * (h - 1) * s < q)
  <2>1. h \in 0..(2 * L) /\ h * h * s >= q /\ (h = 0 \/ (h - 1) * (h - 1) * s < q)
    BY HalfStepsIs
  <2> HIDE DEF h, q
  <2> QED BY <2>1
<1>2. s \in Nat /\ q \in Nat
  OBVIOUS
<1> HIDE DEF h, q
<1>3. n \in Nat /\ 2 * n <= h /\ h <= 2 * n + 1
  BY <1>1
<1> HIDE DEF n
<1>4. (2 * n + 1) * (2 * n + 1) * s >= q
  <2>1. h * h <= (2 * n + 1) * (2 * n + 1) /\ h * h \in Nat /\ (2 * n + 1) * (2 * n + 1) \in Nat
    BY <1>1, <1>3, SquareGrows
  <2>2. h * h * s <= (2 * n + 1) * (2 * n + 1) * s /\ h * h * s \in Nat /\ (2 * n + 1) * (2 * n + 1) * s \in Nat
    BY <1>2, <2>1, ProductGrows
  <2> QED BY <1>1, <1>2, <2>2
<1>5. \E a \in Nat : 2 * n <= a + 1 /\ a * a * s <= q
  <2>1. CASE h = 0
    <3>1. 2 * n <= 0 + 1 /\ 0 * 0 * s <= q
      BY <1>2, <1>3, <2>1
    <3> QED BY <3>1
  <2>2. CASE h # 0
    <3>1. h - 1 \in Nat /\ 2 * n <= (h - 1) + 1 /\ (h - 1) * (h - 1) * s \in Int
      BY <1>1, <1>2, <1>3, <2>2
    <3> QED BY <1>1, <1>2, <2>2, <3>1
  <2> QED BY <2>1, <2>2
<1> QED BY <1>3, <1>4, <1>5 DEF n, h, q

\* The pair scaled to a limit is within one step of it.
LEMMA ScaledPair ==
  ASSUME NEW L \in Nat, NEW x \in Nat, NEW z \in Nat, x * x + z * z > 0
  PROVE  LET m == HalfSteps(x, L, x, z) \div 2
             n == HalfSteps(z, L, x, z) \div 2
         IN  /\ m \in Nat /\ n \in Nat
             /\ m * m + n * n <= (L + 1) * (L + 1)
             /\ L > 0 => m * m + n * n >= (L - 1) * (L - 1)
<1> DEFINE m == HalfSteps(x, L, x, z) \div 2
           n == HalfSteps(z, L, x, z) \div 2
           s == x * x + z * z
           c == 2 * m + 1
           d == 2 * n + 1
<1>1. /\ m \in Nat /\ c * c * s >= 4 * (x * x * L * L)
      /\ \E a \in Nat : 2 * m <= a + 1 /\ a * a * s <= 4 * (x * x * L * L)
  BY HalfStepsClose
<1>2. /\ n \in Nat /\ d * d * s >= 4 * (z * z * L * L)
      /\ \E a \in Nat : 2 * n <= a + 1 /\ a * a * s <= 4 * (z * z * L * L)
  BY HalfStepsClose
<1> HIDE DEF m, n
<1>3. PICK a \in Nat : 2 * m <= a + 1 /\ a * a * s <= 4 * (x * x * L * L)
  BY <1>1
<1>4. PICK b \in Nat : 2 * n <= b + 1 /\ b * b * s <= 4 * (z * z * L * L)
  BY <1>2
<1>5. 4 * (x * x * L * L) + 4 * (z * z * L * L) = (4 * (L * L)) * s
  OBVIOUS
<1>6. s \in Int /\ s > 0 /\ 4 * (x * x * L * L) \in Int /\ 4 * (z * z * L * L) \in Int /\ 4 * (L * L) \in Int
      /\ c \in Nat /\ d \in Nat
  BY <1>1, <1>2
<1>7. a * a + b * b <= 4 * (L * L)
  <2>1. (a * a + b * b) * s = a * a * s + b * b * s /\ a * a * s \in Int /\ b * b * s \in Int /\ a * a + b * b \in Int
    BY <1>6
  <2>2. (a * a + b * b) * s <= (4 * (L * L)) * s
    BY <1>3, <1>4, <1>5, <1>6, <2>1
  <2> HIDE DEF s
  <2> QED BY <1>6, <2>1, <2>2, Cancel
<1>8. 4 * (L * L) <= c * c + d * d
  <2> HIDE DEF c, d
  <2>1. (c * c + d * d) * s = c * c * s + d * d * s /\ c * c * s \in Int /\ d * d * s \in Int /\ c * c + d * d \in Int
    BY <1>6
  <2>2. (4 * (L * L)) * s <= (c * c + d * d) * s
    BY <1>1, <1>2, <1>5, <1>6, <2>1
  <2> HIDE DEF s
  <2> QED BY <1>6, <2>1, <2>2, Cancel
<1>9. m * m + n * n <= (L + 1) * (L + 1)
  <2>1. a * a <= (2 * L) * (2 * L) /\ b * b <= (2 * L) * (2 * L)
    <3>1. (2 * L) * (2 * L) = 4 * (L * L) /\ a * a \in Nat /\ b * b \in Nat /\ L * L \in Nat
      OBVIOUS
    <3> QED BY <1>7, <3>1
  <2>2. a <= 2 * L /\ b <= 2 * L
    BY <2>1, Root
  <2>3. (2 * m) * (2 * m) <= (a + 1) * (a + 1) /\ (2 * n) * (2 * n) <= (b + 1) * (b + 1)
    <3>1. 2 * m \in Nat /\ 2 * n \in Nat /\ a + 1 \in Nat /\ b + 1 \in Nat
      BY <1>1, <1>2
    <3> QED BY <1>3, <1>4, <3>1, SquareGrows
  <2>4. /\ (2 * m) * (2 * m) = 4 * (m * m) /\ (2 * n) * (2 * n) = 4 * (n * n)
        /\ (a + 1) * (a + 1) = a * a + 2 * a + 1 /\ (b + 1) * (b + 1) = b * b + 2 * b + 1
        /\ (L + 1) * (L + 1) = L * L + 2 * L + 1
        /\ {m * m, n * n, a * a, b * b, L * L} \subseteq Int
    BY <1>1, <1>2
  <2> QED BY <1>7, <2>2, <2>3, <2>4
<1>10. ASSUME L > 0, m * m + n * n < (L - 1) * (L - 1) PROVE FALSE
  <2>1. m * m \in Nat /\ n * n \in Nat /\ L - 1 \in Nat /\ (L - 1) * (L - 1) \in Nat
    BY <1>1, <1>2, <1>10
  <2>2. m < L - 1 /\ n < L - 1
    <3> DEFINE k == L - 1
    <3>1. k \in Nat /\ m * m < k * k /\ n * n < k * k
      BY <1>10, <2>1
    <3> HIDE DEF k
    <3>2. m < k /\ n < k
      BY <1>1, <1>2, <3>1, Root
    <3> QED BY <3>2 DEF k
  <2>3. /\ c * c = 4 * (m * m) + 4 * m + 1 /\ d * d = 4 * (n * n) + 4 * n + 1
        /\ (L - 1) * (L - 1) = L * L - 2 * L + 1 /\ L * L \in Int
    BY <1>1, <1>2
  <2> HIDE DEF c, d
  <2> QED BY <1>8, <1>10, <2>1, <2>2, <2>3, <1>1, <1>2
<1>11. L > 0 => m * m + n * n >= (L - 1) * (L - 1)
  <2>1. L > 0 => m * m + n * n \in Int /\ (L - 1) * (L - 1) \in Int
    BY <1>1, <1>2
  <2> QED BY <1>10, <2>1
<1> QED BY <1>1, <1>2, <1>9, <1>11 DEF m, n

\* Scaling to the limit goes towards it.
LEMMA ScaledTowards ==
  ASSUME NEW v \in Nat, NEW L \in Nat, NEW x \in Nat, NEW z \in Nat, v = x \/ v = z, x * x + z * z > 0
  PROVE  /\ x * x + z * z >= L * L => HalfSteps(v, L, x, z) <= 2 * v
         /\ x * x + z * z <= L * L => HalfSteps(v, L, x, z) >= 2 * v
<1> DEFINE h == HalfSteps(v, L, x, z)   s == x * x + z * z   w == v * v   k == L * L
<1>1. h \in Nat /\ h * h * s >= 4 * (v * v * L * L) /\ (h = 0 \/ (h - 1) * (h - 1) * s < 4 * (v * v * L * L))
  <2>1. h \in 0..(2 * L) /\ h * h * s >= 4 * (v * v * L * L) /\ (h = 0 \/ (h - 1) * (h - 1) * s < 4 * (v * v * L * L))
    BY HalfStepsIs
  <2> HIDE DEF h
  <2> QED BY <2>1
<1>2. s \in Nat /\ s > 0 /\ w \in Nat /\ k \in Nat /\ 4 * (v * v * L * L) = 4 * (w * k) /\ (2 * v) * (2 * v) = 4 * w
  OBVIOUS
<1>3. ASSUME s >= k, h > 2 * v PROVE FALSE
  <2> HIDE DEF h, s, k
  <2>1. (2 * v) * (2 * v) <= (h - 1) * (h - 1) /\ (2 * v) * (2 * v) \in Nat /\ (h - 1) * (h - 1) \in Nat
    BY <1>1, <1>3, SquareGrows
  <2>2. (4 * w) * k <= (h - 1) * (h - 1) * s
    BY <1>2, <1>3, <2>1, ProductGrows
  <2>3. (4 * w) * k = 4 * (w * k) /\ w * k \in Int /\ (h - 1) * (h - 1) * s \in Int
    BY <1>2, <2>1
  <2>4. h # 0
    BY <1>1, <1>3
  <2> QED BY <1>1, <1>2, <2>2, <2>3, <2>4
<1>4. ASSUME s <= k, h < 2 * v PROVE FALSE
  <2> HIDE DEF h, s, k
  <2>1. h * h < (2 * v) * (2 * v) /\ h * h \in Nat /\ (2 * v) * (2 * v) \in Nat
    BY <1>1, <1>4, Root
  <2>2. h * h * s < (4 * w) * s
    <3> DEFINE a == h * h   b == 4 * w
    <3>1. a \in Nat /\ b \in Nat /\ a < b
      BY <1>2, <2>1
    <3> HIDE DEF a, b
    <3>2. a * s < b * s
      BY <1>2, <3>1
    <3> QED BY <3>2 DEF a, b
  <2>3. (4 * w) * s <= (4 * w) * k
    BY <1>2, <1>4, ProductGrows
  <2>4. (4 * w) * k = 4 * (w * k) /\ w * k \in Int /\ h * h * s \in Int /\ (4 * w) * s \in Int
    BY <1>2, <2>1
  <2> QED BY <1>1, <1>2, <2>2, <2>3, <2>4
<1>5. s \in Int /\ k \in Int /\ h \in Int
  BY <1>1, <1>2
<1> HIDE DEF h, s, k
<1>6. (s >= k => h <= 2 * v) /\ (s <= k => h >= 2 * v)
  BY <1>3, <1>4, <1>5
<1> QED BY <1>6 DEF h, s, k

\* A pair that is within one step of the limit already is scaled by little.
LEMMA ScaledAgain ==
  ASSUME NEW v \in Nat, NEW L \in Nat, NEW x \in Nat, NEW z \in Nat, v = x \/ v = z,
         NEW s, s = x * x + z * z, s > 0
  PROVE  /\ v <= L /\ s <= (L + 1) * (L + 1) => HalfSteps(v, L, x, z) >= 2 * v - 1
         /\ v <= L - 1 /\ s >= (L - 1) * (L - 1) => HalfSteps(v, L, x, z) <= 2 * v + 2
<1> DEFINE h == HalfSteps(v, L, x, z)
<1>1. h \in Nat /\ h * h * s >= 4 * (v * v * L * L) /\ (h = 0 \/ (h - 1) * (h - 1) * s < 4 * (v * v * L * L))
  <2>1. h \in 0..(2 * L) /\ h * h * s >= 4 * (v * v * L * L) /\ (h = 0 \/ (h - 1) * (h - 1) * s < 4 * (v * v * L * L))
    BY HalfStepsIs
  <2> HIDE DEF h
  <2> QED BY <2>1
<1>2. s \in Nat
  OBVIOUS
<1> HIDE DEF h
<1> DEFINE t == 2 * v * L
<1>3. t \in Nat /\ t * t = 4 * (v * v * L * L)
  OBVIOUS
<1>4. ASSUME v <= L, s <= (L + 1) * (L + 1), h < 2 * v - 1 PROVE FALSE
  <2> DEFINE u == (2 * v - 2) * (L + 1)
  <2>1. u \in Nat /\ u < t
    <3>1. u = 2 * (v * L) - 2 * L + 2 * v - 2 /\ t = 2 * (v * L) /\ v * L \in Int
      OBVIOUS
    <3>2. 2 * v - 2 \in Nat
      BY <1>1, <1>4
    <3>3. u \in Nat
      BY <3>2
    <3> HIDE DEF u, t
    <3> QED BY <1>4, <3>1, <3>3
  <2>2. u * u < t * t /\ u * u \in Int /\ t * t \in Int
    <3> HIDE DEF u, t
    <3> QED BY <1>3, <2>1, Root
  <2>3. h * h <= (2 * v - 2) * (2 * v - 2) /\ h * h \in Nat /\ (2 * v - 2) * (2 * v - 2) \in Nat
    BY <1>1, <1>4, SquareGrows
  <2>4. h * h * s <= ((2 * v - 2) * (2 * v - 2)) * ((L + 1) * (L + 1)) /\ h * h * s \in Int
    BY <1>2, <1>4, <2>3, ProductGrows
  <2>5. ((2 * v - 2) * (2 * v - 2)) * ((L + 1) * (L + 1)) = u * u
    OBVIOUS
  <2> HIDE DEF u, t
  <2> QED BY <1>1, <1>3, <2>2, <2>4, <2>5
<1>5. ASSUME v <= L - 1, s >= (L - 1) * (L - 1), h > 2 * v + 2 PROVE FALSE
  <2> DEFINE u == (2 * v + 2) * (L - 1)
  <2>1. u \in Nat /\ t <= u
    <3>1. u = 2 * (v * L) + 2 * L - 2 * v - 2 /\ t = 2 * (v * L) /\ v * L \in Int
      OBVIOUS
    <3>2. L - 1 \in Nat
      BY <1>5
    <3>3. u \in Nat
      BY <3>2
    <3> HIDE DEF u, t
    <3> QED BY <1>5, <3>1, <3>3
  <2>2. t * t <= u * u /\ u * u \in Int /\ t * t \in Int
    <3> HIDE DEF u, t
    <3> QED BY <1>3, <2>1, SquareGrows
  <2>3. (2 * v + 2) * (2 * v + 2) <= (h - 1) * (h - 1) /\ (h - 1) * (h - 1) \in Nat /\ (2 * v + 2) * (2 * v + 2) \in Nat
    BY <1>1, <1>5, SquareGrows
  <2>4. ((2 * v + 2) * (2 * v + 2)) * ((L - 1) * (L - 1)) <= (h - 1) * (h - 1) * s
        /\ (h - 1) * (h - 1) * s \in Int
    <3>1. L - 1 \in Nat /\ (L - 1) * (L - 1) \in Nat
      BY <1>5
    <3> QED BY <1>2, <1>5, <2>3, <3>1, ProductGrows
  <2>5. ((2 * v + 2) * (2 * v + 2)) * ((L - 1) * (L - 1)) = u * u
    OBVIOUS
  <2>6. h # 0
    BY <1>1, <1>5
  <2> HIDE DEF u, t
  <2> QED BY <1>1, <1>3, <2>2, <2>4, <2>5, <2>6
<1>6. h \in Int /\ s \in Int
  BY <1>1, <1>2
<1>7. /\ v <= L /\ s <= (L + 1) * (L + 1) => h >= 2 * v - 1
      /\ v <= L - 1 /\ s >= (L - 1) * (L - 1) => h <= 2 * v + 2
  BY <1>4, <1>5, <1>6
<1> QED BY <1>7 DEF h

\* The numbers of an envelope whose limits fit, under short names.
LEMMA Corners ==
  ASSUME NEW x0 \in Nat, NEW x1 \in Nat, NEW z0 \in Nat, NEW z1 \in Nat, NEW R \in Nat,
         x0 * x0 + z1 * z1 <= R * R, x1 * x1 + z0 * z0 <= R * R,
         NEW x \in x0..x1, NEW z \in z0..z1, x = x0 \/ z = z0
  PROVE  x * x + z * z <= R * R
<1>1. x * x <= x1 * x1 /\ z * z <= z1 * z1
  BY SquareGrows
<1>2. /\ x * x \in Int /\ z * z \in Int /\ x1 * x1 \in Int /\ z1 * z1 \in Int
      /\ x0 * x0 \in Int /\ z0 * z0 \in Int /\ R * R \in Int
  OBVIOUS
<1> QED BY <1>1, <1>2

LEMMA ClampedHalf ==
  ASSUME NEW h \in Nat, NEW lo \in Nat, NEW hi \in Nat, lo <= hi
  PROVE  LET c == Clamp(h, 2 * lo, 2 * hi)
         IN  /\ c \in 2 * lo .. 2 * hi /\ c \div 2 \in lo..hi
             /\ c \div 2 = lo \/ c \div 2 <= h \div 2
             /\ c \div 2 = hi \/ c \div 2 >= h \div 2
             /\ h <= 2 * hi => c >= h
             /\ h >= 2 * lo => c <= h
<1> DEFINE c == Clamp(h, 2 * lo, 2 * hi)
<1>1. \/ c = 2 * lo /\ h <= 2 * lo
      \/ c = 2 * hi /\ h >= 2 * hi
      \/ c = h /\ 2 * lo <= h /\ h <= 2 * hi
  BY DEF Clamp
<1> HIDE DEF c
<1>2. CASE c = 2 * lo /\ h <= 2 * lo
  BY <1>2 DEF c
<1>3. CASE c = 2 * hi /\ h >= 2 * hi
  BY <1>3 DEF c
<1>4. CASE c = h /\ 2 * lo <= h /\ h <= 2 * hi
  BY <1>4 DEF c
<1> QED BY <1>1, <1>2, <1>3, <1>4

\* What the reach makes of a pair in the box is rounded to a pair within one step of
\* the reach.
LEMMA WithinReachInReach ==
  ASSUME plan \in PlanType, LimitsFit(Envelope),
         NEW x \in Envelope["xmin"]..Envelope["xmax"], NEW z \in Envelope["zmin"]..Envelope["zmax"]
  PROVE  LET a == WithinReach(x, z)[1] \div 2
             b == WithinReach(x, z)[2] \div 2
         IN  /\ a * a + b * b <= (Envelope["rmax"] + 1) * (Envelope["rmax"] + 1)
             /\ Envelope["rmin"] > 0 =>
                  a * a + b * b >= (Envelope["rmin"] - 1) * (Envelope["rmin"] - 1)
<1> DEFINE x0 == Envelope["xmin"]   x1 == Envelope["xmax"]
           z0 == Envelope["zmin"]   z1 == Envelope["zmax"]
           R == Envelope["rmax"]    r == Envelope["rmin"]
           s == x * x + z * z       p == WithinReach(x, z)
           a == p[1] \div 2         b == p[2] \div 2
<1>0. /\ x0 \in Nat /\ x1 \in Nat /\ z0 \in Nat /\ z1 \in Nat /\ R \in Nat /\ r \in Nat
      /\ x0 <= x1 /\ z0 <= z1 /\ r <= R
  BY Ordered
<1>1. x0 * x0 + z1 * z1 <= R * R /\ x1 * x1 + z0 * z0 <= R * R
  BY DEF LimitsFit, FarFits
<1>2. \/ x0 * x0 + z0 * z0 >= r * r
      \/ 0 < x0 + z0 /\ r <= x1 /\ r <= z1
  BY DEF LimitsFit, BoxBeyond, RingIsMet
<1>3. p = IF s > R * R
          THEN <<Clamp(HalfSteps(x, R, x, z), 2 * x0, 2 * x1), Clamp(HalfSteps(z, R, x, z), 2 * z0, 2 * z1)>>
          ELSE IF s > 0 /\ s < r * r
          THEN <<Clamp(HalfSteps(x, r, x, z), 2 * x0, 2 * x1), Clamp(HalfSteps(z, r, x, z), 2 * z0, 2 * z1)>>
          ELSE <<2 * x, 2 * z>>
  BY DEF WithinReach, Scaled
<1> HIDE DEF x0, x1, z0, z1, R, r, p
<1>4. x \in x0..x1 /\ z \in z0..z1 /\ x \in Nat /\ z \in Nat
  BY <1>0 DEF x0, x1, z0, z1
<1>5. {x * x, z * z, s, R * R, r * r, x0 * x0, z0 * z0} \subseteq Nat
  BY <1>0, <1>4
<1>6. R * R <= (R + 1) * (R + 1) /\ (R + 1) * (R + 1) \in Nat
  BY <1>0, SquareGrows
<1>7. r > 0 => (r - 1) * (r - 1) <= r * r /\ (r - 1) * (r - 1) \in Nat
  <2>1. r > 0 => r - 1 \in Nat /\ r - 1 <= r
    BY <1>0
  <2> QED BY <1>0, <2>1, SquareGrows
\* A corner of the box, and a pair no nearer than the one that was asked for.
<1>8. ASSUME NEW c \in x0..x1, NEW d \in z0..z1, c = x0 \/ d = z0
      PROVE  c * c + d * d <= (R + 1) * (R + 1)
  <2>1. c * c + d * d <= R * R
    BY <1>0, <1>1, <1>8, Corners
  <2>2. c * c \in Int /\ d * d \in Int
    BY <1>0
  <2> QED BY <1>5, <1>6, <2>1, <2>2
<1>9. ASSUME NEW c \in x0..x1, NEW d \in z0..z1, x0 * x0 + z0 * z0 >= r * r
      PROVE  c * c + d * d >= r * r
  <2>1. x0 * x0 <= c * c /\ z0 * z0 <= d * d /\ c * c \in Nat /\ d * d \in Nat
    BY <1>0, SquareGrows
  <2> QED BY <1>5, <1>9, <2>1
\* The two scalings: to L, which is R or r.
<1>10. ASSUME NEW L \in Nat, r <= L, L <= R, s > 0,
              p = <<Clamp(HalfSteps(x, L, x, z), 2 * x0, 2 * x1), Clamp(HalfSteps(z, L, x, z), 2 * z0, 2 * z1)>>,
              s >= L * L \/ (L = r /\ s <= L * L)
       PROVE  /\ a * a + b * b <= (R + 1) * (R + 1)
              /\ r > 0 => a * a + b * b >= (r - 1) * (r - 1)
  <2> DEFINE g == HalfSteps(x, L, x, z)   h == HalfSteps(z, L, x, z)
             m == g \div 2                n == h \div 2
  <2>1. /\ m * m + n * n <= (L + 1) * (L + 1)
        /\ L > 0 => m * m + n * n >= (L - 1) * (L - 1)
    BY <1>4, <1>10, ScaledPair
  <2>2. /\ s >= L * L => g <= 2 * x /\ h <= 2 * z
        /\ s <= L * L => g >= 2 * x /\ h >= 2 * z
    BY <1>4, <1>10, ScaledTowards
  <2>3. g \in Nat /\ h \in Nat
    <3>1. g \in 0..(2 * L) /\ h \in 0..(2 * L)
      BY <1>4, HalfStepsIs
    <3> HIDE DEF g, h
    <3> QED BY <3>1
  <2> HIDE DEF g, h, s
  <2>4. p[1] = Clamp(g, 2 * x0, 2 * x1) /\ p[2] = Clamp(h, 2 * z0, 2 * z1)
    BY <1>10 DEF g, h
  <2>5. /\ a \in x0..x1 /\ (a = x0 \/ a <= m) /\ (a = x1 \/ a >= m)
        /\ b \in z0..z1 /\ (b = z0 \/ b <= n) /\ (b = z1 \/ b >= n)
    BY <1>0, <2>3, <2>4, ClampedHalf
  <2>6. m \in Nat /\ n \in Nat /\ a \in Nat /\ b \in Nat
    BY <1>0, <2>3, <2>5
  <2>7. (s >= L * L => m <= x1 /\ n <= z1)
    BY <1>0, <1>4, <2>2, <2>3
  <2> HIDE DEF m, n, a, b
  <2>8. {m * m, n * n, a * a, b * b} \subseteq Nat
    BY <2>6
  <2>9. a * a + b * b <= (R + 1) * (R + 1)
    <3>1. CASE a = x0 \/ b = z0
      BY <1>8, <2>5, <3>1
    <3>2. CASE a <= m /\ b <= n
      <4>1. a * a <= m * m /\ b * b <= n * n /\ (L + 1) * (L + 1) <= (R + 1) * (R + 1)
            /\ (L + 1) * (L + 1) \in Nat
        BY <1>0, <1>10, <2>6, <3>2, SquareGrows
      <4> QED BY <1>6, <2>1, <2>8, <4>1
    <3> QED BY <2>5, <3>1, <3>2
  <2>10. r > 0 => a * a + b * b >= (r - 1) * (r - 1)
    <3> SUFFICES ASSUME r > 0 PROVE a * a + b * b >= (r - 1) * (r - 1)
      OBVIOUS
    <3>1. CASE x0 * x0 + z0 * z0 >= r * r
      BY <1>5, <1>7, <1>9, <2>5, <2>8, <3>1
    <3>2. CASE a >= m /\ b >= n
      <4>1. m * m <= a * a /\ n * n <= b * b
        BY <2>6, <3>2, SquareGrows
      <4>2. r - 1 \in Nat /\ L - 1 \in Nat /\ r - 1 <= L - 1
        BY <1>0, <1>10
      <4>3. (r - 1) * (r - 1) <= (L - 1) * (L - 1) /\ (r - 1) * (r - 1) \in Nat /\ (L - 1) * (L - 1) \in Nat
        BY <4>2, SquareGrows
      <4>4. m * m + n * n >= (L - 1) * (L - 1)
        BY <1>0, <1>10, <2>1
      <4> QED BY <2>8, <4>1, <4>3, <4>4
    <3>3. CASE a >= r \/ b >= r
      <4>1. (a >= r => r * r <= a * a) /\ (b >= r => r * r <= b * b)
        BY <1>0, <2>6, SquareGrows
      <4> QED BY <1>5, <1>7, <2>8, <3>3, <4>1
    <3>4. (r <= x1 /\ r <= z1) \/ s >= L * L \/ x0 * x0 + z0 * z0 >= r * r
      BY <1>2
    <3>5. CASE r <= x1 /\ r <= z1
      BY <1>0, <2>5, <2>6, <3>2, <3>3, <3>5
    <3>6. CASE s >= L * L
      BY <1>0, <2>5, <2>6, <2>7, <3>2, <3>6
    <3> QED BY <3>1, <3>4, <3>5, <3>6
  <2> QED BY <2>9, <2>10
<1>11. CASE s > R * R
  <2>1. s > 0 /\ s >= R * R
    BY <1>5, <1>11
  <2>2. p = <<Clamp(HalfSteps(x, R, x, z), 2 * x0, 2 * x1), Clamp(HalfSteps(z, R, x, z), 2 * z0, 2 * z1)>>
    BY <1>3, <1>11
  <2> HIDE DEF s
  <2>3. /\ a * a + b * b <= (R + 1) * (R + 1)
        /\ r > 0 => a * a + b * b >= (r - 1) * (r - 1)
    BY <1>0, <1>10, <2>1, <2>2
  <2> QED BY <2>3 DEF R, r, p
<1>12. CASE ~(s > R * R) /\ s > 0 /\ s < r * r
  <2>1. s > 0 /\ s <= r * r
    BY <1>5, <1>12
  <2>2. p = <<Clamp(HalfSteps(x, r, x, z), 2 * x0, 2 * x1), Clamp(HalfSteps(z, r, x, z), 2 * z0, 2 * z1)>>
    BY <1>3, <1>12
  <2> HIDE DEF s
  <2>3. /\ a * a + b * b <= (R + 1) * (R + 1)
        /\ r > 0 => a * a + b * b >= (r - 1) * (r - 1)
    BY <1>0, <1>10, <2>1, <2>2
  <2> QED BY <2>3 DEF R, r, p
<1>13. CASE ~(s > R * R) /\ ~(s > 0 /\ s < r * r)
  <2>1. p[1] = 2 * x /\ p[2] = 2 * z
    BY <1>3, <1>13
  <2>2. a = x /\ b = z
    BY <1>4, <2>1
  <2>3. s <= (R + 1) * (R + 1)
    BY <1>5, <1>6, <1>13
  <2>4. s >= r * r
    <3>1. CASE x0 * x0 + z0 * z0 >= r * r
      BY <1>4, <1>9, <3>1
    <3>2. CASE 0 < x0 + z0
      <4>1. x > 0 \/ z > 0
        BY <1>0, <1>4, <3>2
      <4>2. (x > 0 => x * x > 0) /\ (z > 0 => z * z > 0)
        BY <1>4
      <4>3. s > 0
        BY <1>5, <4>1, <4>2
      <4> QED BY <1>5, <1>13, <4>3
    <3> QED BY <1>2, <3>1, <3>2
  <2>5. r > 0 => s >= (r - 1) * (r - 1)
    BY <1>5, <1>7, <2>4
  <2> QED BY <2>2, <2>3, <2>5 DEF R, r, p
<1> QED BY <1>11, <1>12, <1>13

\* A clamped goal is within reach, up to the rounding.
LEMMA ClampedInReach ==
  ASSUME plan \in PlanType, LimitsFit(Envelope), NEW r \in Raw
  PROVE  InReach(ClampT104(r))
<1> DEFINE cx == ClampX(r.x)   cz == ClampZ(r.z)   h == WithinReach(cx, cz)
           R == Envelope["rmax"]   n == Envelope["rmin"]   lowz == Envelope["lowz"]
           x0 == Envelope["xmin"]  z0 == Envelope["zmin"]
           x == h[1] \div 2        w == h[2] \div 2
           z == IF h[1] <= 2 * Envelope["lowx"] /\ h[2] > 2 * lowz THEN lowz ELSE w
<1>0. /\ x0 \in Nat /\ z0 \in Nat /\ R \in Nat /\ n \in Nat /\ lowz \in Nat /\ z0 <= lowz /\ n <= R
  BY Ordered
<1>1. cx \in Envelope["xmin"]..Envelope["xmax"] /\ cz \in Envelope["zmin"]..Envelope["zmax"]
  <2>1. r.x \in Int /\ r.z \in Int /\ \A l \in Limits : Envelope[l] \in Int
    BY Limited DEF Raw
  <2> QED BY <2>1, Limited, ClampInRange DEF ClampX, ClampZ, Limits
<1>2. /\ x * x + w * w <= (R + 1) * (R + 1)
      /\ n > 0 => x * x + w * w >= (n - 1) * (n - 1)
  <2> HIDE DEF cx, cz
  <2> QED BY <1>1, WithinReachInReach
<1>3. h[1] \in 2 * x0 .. 2 * Envelope["xmax"] /\ h[2] \in 2 * z0 .. 2 * Envelope["zmax"]
  <2> HIDE DEF cx, cz
  <2> QED BY <1>1, WithinReachInBox
<1>4. ClampT104(r).x = x /\ ClampT104(r).z = z
  BY DEF ClampT104
<1>5. x0 * x0 + z0 * z0 >= n * n \/ n <= lowz
  BY DEF LimitsFit, BoxBeyond, RingIsMet
<1>6. /\ x \in Nat /\ w \in Nat /\ x0 <= x /\ z0 <= w
      /\ z = w \/ (z = lowz /\ lowz <= w)
  <2>1. Envelope["xmax"] \in Nat /\ Envelope["zmax"] \in Nat
    BY Ordered
  <2> DEFINE a == h[1]   b == h[2]
  <2>2. a \in Nat /\ b \in Nat /\ 2 * x0 <= a /\ 2 * z0 <= b
    BY <1>0, <1>3, <2>1
  <2>3. x = a \div 2 /\ w = b \div 2 /\ (z = w \/ (z = lowz /\ b > 2 * lowz))
    OBVIOUS
  <2> HIDE DEF a, b, x, w, z, lowz, x0, z0
  <2> QED BY <1>0, <2>2, <2>3
<1> HIDE DEF h, x, w, z, R, n, lowz, z0, x0
<1>7. z \in Nat /\ z0 <= z /\ z <= w
  BY <1>0, <1>6
<1>8. {x * x, z * z, w * w, x0 * x0, z0 * z0, n * n, (R + 1) * (R + 1)} \subseteq Nat
  BY <1>0, <1>6, <1>7
<1>9. z * z <= w * w /\ x0 * x0 <= x * x /\ z0 * z0 <= z * z
  BY <1>0, <1>6, <1>7, SquareGrows
<1>10. x * x + z * z <= (R + 1) * (R + 1)
  BY <1>2, <1>8, <1>9
<1>11. n > 0 => x * x + z * z >= (n - 1) * (n - 1)
  <2> SUFFICES ASSUME n > 0 PROVE x * x + z * z >= (n - 1) * (n - 1)
    OBVIOUS
  <2>1. (n - 1) * (n - 1) <= n * n /\ (n - 1) * (n - 1) \in Nat
    <3>1. n - 1 \in Nat /\ n - 1 <= n
      BY <1>0
    <3> QED BY <1>0, <3>1, SquareGrows
  <2>2. CASE z = w
    BY <1>2, <2>2
  <2>3. CASE x0 * x0 + z0 * z0 >= n * n
    BY <1>8, <1>9, <2>1, <2>3
  <2>4. CASE z = lowz /\ n <= lowz
    <3>1. n * n <= z * z
      BY <1>0, <2>4, SquareGrows
    <3> QED BY <1>8, <2>1, <3>1
  <2> QED BY <1>5, <1>6, <2>2, <2>3, <2>4
<1> DEFINE near == IF n = 0 THEN 0 ELSE n - 1
<1>12. x * x + z * z \in near * near .. (R + 1) * (R + 1)
  <2>1. CASE n = 0
    BY <1>8, <1>10, <2>1
  <2>2. CASE n > 0
    <3>1. n - 1 \in Nat /\ (n - 1) * (n - 1) \in Nat
      BY <1>0, <2>2
    <3>2. near = n - 1
      BY <2>2
    <3> QED BY <1>8, <1>10, <1>11, <2>2, <3>1, <3>2
  <2> QED BY <1>0, <2>1, <2>2
<1>13. ClampT104(r).x = x /\ ClampT104(r).z = z /\ R = Envelope["rmax"] /\ n = Envelope["rmin"]
  BY <1>4 DEF x, z, R, n, h, w, lowz
<1> QED BY <1>12, <1>13 DEF InReach

\* A goal in the box and within reach, and not on the edge of the low ceiling, is
\* changed by another clamping by one step at most.
LEMMA ClampedIsSteady ==
  ASSUME plan \in PlanType, LimitsFit(Envelope), NEW r \in Raw, r.T = 104,
         InBox(r), InReach(r), ~OnEdge(r)
  PROVE  Steady(r)
<1> DEFINE x == r.x   z == r.z   s == x * x + z * z   h == WithinReach(x, z)
           x0 == Envelope["xmin"]   x1 == Envelope["xmax"]
           z0 == Envelope["zmin"]   z1 == Envelope["zmax"]
           R == Envelope["rmax"]    n == Envelope["rmin"]
           lowx == Envelope["lowx"] lowz == Envelope["lowz"]
<1>0. /\ x0 \in Nat /\ x1 \in Nat /\ z0 \in Nat /\ z1 \in Nat /\ R \in Nat /\ n \in Nat
      /\ x0 <= x1 /\ z0 <= z1 /\ n <= R /\ lowx \in Int /\ lowz \in Nat
  BY Ordered
<1>1. /\ \A l \in Limits : Envelope[l] \in Int
      /\ r.x \in Int /\ r.y \in Int /\ r.z \in Int /\ r.t \in Int /\ r.spd \in Int
  BY Limited DEF Raw
<1>2. ClampX(x) = x /\ ClampZ(z) = z
  BY <1>1 DEF InBox, ClampX, ClampZ, Clamp, Limits
<1>3. /\ Clamp(r.y, Envelope["ymin"], Envelope["ymax"]) = r.y
      /\ Clamp(r.t, Envelope["tmin"], Envelope["tmax"]) = r.t
  BY <1>1 DEF InBox, Clamp, Limits
<1>4. SafeSpeed(r.spd) = r.spd
  BY <1>1 DEF LimitsFit, InBox, SafeSpeed, Clamp, Limits
<1>5. /\ x \in x0..x1 /\ z \in z0..z1
      /\ x <= lowx => z <= lowz
  BY <1>1 DEF InBox, OnEdge, Limits
<1>6. x * x + z * z \in (IF n = 0 THEN 0 ELSE n - 1) * (IF n = 0 THEN 0 ELSE n - 1) .. (R + 1) * (R + 1)
  BY DEF InReach
<1>7. x1 * x1 + z0 * z0 <= R * R /\ x0 * x0 + z1 * z1 <= R * R
  BY DEF LimitsFit, FarFits
<1>8. h = IF s > R * R
          THEN <<Clamp(HalfSteps(x, R, x, z), 2 * x0, 2 * x1), Clamp(HalfSteps(z, R, x, z), 2 * z0, 2 * z1)>>
          ELSE IF s > 0 /\ s < n * n
          THEN <<Clamp(HalfSteps(x, n, x, z), 2 * x0, 2 * x1), Clamp(HalfSteps(z, n, x, z), 2 * z0, 2 * z1)>>
          ELSE <<2 * x, 2 * z>>
  BY DEF WithinReach, Scaled
<1>9. Sanitize(r, "clamp") =
        [T |-> 104, x |-> h[1] \div 2, y |-> r.y,
         z |-> IF h[1] <= 2 * lowx /\ h[2] > 2 * lowz THEN lowz ELSE h[2] \div 2,
         t |-> r.t, spd |-> r.spd]
  BY <1>2, <1>3, <1>4 DEF Sanitize, ClampT104
<1> HIDE DEF x, z, h, x0, x1, z0, z1, R, n, lowx, lowz
<1>10. x \in Nat /\ z \in Nat /\ {x * x, z * z, s, R * R, n * n, x0 * x0, z0 * z0, x1 * x1, z1 * z1} \subseteq Nat
  <2>1. x \in Nat /\ z \in Nat
    BY <1>0, <1>5
  <2> QED BY <1>0, <2>1
<1> DEFINE a == h[1]   b == h[2]
\* Either both coordinates are drawn in by at most half a step, or both are stretched
\* by at most one.
<1>11. \/ a \in 2 * x - 1 .. 2 * x /\ b \in 2 * z - 1 .. 2 * z
       \/ a \in 2 * x .. 2 * x + 2 /\ b \in 2 * z .. 2 * z + 2
  <2>1. CASE s > R * R
    <3>1. x <= R /\ z <= R
      <4>1. x * x <= x1 * x1 /\ z * z <= z1 * z1
        BY <1>0, <1>5, <1>10, SquareGrows
      <4>2. x * x <= R * R /\ z * z <= R * R
        BY <1>7, <1>10, <4>1
      <4> QED BY <1>0, <1>10, <4>2, Root
    <3>2. s <= (R + 1) * (R + 1) /\ s > 0 /\ s >= R * R
      <4>1. (R + 1) * (R + 1) \in Int
        BY <1>0
      <4> QED BY <1>6, <1>10, <2>1, <4>1
    <3> DEFINE g == HalfSteps(x, R, x, z)   k == HalfSteps(z, R, x, z)
    <3>3. g >= 2 * x - 1 /\ k >= 2 * z - 1
      BY <1>0, <1>10, <3>1, <3>2, ScaledAgain
    <3>4. g <= 2 * x /\ k <= 2 * z
      BY <1>0, <1>10, <3>2, ScaledTowards
    <3>5. g \in Nat /\ k \in Nat
      <4>1. g \in 0..(2 * R) /\ k \in 0..(2 * R)
        BY <1>0, <1>10, HalfStepsIs
      <4> HIDE DEF g, k
      <4> QED BY <1>0, <4>1
    <3>6. a = Clamp(g, 2 * x0, 2 * x1) /\ b = Clamp(k, 2 * z0, 2 * z1)
      BY <1>8, <2>1
    <3> HIDE DEF a, b, g, k, s, x, z
    <3>7. a \in 2 * x - 1 .. 2 * x /\ b \in 2 * z - 1 .. 2 * z
      BY <1>0, <1>5, <1>10, <3>3, <3>4, <3>5, <3>6 DEF Clamp
    <3> QED BY <3>7
  <2>2. CASE ~(s > R * R) /\ s > 0 /\ s < n * n
    <3>1. n > 0
      BY <1>0, <1>10, <2>2
    <3>2. x <= n - 1 /\ z <= n - 1
      <4>1. x * x < n * n /\ z * z < n * n
        BY <1>10, <2>2
      <4>2. x < n /\ z < n
        BY <1>0, <1>10, <4>1, Root
      <4> QED BY <1>0, <1>10, <4>2
    <3>3. s >= (n - 1) * (n - 1) /\ s <= n * n /\ s > 0
      <4>1. (n - 1) * (n - 1) \in Int /\ (R + 1) * (R + 1) \in Int
        BY <1>0
      <4> QED BY <1>0, <1>6, <1>10, <2>2, <3>1, <4>1
    <3> DEFINE g == HalfSteps(x, n, x, z)   k == HalfSteps(z, n, x, z)
    <3>4. g <= 2 * x + 2 /\ k <= 2 * z + 2
      BY <1>0, <1>10, <3>2, <3>3, ScaledAgain
    <3>5. g >= 2 * x /\ k >= 2 * z
      BY <1>0, <1>10, <3>3, ScaledTowards
    <3>6. g \in Nat /\ k \in Nat
      <4>1. g \in 0..(2 * n) /\ k \in 0..(2 * n)
        BY <1>0, <1>10, HalfStepsIs
      <4> HIDE DEF g, k
      <4> QED BY <1>0, <4>1
    <3>7. a = Clamp(g, 2 * x0, 2 * x1) /\ b = Clamp(k, 2 * z0, 2 * z1)
      BY <1>8, <2>2
    <3> HIDE DEF a, b, g, k, s, x, z
    <3>8. a \in 2 * x .. 2 * x + 2 /\ b \in 2 * z .. 2 * z + 2
      BY <1>0, <1>5, <1>10, <3>4, <3>5, <3>6, <3>7 DEF Clamp
    <3> QED BY <3>8
  <2>3. CASE ~(s > R * R) /\ ~(s > 0 /\ s < n * n)
    <3>1. a = 2 * x /\ b = 2 * z
      BY <1>8, <2>3
    <3> QED BY <1>10, <3>1
  <2> QED BY <2>1, <2>2, <2>3
<1> DEFINE w == IF a <= 2 * lowx /\ b > 2 * lowz THEN lowz ELSE b \div 2
<1>12. a \div 2 \in x - 1 .. x + 1 /\ w \in z - 1 .. z + 1
  <2> HIDE DEF a, b, x, z
  <2>1. a \in Int /\ b \in Int /\ x \in Int /\ z \in Int
    BY <1>10, <1>11
  <2>2. CASE a <= 2 * lowx /\ b > 2 * lowz
    <3>1. x <= lowx
      BY <1>0, <1>11, <2>1, <2>2
    <3>2. z <= lowz
      BY <1>5, <3>1
    <3> QED BY <1>0, <1>11, <2>1, <2>2, <3>2
  <2>3. CASE ~(a <= 2 * lowx /\ b > 2 * lowz)
    BY <1>11, <2>1, <2>3
  <2> QED BY <2>2, <2>3
<1>13. Sanitize(r, "clamp") = [T |-> 104, x |-> a \div 2, y |-> r.y, z |-> w, t |-> r.t, spd |-> r.spd]
  BY <1>9
<1> HIDE DEF a, b, w
<1> QED BY <1>12, <1>13 DEF Steady, x, z

-----------------------------------------------------------------------------
(* The theorems.                                                           *)

\* The state is well typed.
THEOREM ArmTypeCorrect == Spec => []TypeOK
<1>1. Init => Inv BY InitInv
<1>2. Inv /\ [Next]_vars => Inv' BY NextInv
<1>3. Inv => TypeOK BY DEF Inv
<1> QED BY <1>1, <1>2, <1>3, PTL DEF Spec

\* In clamp mode no goal leaves the box, whatever the limits of the envelope, the
\* presets and the plan.
THEOREM SentInBoxHolds == Spec => []SentInBox
<1>1. Init => Inv BY InitInv
<1>2. Inv /\ [Next]_vars => Inv' BY NextInv
<1>3. Inv => SentInBox BY DEF Inv
<1> QED BY <1>1, <1>2, <1>3, PTL DEF Spec

\* What the reach asks of a goal that was made safe.
Kept(r) == InReach(r) /\ (Steady(r) \/ OnEdge(r))

Stable == plan.mode = "clamp" => \A k \in Moves : Kept(last[k])

\* What is sent in one step.
LEMMA Sends ==
  ASSUME TypeOK, RunSend
  PROVE  LET r == Sanitize(Build(current, pose), plan.mode)
         IN  /\ Build(current, pose) \in Raw /\ r \in Raw
             /\ last' = Append(last, r) /\ Len(last') = Len(last) + 1
             /\ DOMAIN last' = DOMAIN last \cup {Len(last) + 1}
             /\ last'[Len(last) + 1] = r
             /\ \A k \in DOMAIN last : last'[k] = last[k]
             /\ base' = PoseAfter(r, base) /\ pose' = PoseAfter(r, pose)
             /\ current \in ArmMove
             /\ UNCHANGED plan
<1> DEFINE r == Sanitize(Build(current, pose), plan.mode)
<1>1. current \in ArmMove
  <2>1. idx \in DOMAIN plan.order /\ plan.order[idx] \in DOMAIN plan.acts
    BY DEF RunSend, TypeOK, PlanType
  <2> QED BY <2>1 DEF current, TypeOK, PlanType
<1>2. Build(current, pose) \in Raw
  BY <1>1, BuildType DEF RunSend, Warns, TypeOK
<1>3. r \in Raw
  BY <1>2, SanitizeType DEF TypeOK
<1>4. last' = Append(last, r) /\ base' = PoseAfter(r, base) /\ plan' = plan
  BY DEF RunSend
<1>5. pose' = PoseAfter(r, pose)
  BY DEF RunSend, Cached
<1>6. last \in Seq(Raw)
  BY DEF TypeOK
<1> HIDE DEF r
<1>7. /\ Len(last') = Len(last) + 1 /\ DOMAIN last' = DOMAIN last \cup {Len(last) + 1}
      /\ last'[Len(last) + 1] = r /\ \A k \in DOMAIN last : last'[k] = last[k]
  BY <1>3, <1>4, <1>6
<1> QED BY <1>1, <1>2, <1>3, <1>4, <1>5, <1>7 DEF r

LEMMA OthersSendNothing ==
  ASSUME [Next]_vars
  PROVE  RunSend \/ (UNCHANGED <<last, base, plan>>)
  BY DEF Next, vars, Precheck, PrecheckDone, RunRaises, RunWarning

\* A function of the plan alone.
LEMMA KeptStays ==
  ASSUME plan' = plan, NEW r
  PROVE  Kept(r)' = Kept(r)
<1>1. Envelope' = Envelope
  BY DEF Envelope
<1>2. ASSUME NEW v PROVE ClampX(v)' = ClampX(v) /\ ClampZ(v)' = ClampZ(v) /\ SafeSpeed(v)' = SafeSpeed(v)
  BY <1>1 DEF ClampX, ClampZ, SafeSpeed
<1>3. ASSUME NEW x, NEW z PROVE WithinReach(x, z)' = WithinReach(x, z)
  BY <1>1 DEF WithinReach, Scaled
<1>4. ClampT104(r)' = ClampT104(r)
  BY <1>1, <1>2, <1>3 DEF ClampT104
<1>5. Steady(r)' = Steady(r)
  BY <1>4 DEF Steady, Sanitize
<1>6. InReach(r)' = InReach(r) /\ OnEdge(r)' = OnEdge(r)
  BY <1>1 DEF InReach, OnEdge
<1> QED BY <1>5, <1>6 DEF Kept

LEMMA StableStep ==
  ASSUME TypeOK, Stable, LimitsFit(Envelope), [Next]_vars
  PROVE  Stable'
<1>0. plan' = plan
  BY OthersSendNothing DEF RunSend
<1> SUFFICES ASSUME plan.mode = "clamp", NEW k \in Moves'
             PROVE  Kept(last'[k])
  BY <1>0, KeptStays DEF Stable
<1>1. k \in DOMAIN last' /\ last'[k].T = 104
  BY DEF Moves
<1>2. CASE UNCHANGED <<last, base, plan>>
  <2>1. k \in Moves /\ last' = last
    BY <1>1, <1>2 DEF Moves
  <2> QED BY <2>1 DEF Stable
<1>3. CASE RunSend
  <2> DEFINE r == Sanitize(Build(current, pose), plan.mode)
  <2>1. /\ Build(current, pose) \in Raw /\ r \in Raw
        /\ DOMAIN last' = DOMAIN last \cup {Len(last) + 1}
        /\ last'[Len(last) + 1] = r
        /\ \A l \in DOMAIN last : last'[l] = last[l]
    BY <1>3, Sends
  <2>2. plan \in PlanType
    BY DEF TypeOK
  <2>3. r.T = 104 => Kept(r)
    <3> SUFFICES ASSUME r.T = 104 PROVE Kept(r)
      OBVIOUS
    <3>1. r = ClampT104(Build(current, pose))
      BY DEF Sanitize
    <3>2. InReach(r) /\ InBox(r)
      BY <2>1, <2>2, <3>1, ClampedInReach, ClampedInBox
    <3> HIDE DEF r
    <3>3. OnEdge(r) \/ Steady(r)
      BY <2>1, <2>2, <3>2, ClampedIsSteady
    <3> QED BY <3>2, <3>3 DEF Kept
  <2> HIDE DEF r
  <2>4. CASE k = Len(last) + 1
    BY <1>1, <2>1, <2>3, <2>4
  <2>5. CASE k \in DOMAIN last
    <3>1. k \in Moves /\ last'[k] = last[k]
      BY <1>1, <2>1, <2>5 DEF Moves
    <3> QED BY <3>1 DEF Stable
  <2> QED BY <1>1, <2>1, <2>4, <2>5
<1> QED BY <1>2, <1>3, OthersSendNothing

ReachInv == Inv /\ LimitsFit(Envelope) /\ Stable

LEMMA InitReach == PlansFit /\ Init => ReachInv
<1> SUFFICES ASSUME PlansFit, Init PROVE ReachInv
  OBVIOUS
<1>1. Inv
  BY InitInv
<1>2. LimitsFit(Envelope)
  BY DEF Init, PlansFit, Envelope
<1>3. Stable
  BY DEF Init, Stable, Moves
<1> QED BY <1>1, <1>2, <1>3 DEF ReachInv

LEMMA NextReach == ReachInv /\ [Next]_vars => ReachInv'
<1> SUFFICES ASSUME ReachInv, [Next]_vars PROVE ReachInv'
  OBVIOUS
<1>1. Inv'
  BY NextInv DEF ReachInv
<1>2. Stable'
  BY <1>1, StableStep DEF ReachInv, Inv
<1>3. plan' = plan
  BY OthersSendNothing DEF RunSend
<1>4. LimitsFit(Envelope)'
  BY <1>3 DEF ReachInv, LimitsFit, FarFits, BoxBeyond, RingIsMet, Envelope
<1> QED BY <1>1, <1>2, <1>4 DEF ReachInv

LEMMA Reach == PlansFit /\ Spec => [](SentInReach /\ SafeIsStable)
<1>1. PlansFit /\ Init => ReachInv BY InitReach
<1>2. ReachInv /\ [Next]_vars => ReachInv' BY NextReach
<1>3. ReachInv => SentInReach /\ SafeIsStable
  BY DEF ReachInv, Stable, Kept, SentInReach, SafeIsStable
<1>4. ASSUME PlansFit PROVE Spec => [](SentInReach /\ SafeIsStable)
  <2>1. Init => ReachInv BY <1>1, <1>4
  <2> QED BY <2>1, <1>2, <1>3, PTL DEF Spec
<1> QED BY <1>4

\* With limits that fit together no goal leaves the reach of the arm by more than the
\* rounding, one step, although the box and the low ceiling are imposed again after the
\* reach.
THEOREM SentInReachHolds == PlansFit /\ Spec => []SentInReach
  BY Reach, PTL

\* With such limits the clamping of a goal that was made safe moves it by no more than
\* the rounding, except from the edge of the low ceiling.
THEOREM SafeIsStableHolds == PlansFit /\ Spec => []SafeIsStable
  BY Reach, PTL

-----------------------------------------------------------------------------
(* The cache.                                                              *)

\* When a command that moves the arm is sent, cache and arm agree afterwards,
\* whatever the cache was before.
LEMMA MovesAgree ==
  ASSUME NEW r \in Raw, NEW p, NEW q, p = q \/ r.T # 105
  PROVE  PoseAfter(r, p) = PoseAfter(r, q)
  BY DEF PoseAfter, Raw

LEMMA NotRejected ==
  ASSUME NEW a, NEW p, NEW mode, ~Warns(a, p, mode), Build(a, p) \in Raw, mode # "off"
  PROVE  Sanitize(Build(a, p), mode).T # 105
  BY DEF Warns, Rejected, Raw, Sanitize, ClampT104

\* In mock mode nothing but the run moves the cache; otherwise the first command
\* sent that moves the arm brings it and the cache together.
CacheInv ==
  /\ plan.mock => phase # "precheck" /\ pose = base
  /\ plan.mock \/ Anchored(plan) \/ plan.mode # "off"
  /\ phase = "precheck" => last = <<>>
  /\ last # <<>> => pose = base
  /\ Anchored(plan) /\ phase = "run" /\ idx > 1 => pose = base

LEMMA AnchorMoves ==
  ASSUME TypeOK, Anchored(plan), RunSend, idx = 1
  PROVE  Sanitize(Build(current, pose), plan.mode).T # 105
<1>1. plan.order # <<>> /\ current = plan.acts[plan.order[1]]
  BY DEF RunSend, TypeOK, PlanType, current
<1>2. current.op \in {"init", "xyz"} \/ (current.op = "preset" /\ Presets[current.name].T # 105)
  BY <1>1 DEF Anchored
<1>3. Build(current, pose).T # 105
  BY <1>2 DEF Build, HomeRaw, Goal
<1> QED BY <1>3 DEF Sanitize, ClampT104

LEMMA AnchorNotPassedOver ==
  ASSUME TypeOK, Anchored(plan), RunWarning
  PROVE  idx # 1
<1> SUFFICES ASSUME idx = 1 PROVE FALSE
  OBVIOUS
<1>1. plan.order # <<>> /\ current = plan.acts[plan.order[1]]
  BY DEF RunWarning, TypeOK, PlanType, current
<1>2. \/ current.op \in {"init", "xyz"}
      \/ current.op = "preset" /\ current.name \in DOMAIN Presets /\ Presets[current.name].T # 105
  BY <1>1 DEF Anchored
<1>3. Known(current) /\ Build(current, pose).T \in {100, 104}
  BY <1>2, ArmAssumption DEF Known, Build, HomeRaw, Goal, ArmAssumption, Raw
<1> QED BY <1>3 DEF RunWarning, Warns, Rejected

LEMMA CacheStep ==
  ASSUME TypeOK, CacheInv, [Next]_vars
  PROVE  CacheInv'
<1> USE DEF CacheInv, Anchored
<1>1. CASE UNCHANGED vars
  BY <1>1 DEF vars
<1>2. CASE Precheck
  BY <1>2 DEF Precheck
<1>3. CASE PrecheckDone
  BY <1>3 DEF PrecheckDone
<1>4. CASE RunRaises
  BY <1>4 DEF RunRaises
<1>5. CASE RunWarning
  <2>1. Anchored(plan) => idx > 1
    <3> HIDE DEF Anchored, CacheInv
    <3>1. idx \in Nat \ {0}
      BY DEF TypeOK
    <3>2. Anchored(plan) => idx # 1
      BY <1>5, AnchorNotPassedOver
    <3> QED BY <3>1, <3>2
  <2>2. phase = "run" /\ phase' \in {"run", "over"} /\ UNCHANGED <<plan, pose, last, base>>
    BY <1>5 DEF RunWarning, Go
  <2>3. Anchored(plan) => pose = base
    BY <2>1, <2>2
  <2> QED BY <2>2, <2>3
<1>6. CASE RunSend
  <2> DEFINE r == Sanitize(Build(current, pose), plan.mode)
  <2>1. /\ Build(current, pose) \in Raw /\ r \in Raw
        /\ base' = PoseAfter(r, base) /\ pose' = PoseAfter(r, pose)
        /\ plan' = plan
    BY <1>6, Sends
  <2>2. pose = base \/ r.T # 105
    <3>1. CASE plan.mode # "off"
      BY <1>6, <2>1, <3>1, NotRejected DEF RunSend
    <3>2. CASE Anchored(plan) /\ idx = 1
      BY <1>6, <3>2, AnchorMoves
    <3>3. CASE Anchored(plan) /\ idx # 1
      <4>1. idx > 1
        BY <3>3 DEF TypeOK
      <4> QED BY <1>6, <3>3, <4>1 DEF RunSend
    <3> QED BY <3>1, <3>2, <3>3
  <2> HIDE DEF r
  <2>3. pose' = base'
    BY <2>1, <2>2, MovesAgree
  <2>4. phase' \in {"run", "over"}
    BY <1>6 DEF RunSend, Go
  <2> QED BY <2>1, <2>3, <2>4
<1> QED BY <1>1, <1>2, <1>3, <1>4, <1>5, <1>6 DEF Next

\* Once something was sent the cache is where the last command leaves the arm,
\* unless the checker is off and a command that moves nothing is sent first.
THEOREM CacheIsLastGoalHolds == PlansSettle /\ Spec => []CacheIsLastGoal
<1>1. PlansSettle /\ Init => CacheInv
  BY DEF PlansSettle, Init, CacheInv
<1>2. TypeOK /\ CacheInv /\ [Next]_vars => CacheInv'
  BY CacheStep
<1>3. CacheInv => CacheIsLastGoal
  BY DEF CacheInv, CacheIsLastGoal
<1>4. ASSUME PlansSettle PROVE Spec => []CacheIsLastGoal
  <2>1. Init => CacheInv BY <1>1, <1>4
  <2> QED BY <2>1, <1>2, <1>3, ArmTypeCorrect, PTL DEF Spec
<1> QED BY <1>4

\* In mock mode, or when the first command is not relative and is not passed over,
\* every relative move builds on the goal last sent: the precheck of the boards,
\* which goes through the same cache, leaves no trace.
THEOREM DeltaOnTopHolds == PlansAnchored /\ Spec => DeltaOnTop
<1> DEFINE Step == last' # last /\ current.op = "delta" =>
                     last'[Len(last')] = Sanitize(Build(current, base), plan.mode)
           DInv == CacheInv /\ (plan.mock \/ Anchored(plan))
<1>1. PlansAnchored /\ Init => DInv
  BY DEF PlansAnchored, Init, CacheInv
<1>2. TypeOK /\ DInv /\ [Next]_vars => DInv'
  <2> SUFFICES ASSUME TypeOK, DInv, [Next]_vars PROVE DInv'
    OBVIOUS
  <2>1. CacheInv'
    BY CacheStep
  <2>2. plan' = plan
    BY OthersSendNothing DEF RunSend
  <2> QED BY <2>1, <2>2 DEF Anchored
<1>3. TypeOK /\ DInv /\ [Next]_vars => [Step]_vars
  <2> SUFFICES ASSUME TypeOK, DInv, [Next]_vars, last' # last, current.op = "delta"
               PROVE  last'[Len(last')] = Sanitize(Build(current, base), plan.mode)
    OBVIOUS
  <2>1. RunSend
    BY OthersSendNothing
  <2>2. last'[Len(last')] = Sanitize(Build(current, pose), plan.mode)
    BY <2>1, Sends
  <2>3. plan.mock \/ idx > 1
    <3> SUFFICES ASSUME Anchored(plan), ~(idx > 1) PROVE FALSE
      OBVIOUS
    <3>1. idx = 1 /\ plan.order # <<>>
      BY <2>1 DEF RunSend, TypeOK, PlanType
    <3> QED BY <3>1 DEF Anchored, current
  <2>4. pose = base
    BY <2>1, <2>3 DEF CacheInv, RunSend
  <2> QED BY <2>2, <2>4
<1>4. ASSUME PlansAnchored PROVE Spec => DeltaOnTop
  <2>1. Init => DInv BY <1>1, <1>4
  <2> HIDE DEF DInv
  <2> QED BY <2>1, <1>2, <1>3, ArmTypeCorrect, PTL DEF Spec, DeltaOnTop
<1> QED BY <1>4

=============================================================================
