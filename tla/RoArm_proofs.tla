----------------------------- MODULE RoArm_proofs -----------------------------
(***************************************************************************)
(* Theorems about RoArm, for any increments, poses and numbers of points:  *)
(* the goals of a trajectory advance steadily, no faster than one and a    *)
(* half times the speed asked for, and end on the target; and the cache is *)
(* the arm's last goal unless it was left behind.                          *)
(***************************************************************************)
EXTENDS RoArm, TLAPS

\* What the cubic gains from one point to the next.
LEMMA BlendGain ==
  ASSUME NEW n \in Nat, NEW i \in 1..n
  PROVE  Blend(i, n) - Blend(i - 1, n) = (3 * n - 2) + 6 * (i - 1) * (n - i)
  BY DEF Blend

LEMMA BlendEnds ==
  ASSUME NEW n \in Nat
  PROVE  Blend(0, n) = 0 /\ Blend(n, n) = Cube(n)
  BY DEF Blend, Cube

\* The goals of a trajectory never turn back.
THEOREM BlendAdvances ==
  ASSUME NEW n \in Nat, NEW i \in 1..n
  PROVE  Blend(i - 1, n) < Blend(i, n)
<1>1. 3 * n - 2 > 0 /\ i - 1 >= 0 /\ n - i >= 0
  OBVIOUS
<1>2. 6 * (i - 1) * (n - i) >= 0
  BY <1>1
<1>3. Blend(i, n) \in Int /\ Blend(i - 1, n) \in Int
  BY DEF Blend
<1> QED BY <1>1, <1>2, <1>3, BlendGain

\* And never by more than one and a half of the average, 1/n of the way.
LEMMA BlendPeak ==
  ASSUME NEW n \in Nat, NEW i \in 1..n
  PROVE  2 * (Blend(i, n) - Blend(i - 1, n)) <= 3 * n * n
<1> DEFINE c == n - 2 * i + 1
<1>1. 3 * n * n - 2 * ((3 * n - 2) + 6 * (i - 1) * (n - i)) = 3 * c * c + 1
  OBVIOUS
<1>2. 3 * c * c >= 0
  OBVIOUS
<1> QED BY <1>1, <1>2, BlendGain

LEMMA RoundedWhole ==
  ASSUME NEW k \in Int, NEW d \in Nat \ {0}
  PROVE  Rounded(k * d, d) = k
  BY DEF Rounded

LEMMA RoundedMonotone ==
  ASSUME NEW d \in Nat \ {0}, NEW k \in Int, NEW m \in Int, k <= m
  PROVE  Rounded(k, d) <= Rounded(m, d)
  BY DEF Rounded

LEMMA RoundedInt ==
  ASSUME NEW d \in Nat \ {0}, NEW k \in Int
  PROVE  Rounded(k, d) \in Int
  BY DEF Rounded

\* A gap that is less than a unit wider than (m - k) / d.
LEMMA SlackGap ==
  ASSUME NEW d \in Nat \ {0}, NEW k \in Int, NEW m \in Int, NEW p \in Int, NEW q \in Int,
         d * (q - p - 1) < m - k, d * (p - q - 1) < k - m
  PROVE  d * Slack(q - p) <= Magnitude(m - k)
<1>1. m - k <= Magnitude(m - k) /\ k - m <= Magnitude(m - k) /\ Magnitude(m - k) \in Nat
  BY DEF Magnitude
<1>2. CASE Magnitude(q - p) <= 1
  <2>1. d * Slack(q - p) = 0
    BY <1>2 DEF Slack
  <2> QED BY <1>1, <2>1
<1>3. CASE q - p > 1
  <2>1. d * Slack(q - p) = d * (q - p - 1)
    BY <1>3 DEF Slack, Magnitude
  <2> QED BY <1>1, <2>1
<1>4. CASE p - q > 1
  <2>1. Slack(q - p) = p - q - 1
    BY <1>4 DEF Slack, Magnitude
  <2>2. d * Slack(q - p) = d * (p - q - 1)
    BY <2>1
  <2> QED BY <1>1, <2>2
<1> QED BY <1>2, <1>3, <1>4 DEF Magnitude

\* Rounding two numbers moves them apart by less than a unit.
LEMMA RoundedGap ==
  ASSUME NEW d \in Nat \ {0}, NEW k \in Int, NEW m \in Int
  PROVE  d * Slack(Rounded(m, d) - Rounded(k, d)) <= Magnitude(m - k)
<1> DEFINE p == Rounded(k, d)
           q == Rounded(m, d)
<1>1. p \in Int /\ 2 * d * p <= 2 * k + d /\ 2 * k + d < 2 * d * p + 2 * d
  BY DEF Rounded
<1>2. q \in Int /\ 2 * d * q <= 2 * m + d /\ 2 * m + d < 2 * d * q + 2 * d
  BY DEF Rounded
<1> HIDE DEF p, q
<1>3. d * q - d * p < m - k + d /\ d * p - d * q < k - m + d
  BY <1>1, <1>2
<1>4. d * (q - p - 1) < m - k /\ d * (p - q - 1) < k - m
  BY <1>1, <1>2, <1>3
<1>5. d * Slack(q - p) <= Magnitude(m - k)
  BY <1>1, <1>2, <1>4, SlackGap
<1> QED BY <1>5 DEF p, q

LEMMA SquareMonotone ==
  ASSUME NEW x \in Nat, NEW y \in Nat, x <= y
  PROVE  x * x <= y * y
  OBVIOUS

LEMMA BlendBelow ==
  ASSUME NEW n \in Nat, NEW i \in 0..n
  PROVE  Blend(i, n) <= Cube(n)
<1>1. Cube(n) - Blend(i, n) = (n - i) * (n - i) * (n + 2 * i)
  BY DEF Cube, Blend
<1>2. (n - i) * (n - i) >= 0
  OBVIOUS
<1>3. (n - i) * (n - i) * (n + 2 * i) >= 0
  BY <1>2
<1> QED BY <1>1, <1>3 DEF Cube, Blend

-----------------------------------------------------------------------------
(* The goals of a trajectory.                                              *)

Trajectory == [from : Position, by : Position, speed : Nat \ {0}, n : Nat \ {0}, i : Nat]

LEMMA PointType ==
  ASSUME NEW m \in Trajectory, NEW i \in 0..m.n
  PROVE  PointAt(m, i) \in Position /\ Target(m) \in Position
<1>1. Cube(m.n) \in Nat \ {0} /\ Blend(i, m.n) \in Int
  BY DEF Cube, Blend, Trajectory
<1>2. \A a \in Axes : m.by[a] * Blend(i, m.n) \in Int
  BY <1>1 DEF Trajectory, Position
<1>3. \A a \in Axes : Rounded(m.by[a] * Blend(i, m.n), Cube(m.n)) \in Int
  BY <1>1, <1>2, RoundedInt
<1> QED BY <1>3 DEF PointAt, Target, Trajectory, Position

\* A trajectory begins at its start and ends on its target.
LEMMA PointEnds ==
  ASSUME NEW m \in Trajectory
  PROVE  PointAt(m, 0) = m.from /\ PointAt(m, m.n) = Target(m)
<1>1. Cube(m.n) \in Nat \ {0}
  BY DEF Cube, Trajectory
<1>2. \A a \in Axes : m.by[a] \in Int /\ m.from[a] \in Int
  BY DEF Trajectory, Position
<1>3. Blend(0, m.n) = 0 /\ Blend(m.n, m.n) = Cube(m.n)
  BY BlendEnds DEF Trajectory
<1>4. \A a \in Axes : Rounded(m.by[a] * Blend(m.n, m.n), Cube(m.n)) = m.by[a]
  BY <1>1, <1>2, <1>3, RoundedWhole
<1>5. \A a \in Axes : Rounded(m.by[a] * Blend(0, m.n), Cube(m.n)) = 0
  <2> TAKE a \in Axes
  <2>1. m.by[a] * Blend(0, m.n) = 0 * Cube(m.n)
    BY <1>1, <1>2, <1>3
  <2> QED BY <1>1, <2>1, RoundedWhole
<1>6. \A a \in Axes : PointAt(m, 0)[a] = m.from[a]
  BY <1>2, <1>5 DEF PointAt
<1>7. m.from = [a \in Axes |-> m.from[a]]
  BY DEF Trajectory, Position
<1> QED BY <1>4, <1>6, <1>7 DEF PointAt, Target

LEMMA PointBetween ==
  ASSUME NEW m \in Trajectory, NEW i \in 1..m.n
  PROVE  Between(PointAt(m, i - 1), PointAt(m, i), Target(m))
<1> DEFINE d == Cube(m.n)
           b == Blend(i - 1, m.n)
           c == Blend(i, m.n)
<1>1. d \in Nat \ {0} /\ b \in Int /\ c \in Int /\ m.n \in Nat
  BY DEF Cube, Blend, Trajectory
<1>2. b <= c /\ c <= d
  BY <1>1, BlendAdvances, BlendBelow
<1> SUFFICES ASSUME NEW a \in Axes
             PROVE  \/ /\ PointAt(m, i - 1)[a] <= PointAt(m, i)[a]
                       /\ PointAt(m, i)[a] <= Target(m)[a]
                    \/ /\ Target(m)[a] <= PointAt(m, i)[a]
                       /\ PointAt(m, i)[a] <= PointAt(m, i - 1)[a]
  BY DEF Between
<1> DEFINE k == m.by[a]
<1>3. k \in Int /\ m.from[a] \in Int
  BY DEF Trajectory, Position
<1>4. /\ PointAt(m, i - 1)[a] = m.from[a] + Rounded(k * b, d)
      /\ PointAt(m, i)[a] = m.from[a] + Rounded(k * c, d)
      /\ Target(m)[a] = m.from[a] + Rounded(k * d, d)
  BY <1>1, <1>3, RoundedWhole DEF PointAt, Target
<1> HIDE DEF b, c, d, k
<1>5. k * b \in Int /\ k * c \in Int /\ k * d \in Int
  BY <1>1, <1>3
<1>6. CASE k >= 0
  <2>1. k * b <= k * c /\ k * c <= k * d
    BY <1>1, <1>2, <1>3, <1>6
  <2>2. Rounded(k * b, d) <= Rounded(k * c, d) /\ Rounded(k * c, d) <= Rounded(k * d, d)
    BY <1>1, <1>5, <2>1, RoundedMonotone
  <2> QED BY <1>1, <1>3, <1>4, <1>5, <2>2, RoundedInt
<1>7. CASE k < 0
  <2>1. k * d <= k * c /\ k * c <= k * b
    BY <1>1, <1>2, <1>3, <1>7
  <2>2. Rounded(k * d, d) <= Rounded(k * c, d) /\ Rounded(k * c, d) <= Rounded(k * b, d)
    BY <1>1, <1>5, <2>1, RoundedMonotone
  <2> QED BY <1>1, <1>3, <1>4, <1>5, <2>2, RoundedInt
<1> QED BY <1>3, <1>6, <1>7

LEMMA SlackNat ==
  ASSUME NEW x \in Int
  PROVE  Slack(x) \in Nat
  BY DEF Slack, Magnitude

\* From one goal to the next the arm goes at most one and a half times the way
\* of a period at the speed asked for, but for the rounding.
LEMMA PointNear ==
  ASSUME NEW m \in Trajectory, NEW i \in 1..m.n, Planned(m.n, m.by, m.speed)
  PROVE  Near(PointAt(m, i - 1), PointAt(m, i), m.speed)
<1> DEFINE n == m.n
           v == m.speed
           d == Cube(n)
           b == Blend(i - 1, n)
           c == Blend(i, n)
           D == c - b
           s == [a \in Axes |-> Slack(PointAt(m, i)[a] - PointAt(m, i - 1)[a])]
<1>1. /\ n \in Nat \ {0} /\ v \in Nat \ {0} /\ d \in Nat \ {0} /\ d = n * n * n
      /\ b \in Int /\ c \in Int /\ D \in Nat
  BY BlendAdvances DEF Cube, Blend, Trajectory
<1>2. 2 * D <= 3 * n * n
  BY BlendPeak, <1>1
<1>3. ASSUME NEW a \in Axes
      PROVE  s[a] \in Nat /\ (d * s[a]) * (d * s[a]) <= (m.by[a] * m.by[a]) * (D * D)
  <2> DEFINE k == m.by[a]
             p == Rounded(k * b, d)
             q == Rounded(k * c, d)
  <2>1. k \in Int /\ m.from[a] \in Int
    BY DEF Trajectory, Position
  <2>2. p \in Int /\ q \in Int /\ k * b \in Int /\ k * c \in Int
    BY <1>1, <2>1, RoundedInt
  <2>3. s[a] = Slack(q - p)
    <3>1. /\ PointAt(m, i)[a] = m.from[a] + q
          /\ PointAt(m, i - 1)[a] = m.from[a] + p
      BY DEF PointAt
    <3> HIDE DEF p, q
    <3>2. (m.from[a] + q) - (m.from[a] + p) = q - p
      BY <2>1, <2>2
    <3> QED BY <3>1, <3>2
  <2>4. d * Slack(q - p) <= Magnitude(k * c - k * b)
    BY <1>1, <2>2, RoundedGap
  <2>5. Slack(q - p) \in Nat
    BY <2>2, SlackNat
  <2> HIDE DEF b, c, d, k, p, q, s, n
  <2>6. k * c - k * b = k * D
    BY <1>1, <2>1
  <2>7. d * s[a] \in Nat /\ Magnitude(k * D) \in Nat
    BY <1>1, <2>1, <2>3, <2>5 DEF Magnitude
  <2>8. (d * s[a]) * (d * s[a]) <= Magnitude(k * D) * Magnitude(k * D)
    BY <2>3, <2>4, <2>6, <2>7, SquareMonotone
  <2>9. Magnitude(k * D) * Magnitude(k * D) = (k * k) * (D * D)
    <3>1. k * D \in Int /\ (k * D) * (k * D) = (k * k) * (D * D)
      BY <1>1, <2>1
    <3> QED BY <3>1 DEF Magnitude
  <2> QED BY <2>3, <2>5, <2>8, <2>9 DEF k
<1>4. Length2(m.by) \in Nat /\ Length2(m.by) <= (n * v) * (n * v)
  BY DEF Planned, Length2, Trajectory, Position, Axes
<1> HIDE DEF b, c, d, D, s, n, v
<1>5. Length2(s) \in Nat
  BY <1>3 DEF Length2, Axes
<1>6. (d * d) * Length2(s) <= Length2(m.by) * (D * D)
  <2>1. "x" \in Axes /\ "y" \in Axes /\ "z" \in Axes
    BY DEF Axes
  <2>2. m.by["x"] \in Int /\ m.by["y"] \in Int /\ m.by["z"] \in Int
    BY <2>1 DEF Trajectory, Position
  <2>3. /\ (d * d) * (s["x"] * s["x"]) <= (m.by["x"] * m.by["x"]) * (D * D)
        /\ (d * d) * (s["y"] * s["y"]) <= (m.by["y"] * m.by["y"]) * (D * D)
        /\ (d * d) * (s["z"] * s["z"]) <= (m.by["z"] * m.by["z"]) * (D * D)
    BY <1>1, <1>3, <2>1
  <2>4. s["x"] \in Nat /\ s["y"] \in Nat /\ s["z"] \in Nat
    BY <1>3, <2>1
  <2> QED BY <1>1, <2>2, <2>3, <2>4 DEF Length2
<1>7. 4 * (D * D) <= 9 * (n * n) * (n * n)
  <2>1. 2 * D \in Nat /\ 3 * n * n \in Nat
    BY <1>1
  <2>2. (2 * D) * (2 * D) <= (3 * n * n) * (3 * n * n)
    BY <1>2, <2>1, SquareMonotone
  <2> QED BY <1>1, <2>2
<1>8. 4 * ((d * d) * Length2(s)) <= (9 * (n * n) * (n * n)) * ((n * v) * (n * v))
  <2> DEFINE L == Length2(m.by)
             W == (n * v) * (n * v)
             N == 9 * (n * n) * (n * n)
             E == D * D
  <2>1. L \in Nat /\ W \in Nat /\ N \in Nat /\ E \in Nat
    BY <1>1, <1>4
  <2>2. L <= W /\ 4 * E <= N
    BY <1>4, <1>7
  <2> HIDE DEF L, W, N, E
  <2>3. 4 * (L * E) <= N * W
    <3>1. L * (4 * E) <= L * N
      BY <2>1, <2>2
    <3>2. L * N <= W * N
      BY <2>1, <2>2
    <3> QED BY <2>1, <3>1, <3>2
  <2>4. (d * d) * Length2(s) <= L * E
    BY <1>6 DEF L, E
  <2>5. (d * d) * Length2(s) \in Nat
    BY <1>1, <1>5
  <2>6. 4 * ((d * d) * Length2(s)) <= N * W
    BY <2>1, <2>3, <2>4, <2>5
  <2> QED BY <2>6 DEF N, W
<1>9. (9 * (n * n) * (n * n)) * ((n * v) * (n * v)) = (d * d) * (9 * v * v)
  BY <1>1
<1>10. 4 * Length2(s) <= 9 * v * v
  <2> DEFINE e == d * d
             x == 4 * Length2(s)
             y == 9 * v * v
  <2>1. e \in Nat \ {0} /\ x \in Nat /\ y \in Nat
    BY <1>1, <1>5
  <2>2. e * x = 4 * (e * Length2(s))
    BY <1>1, <1>5
  <2>3. e * x <= e * y
    BY <1>8, <1>9, <2>2
  <2> HIDE DEF e, x, y
  <2>4. x <= y
    BY <2>1, <2>3
  <2> QED BY <2>4 DEF x, y
<1> QED BY <1>10 DEF Near, s, v

-----------------------------------------------------------------------------
(* The invariant.                                                          *)

\* A trajectory starts from the cache and is as long as planned; once a goal of it
\* was sent, or if the cache was right, the arm's last goal is on it.
OnTrajectory ==
  move.n > 0 => /\ cache = move.from
                /\ Planned(move.n, move.by, move.speed)
                /\ move.i > 0 \/ ~stale => goal = PointAt(move, move.i)

IInv == TypeOK /\ CacheIsGoal /\ OnTrajectory

LEMMA MoveIsTrajectory ==
  ASSUME TypeOK, move.n > 0
  PROVE  move \in Trajectory
  BY DEF TypeOK, Trajectory

LEMMA NoMoveType ==
  /\ NoMove \in [from : Position, by : Position, speed : Nat \ {0}, n : Nat, i : Nat]
  /\ NoMove.n = 0 /\ NoMove.i = 0
  BY RoArmAssumption DEF NoMove

LEMMA InitIInv == Init => IInv
<1> SUFFICES ASSUME Init PROVE IInv
  OBVIOUS
<1>1. stale /\ move = NoMove /\ ~(move.n > 0) /\ move.i <= move.n
  BY NoMoveType DEF Init
<1>2. TypeOK
  BY <1>1, RoArmAssumption, NoMoveType DEF Init, TypeOK
<1> QED BY <1>1, <1>2 DEF IInv, CacheIsGoal, OnTrajectory

\* A step between two calls.
LEMMA IdleStep ==
  ASSUME TypeOK, Called, UNCHANGED move,
         open' \in BOOLEAN, stale' \in BOOLEAN, {cache', goal', at'} \subseteq Position,
         ~stale' => cache' = goal'
  PROVE  IInv'
<1>1. move.n = 0 /\ ~(move.n > 0) /\ calls' \in Nat
  BY DEF TypeOK, Called
<1>2. TypeOK'
  BY <1>1 DEF TypeOK
<1> QED BY <1>1, <1>2 DEF IInv, CacheIsGoal, OnTrajectory

LEMMA NextIInv == IInv /\ [Next]_vars => IInv'
<1> SUFFICES ASSUME IInv, [Next]_vars PROVE IInv'
  OBVIOUS
<1> USE NoMoveType DEF IInv
<1>1. CASE UNCHANGED vars
  BY <1>1 DEF vars, TypeOK, CacheIsGoal, OnTrajectory, PointAt
<1>a. TypeOK /\ (Called => (~stale => cache = goal))
  BY DEF Called, CacheIsGoal
<1>b. open \in BOOLEAN /\ stale \in BOOLEAN /\ {cache, goal, at} \subseteq Position
  BY DEF TypeOK
<1>2. CASE Connect \/ Disconnect \/ Raises
  BY <1>2, <1>a, <1>b, IdleStep DEF Connect, Disconnect, Raises
<1>3. CASE SyncPose
  <2>1. Called /\ UNCHANGED <<open, goal, at, move>> /\ cache' = at /\ stale' = (at # goal)
    BY <1>3 DEF SyncPose, Feedback
  <2>2. stale' \in BOOLEAN /\ (~stale' => cache' = goal')
    BY <2>1
  <2> QED BY <2>1, <2>2, <1>a, <1>b, IdleStep
<1>4. CASE MoveInitPose
  <2>1. /\ Called /\ UNCHANGED <<open, cache, at, move>> /\ goal' = Home
        /\ stale' = (stale \/ goal # Home)
    BY <1>4 DEF MoveInitPose
  <2>2. stale' \in BOOLEAN /\ (~stale' => cache' = goal')
    BY <2>1, <1>a
  <2> QED BY <2>1, <2>2, <1>a, <1>b, RoArmAssumption, IdleStep
<1>5. ASSUME NEW p \in Poses, SetPose(p) PROVE IInv'
  <2>1. cache' \in Position
    BY <1>5, RoArmAssumption DEF SetPose, TypeOK, Position
  <2>2. /\ Called /\ UNCHANGED <<open, at, move>>
        /\ \/ goal' = cache' /\ stale' = FALSE
           \/ goal' = goal /\ stale' = TRUE
    BY <1>5 DEF SetPose
  <2>3. CASE goal' = cache' /\ stale' = FALSE
    BY <2>1, <2>2, <2>3, <1>b, <1>a, IdleStep
  <2>4. CASE goal' = goal /\ stale' = TRUE
    BY <2>1, <2>2, <2>4, <1>b, <1>a, IdleStep
  <2> QED BY <2>2, <2>3, <2>4
<1>6. ASSUME NEW m \in Moves, BeginMove(m) PROVE IInv'
  <2>1. /\ m.by \in Position /\ m.speed \in Nat \ {0}
        /\ cache' \in Position /\ stale' \in BOOLEAN /\ (~stale' => cache' = goal)
        /\ open' = open /\ goal' = goal /\ at' = at /\ calls' \in Nat /\ move.n = 0
    <3>1. m.by \in Position /\ m.speed \in Nat \ {0}
      BY RoArmAssumption
    <3>2. Called /\ UNCHANGED <<open, goal, at>>
      BY <1>6 DEF BeginMove
    <3>3. cache' \in Position /\ stale' \in BOOLEAN /\ (~stale' => cache' = goal)
      <4>1. CASE Feedback
        BY <4>1, <1>b DEF Feedback
      <4>2. CASE UNCHANGED <<cache, stale>>
        BY <4>2, <3>2, <1>a, <1>b
      <4> QED BY <1>6, <4>1, <4>2 DEF BeginMove
    <3>4. calls' \in Nat /\ move.n = 0
      BY <3>2 DEF Called, TypeOK
    <3> QED BY <3>1, <3>2, <3>3, <3>4
  <2>2. CASE Length2(m.by) = 0
    <3>1. move' = move BY <1>6, <2>2 DEF BeginMove
    <3>2. Called BY <1>6 DEF BeginMove
    <3> QED BY <2>1, <3>1, <3>2, <1>a, <1>b, IdleStep
  <2>3. CASE Length2(m.by) # 0
    <3>1. PICK n \in 1..MaxSteps :
            /\ Planned(n, m.by, m.speed)
            /\ move' = [from |-> cache', by |-> m.by, speed |-> m.speed, n |-> n, i |-> 0]
      BY <1>6, <2>3 DEF BeginMove
    <3>2. n \in Nat \ {0}
      BY <3>1, RoArmAssumption
    <3>3. move' \in Trajectory /\ move'.i = 0 /\ move'.n = n /\ move'.from = cache'
      BY <2>1, <3>1, <3>2 DEF Trajectory
    <3>4. TypeOK'
      BY <2>1, <3>1, <3>2, <3>3 DEF TypeOK, Trajectory
    <3>5. PointAt(move', 0) = cache'
      BY <3>3, PointEnds
    <3>6. OnTrajectory'
      BY <2>1, <3>1, <3>2, <3>3, <3>5 DEF OnTrajectory, PointAt
    <3> QED BY <3>2, <3>3, <3>4, <3>6 DEF CacheIsGoal
  <2> QED BY <2>2, <2>3
<1>7. CASE SendPoint
  <2>1. /\ move.n > 0 /\ move.n \in Nat /\ move.i \in Nat /\ move.i + 1 \in 0..move.n
    BY <1>7 DEF SendPoint, TypeOK
  <2>2. move \in Trajectory
    BY <2>1, MoveIsTrajectory
  <2>3. goal' \in Position
    BY <1>7, <2>1, <2>2, PointType DEF SendPoint
  <2>4. /\ move'.n = move.n /\ move'.i = move.i + 1 /\ move'.from = move.from
        /\ move'.by = move.by /\ move'.speed = move.speed /\ move' \in Trajectory
    BY <1>7, <2>2 DEF SendPoint, Trajectory
  <2>5. TypeOK'
    BY <1>7, <2>1, <2>3, <2>4 DEF SendPoint, TypeOK, Trajectory
  <2>6. goal' = PointAt(move', move'.i)
    BY <1>7, <2>4 DEF SendPoint, PointAt
  <2>7. OnTrajectory'
    BY <1>7, <2>1, <2>4, <2>6 DEF SendPoint, OnTrajectory, PointAt
  <2> QED BY <2>1, <2>4, <2>5, <2>7 DEF CacheIsGoal
<1>8. CASE PointFails
  <2>1. stale' = (stale \/ move.i > 0) /\ move' = NoMove /\ move.n > 0
    BY <1>8 DEF PointFails, TypeOK
  <2>2. ~stale' => cache = goal
    <3>1. CASE stale \/ move.i > 0 BY <2>1, <3>1
    <3>2. CASE ~stale /\ ~(move.i > 0)
      <4>1. move.i = 0 /\ move \in Trajectory
        BY <2>1, <3>2, MoveIsTrajectory DEF TypeOK
      <4> QED BY <2>1, <3>2, <4>1, PointEnds DEF OnTrajectory
    <3> QED BY <3>1, <3>2
  <2> QED BY <1>8, <2>1, <2>2 DEF PointFails, TypeOK, CacheIsGoal, OnTrajectory
<1>9. CASE EndMove
  <2>1. move \in Trajectory /\ move.i = move.n /\ move.n > 0
    BY <1>9, MoveIsTrajectory DEF EndMove
  <2>2. goal = Target(move) /\ Target(move) \in Position
    <3>1. goal = PointAt(move, move.n)
      BY <2>1 DEF OnTrajectory
    <3>2. 0 \in 0..move.n
      BY <2>1 DEF Trajectory
    <3> QED BY <2>1, <3>1, <3>2, PointEnds, PointType
  <2>3. /\ cache' = Target(move) /\ move' = NoMove /\ stale' = FALSE
        /\ UNCHANGED <<open, goal, at, calls>>
    BY <1>9 DEF EndMove
  <2>4. ~(move'.n > 0) /\ move'.i <= move'.n
    BY <2>3
  <2>5. TypeOK'
    BY <2>2, <2>3, <2>4 DEF TypeOK
  <2> QED BY <2>2, <2>3, <2>4, <2>5 DEF CacheIsGoal, OnTrajectory
<1>10. CASE Arrive
  BY <1>10 DEF Arrive, TypeOK, CacheIsGoal, OnTrajectory
<1> QED BY <1>1, <1>2, <1>3, <1>4, <1>5, <1>6, <1>7, <1>8, <1>9, <1>10 DEF Next

LEMMA Invariance == Spec => []IInv
<1>1. Init => IInv BY InitIInv
<1>2. IInv /\ [Next]_vars => IInv' BY NextIInv
<1> QED BY <1>1, <1>2, PTL DEF Spec

\* Between two calls the cache is the arm's last goal unless it was left behind,
\* for any increments, speeds, poses and number of calls.
THEOREM CacheIsGoalHolds == Spec => []CacheIsGoal
<1>1. IInv => CacheIsGoal BY DEF IInv
<1> QED BY <1>1, Invariance, PTL

\* Every reachable state is well typed.
THEOREM RoArmTypeCorrect == Spec => []TypeOK
<1>1. IInv => TypeOK BY DEF IInv
<1> QED BY <1>1, Invariance, PTL

\* A trajectory never makes the arm jump or turn back, whatever its length.
THEOREM SmoothHolds == Spec => Smooth
<1> DEFINE Steady == goal' # goal /\ move.n > 0 /\ (move.i > 0 \/ ~stale) =>
                       Near(goal, goal', move.speed) /\ Between(goal, goal', Target(move))
<1>1. IInv /\ [Next]_vars => [Steady]_vars
  <2> SUFFICES ASSUME IInv, Next, goal' # goal, move.n > 0, move.i > 0 \/ ~stale
               PROVE  Near(goal, goal', move.speed) /\ Between(goal, goal', Target(move))
    OBVIOUS
  <2>1. SendPoint
    BY DEF Next, Connect, Disconnect, Raises, SyncPose, MoveInitPose, SetPose, BeginMove,
           Called, PointFails, EndMove, Arrive
  <2>2. move \in Trajectory /\ move.i \in Nat /\ move.n \in Nat
    BY MoveIsTrajectory DEF IInv, TypeOK
  <2>3. move.i + 1 \in 1..move.n /\ (move.i + 1) - 1 = move.i
    BY <2>1, <2>2 DEF SendPoint
  <2>4. goal = PointAt(move, move.i) /\ Planned(move.n, move.by, move.speed)
    BY DEF IInv, OnTrajectory
  <2>5. goal' = PointAt(move, move.i + 1)
    BY <2>1 DEF SendPoint
  <2>6. Near(goal, goal', move.speed)
    BY <2>2, <2>3, <2>4, <2>5, PointNear
  <2>7. Between(goal, goal', Target(move))
    BY <2>2, <2>3, <2>4, <2>5, PointBetween
  <2> QED BY <2>6, <2>7
<1> QED BY <1>1, Invariance, PTL DEF Spec, Smooth
=============================================================================
