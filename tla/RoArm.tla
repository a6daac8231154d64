-------------------------------- MODULE RoArm --------------------------------
(***************************************************************************)
(* RoArm3D (roarm_motion_api.py), the serial interface of the arm that the *)
(* programs beside it use: a pose in a cache, which relative moves start   *)
(* from and only some calls bring up to date, and trajectories of single   *)
(* goals, any of which the serial port may fail to take.                   *)
(*                                                                         *)
(* A program calls the methods in any order and goes on after an exception *)
(* of theirs, as interactive_axes_test.py does after one of a move.        *)
(* Lengths are hundredths of a millimetre, to which goals are rounded; a   *)
(* speed is the way of one sampling period (1 cm/s is 50).  The wrist      *)
(* angle is left out, and a T=1051 has all coordinates.                    *)
(***************************************************************************)
EXTENDS Integers

CONSTANTS
  Moves,    \* increments [by, speed] that are asked for
  Poses,    \* what set_pose_mm is called with: some of the coordinates
  Default,  \* the pose a new RoArm3D has in its cache
  Home,     \* the arm's pose after T=100
  Parked,   \* the arm's pose at the start
  MinSteps, \* min_steps
  MaxSteps, \* bound: points of a trajectory
  MaxCalls  \* bound: calls of the program

Axes == {"x", "y", "z"}
Position == [Axes -> Int]

\* The square of the length of an increment.
Length2(d) == d["x"] * d["x"] + d["y"] * d["y"] + d["z"] * d["z"]

\* BUG: the longest axis stands for the path.
Planned_LongestAxis(n, d, speed) ==
  /\ n >= MinSteps
  /\ \A a \in Axes : d[a] * d[a] <= (n * speed) * (n * speed)
  /\ n > MinSteps => \E a \in Axes : ((n - 1) * speed) * ((n - 1) * speed) < d[a] * d[a]

\* n is the larger of min_steps and ceil(path / speed / period).
Planned(n, d, speed) ==
  /\ n >= MinSteps
  /\ Length2(d) <= (n * speed) * (n * speed)
  /\ n > MinSteps => ((n - 1) * speed) * ((n - 1) * speed) < Length2(d)

ASSUME RoArmAssumption ==
  /\ MinSteps \in Nat \ {0} /\ MaxSteps \in Nat /\ MaxCalls \in Nat
  /\ {Default, Home, Parked} \subseteq Position
  /\ \A m \in Moves : /\ m.by \in Position /\ m.speed \in Nat \ {0}
                      /\ \E n \in 1..MaxSteps : Planned(n, m.by, m.speed)
  /\ \A p \in Poses : DOMAIN p \subseteq Axes /\ \A a \in DOMAIN p : p[a] \in Int

VARIABLES
  open,  \* the serial port is open
  cache, \* x_mm, y_mm, z_mm
  goal,  \* the arm's last goal
  at,    \* where it is
  move,  \* the trajectory being executed
  calls, \* calls begun
  stale  \* history: since the last move that was carried out, or pose that was
         \* read of an arm at rest, the cache was left behind

vars == <<open, cache, goal, at, move, calls, stale>>

NoMove == [from |-> Default, by |-> Default, speed |-> 1, n |-> 0, i |-> 0]

Init ==
  /\ open = FALSE /\ cache = Default /\ goal = Parked /\ at = Parked
  /\ move = NoMove /\ calls = 0 /\ stale = TRUE

-----------------------------------------------------------------------------
(* The geometry.                                                           *)

\* One of the six directions, and the combinations of them; distances in cm.
DirectionDelta(direction, cm) ==
  LET along(a, sign) == [b \in Axes |-> IF b = a THEN sign * cm * 1000 ELSE 0]
  IN  CASE direction = "front" -> along("x", 1)
        [] direction = "back"  -> along("x", -1)
        [] direction = "left"  -> along("y", 1)
        [] direction = "right" -> along("y", -1)
        [] direction = "up"    -> along("z", 1)
        [] direction = "down"  -> along("z", -1)

ComboDelta(cm) ==
  [x |-> (cm.front - cm.back) * 1000, y |-> (cm.left - cm.right) * 1000,
   z |-> (cm.up - cm.down) * 1000]

\* _cubic_blend(i / n), in parts of n^3.
Blend(i, n) == 3 * i * i * n - 2 * i * i * i

Cube(n) == n * n * n

\* round(..., 2) of num / den hundredths.
Rounded(num, den) == (2 * num + den) \div (2 * den)

\* The ith goal of a trajectory.
PointAt(m, i) ==
  [a \in Axes |-> m.from[a] + Rounded(m.by[a] * Blend(i, m.n), Cube(m.n))]

Target(m) == [a \in Axes |-> m.from[a] + m.by[a]]

-----------------------------------------------------------------------------
(* The calls.                                                              *)

Called == move.n = 0 /\ calls < MaxCalls /\ calls' = calls + 1

\* connect and disconnect.
Connect    == Called /\ open' = TRUE /\ UNCHANGED <<cache, goal, at, move, stale>>
Disconnect == Called /\ open' = FALSE /\ UNCHANGED <<cache, goal, at, move, stale>>

\* An exception before anything was sent: the port is closed or does not take
\* the message, or no T=1051 comes.
Raises == Called /\ UNCHANGED <<open, cache, goal, at, move, stale>>

\* sync_pose_from_feedback: the pose the arm has now, be it on its way.
Feedback == open /\ cache' = at /\ stale' = (at # goal)

SyncPose == Called /\ Feedback /\ UNCHANGED <<open, goal, at, move>>

\* T=100, by move_init_pose or followed by prepare_after_init_pose; neither of
\* them reads the pose.
MoveInitPose ==
  /\ Called /\ open
  /\ goal' = Home /\ stale' = (stale \/ goal # Home)
  /\ UNCHANGED <<open, cache, at, move>>

\* set_pose_mm: the cache first, then the arm, which may not hear of it.
SetPose(p) ==
  /\ Called
  /\ cache' = [a \in Axes |-> IF a \in DOMAIN p THEN p[a] ELSE cache[a]]
  /\ \/ open /\ goal' = cache' /\ stale' = FALSE
     \/ goal' = goal /\ stale' = TRUE
  /\ UNCHANGED <<open, at, move>>

\* move_xyz, with and without sync_first; nothing is done for an increment of 0.
BeginMove(m) ==
  /\ Called
  /\ Feedback \/ UNCHANGED <<cache, stale>>
  /\ IF Length2(m.by) = 0 THEN UNCHANGED move
     ELSE \E n \in 1..MaxSteps :
            /\ Planned(n, m.by, m.speed)
            /\ move' = [from |-> cache', by |-> m.by, speed |-> m.speed, n |-> n, i |-> 0]
  /\ UNCHANGED <<open, goal, at>>

\* One T=1041.
SendPoint ==
  /\ open /\ move.i < move.n
  /\ goal' = PointAt(move, move.i + 1)
  /\ move' = [move EXCEPT !.i = @ + 1]
  /\ UNCHANGED <<open, cache, at, calls, stale>>

\* The port does not take it: the exception leaves the cache at the start.
PointFails ==
  /\ move.i < move.n
  /\ move' = NoMove /\ stale' = (stale \/ move.i > 0)
  /\ UNCHANGED <<open, cache, goal, at, calls>>

\* BUG: the cache stays where the trajectory began.
EndMove_KeepsStart ==
  /\ move.n > 0 /\ move.i = move.n
  /\ move' = NoMove /\ stale' = FALSE
  /\ UNCHANGED <<open, cache, goal, at, calls>>

EndMove ==
  /\ move.n > 0 /\ move.i = move.n
  /\ cache' = Target(move) /\ move' = NoMove /\ stale' = FALSE
  /\ UNCHANGED <<open, goal, at, calls>>

\* The arm reaches its goal; only what is read between two calls matters, so the
\* poses on the way are not told from the one it comes from.
Arrive ==
  /\ move.n = 0 /\ at # goal
  /\ at' = goal
  /\ UNCHANGED <<open, cache, goal, move, calls, stale>>

Next ==
  \/ Connect \/ Disconnect \/ Raises \/ SyncPose \/ MoveInitPose
  \/ \E p \in Poses : SetPose(p)
  \/ \E m \in Moves : BeginMove(m)
  \/ SendPoint \/ PointFails \/ EndMove \/ Arrive

Spec == Init /\ [][Next]_vars

-----------------------------------------------------------------------------
(* Properties.                                                             *)

TypeOK ==
  /\ open \in BOOLEAN /\ stale \in BOOLEAN /\ calls \in Nat
  /\ {cache, goal, at} \subseteq Position
  /\ move \in [from : Position, by : Position, speed : Nat \ {0}, n : Nat, i : Nat]
  /\ move.i <= move.n
  /\ move.n = 0 => move = NoMove

\* Between two calls the cache, from which the next relative move starts, is the
\* arm's last goal, after any sequence of calls and exceptions, unless the cache
\* was left behind: by T=100, by a trajectory or a pose the port did not take, or
\* by feedback of an arm on its way.  The next trajectory that is carried out
\* mends it.
CacheIsGoal == move.n = 0 /\ ~stale => cache = goal

Magnitude(x) == IF x < 0 THEN -x ELSE x

\* Half a unit of rounding at each end of a step.
Slack(x) == IF Magnitude(x) <= 1 THEN 0 ELSE Magnitude(x) - 1

\* q is no farther from p than one and a half times the way of a period, the peak
\* of the cubic.
Near(p, q, speed) ==
  4 * Length2([a \in Axes |-> Slack(q[a] - p[a])]) <= 9 * speed * speed

\* On every axis q is between p and r, ends included.
Between(p, q, r) ==
  \A a \in Axes : \/ p[a] <= q[a] /\ q[a] <= r[a]
                  \/ r[a] <= q[a] /\ q[a] <= p[a]

\* A trajectory never makes the arm jump or turn back: each goal lies between the
\* one before and the target, within the way the speed allows.  Only the first one
\* of a trajectory that starts from a cache left behind may be anywhere.
Smooth ==
  [][goal' # goal /\ move.n > 0 /\ (move.i > 0 \/ ~stale) =>
       Near(goal, goal', move.speed) /\ Between(goal, goal', Target(move))]_vars
=============================================================================
