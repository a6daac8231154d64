---------------------------- MODULE MCArmTargets ----------------------------
(* Envelopes, presets and plans for checking ArmTargets; 5 mm, 0.01 rad.   *)
EXTENDS ArmTargets

EnvelopeOf(x, z, r) ==
  [l \in Limits |->
     CASE l = "xmin" -> x[1] [] l = "xmax" -> x[2]
       [] l = "ymin" -> -10  [] l = "ymax" -> 10
       [] l = "zmin" -> z[1] [] l = "zmax" -> z[2]
       [] l = "tmin" -> 270  [] l = "tmax" -> 330
       [] l = "smin" -> 5    [] l = "smax" -> 18
       [] l = "rmin" -> r[1] [] l = "rmax" -> r[2]
       [] l = "lowx" -> 31   [] l = "lowz" -> 43]

\* The defaults of ArmSafetyChecker, and a config.yaml with a larger box, in
\* which both reach limits and the low ceiling after scaling matter.
DefaultEnvelope == EnvelopeOf(<<28, 46>>, <<34, 47>>, <<41, 61>>)
WideEnvelope    == EnvelopeOf(<<10, 60>>, <<10, 60>>, <<41, 61>>)

\* safe_presets of __init__, and one a config.yaml could add.
DefaultPresets ==
  [n \in {"init", "low", "mid", "high", "feedback"} |->
     CASE n = "init" -> HomeRaw
       [] n = "low"  -> Goal(34, 0, 38, 305, 15)
       [] n = "mid"  -> Goal(36, 0, 41, 305, 15)
       [] n = "high" -> Goal(37, 0, 44, 300, 15)
       [] n = "feedback" -> [HomeRaw EXCEPT !.T = 105]]

Move(op, name, x, y, z, t, keepT, spd) ==
  [op |-> op, name |-> name, x |-> x, y |-> y, z |-> z, t |-> t, keepT |-> keepT, spd |-> spd]

ToInit     == Move("init", "", 0, 0, 0, 0, TRUE, 15)
ToHigh     == Move("preset", "high", 0, 0, 0, 0, TRUE, 15)
ToUnknown  == Move("preset", "wave", 0, 0, 0, 0, TRUE, 15)
ToFeedback == Move("preset", "feedback", 0, 0, 0, 0, TRUE, 15)
\* The largest delta the validator leaves, 5 cm and 20 degrees, both ways.
Out       == Move("delta", "", 10, -10, 10, 35, TRUE, 25)
In        == Move("delta", "", -10, 10, -10, -35, TRUE, 10)
UpOnly    == Move("delta", "", 0, 0, 10, 300, FALSE, 10)
Far       == Move("xyz", "", 200, 0, 60, 400, FALSE, 35)
Near      == Move("xyz", "", 30, 0, 45, 0, TRUE, 10)
Stalled   == Move("xyz", "", 30, 0, 45, 0, TRUE, 0)

SomeMoves == {ToInit, ToHigh, ToUnknown, ToFeedback, Out, In, UpOnly, Far, Near, Stalled}

PlanFor(acts, order, env, mode, mock) ==
  [acts |-> acts, order |-> order, env |-> env, mode |-> mode, mock |-> mock]

Orders(n) == {o \in [1..n -> 1..n] : \A k, l \in 1..n : o[k] = o[l] => k = l}
Modes     == {"clamp", "warn_only", "off"}

AllPlans(n, modes) ==
  {PlanFor(a, o, DefaultEnvelope, m, k) : a \in [1..n -> SomeMoves], o \in Orders(n), m \in modes, k \in BOOLEAN}

\* Everything that runs in mock mode, and what is anchored on real boards.
MockOrAnchored == {p \in AllPlans(3, {"clamp"}) \cup AllPlans(2, Modes) : p.mock \/ Anchored(p)}

\* Any goal of an area around both boxes, alone or followed by a delta.
GoalPlans ==
  {PlanFor(<<Move("xyz", "", x, y, z, 314, FALSE, 20), d>>, <<1, 2>>, WideEnvelope, "clamp", TRUE) :
     x \in 0..66, y \in {-11, 0}, z \in 0..66, d \in {Out, In}}

ArmPlans == MockOrAnchored \cup GoalPlans

\* Plans that begin with a relative move, on real boards.
DeltaFirst == {p \in AllPlans(2, {"clamp"}) : ~p.mock /\ p.acts[p.order[1]].op = "delta"}

\* The hypotheses of the theorems about the reach and the cache hold of these plans,
\* that about relative moves of ArmPlans.
ASSUME PlansAssumption == PlansFit /\ PlansSettle /\ (Plans = ArmPlans => PlansAnchored)
=============================================================================
