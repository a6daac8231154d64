----------------------------- MODULE ArmTargets -----------------------------
(***************************************************************************)
(* From the arm actions of a timeline to the raw commands the P4 board     *)
(* forwards: ArmCommandTranslator (the cached target pose on which delta   *)
(* moves build), ArmSafetyChecker (the safe envelope) and the two places   *)
(* where TimelineScheduler calls TimelineCommandTranslator.translate_action*)
(* on the SAME translator: once for every action while it works out which  *)
(* boards it needs, and again when it runs the action.                     *)
(*                                                                         *)
(* Lengths are whole steps of a grid, angles are in 0.01 rad, speeds in    *)
(* 0.01.  The step of the code is the 0.01 mm to which it rounds a goal;   *)
(* that of the runs is 5 mm, the coarsest in which the default limits are  *)
(* whole, and the theorems do not depend on it.  The one irrational        *)
(* quantity, a coordinate scaled to a reach limit, is kept in half steps,  *)
(* rounded up: that tells apart what the comparisons with the limits and   *)
(* the rounding to the nearest step tell apart.                            *)
(***************************************************************************)
EXTENDS Integers, Sequences

CONSTANTS
  Presets,   \* [known preset names -> raw commands]
  Plans      \* arm actions, the order they run in, and the configuration

Limits == {"xmin", "xmax", "ymin", "ymax", "zmin", "zmax", "tmin", "tmax",
           "smin", "smax", "rmin", "rmax", "lowx", "lowz"}

\* A parsed raw command; what a T:100 means for the pose is Home.
Raw     == [T : {100, 104, 105}, x : Int, y : Int, z : Int, t : Int, spd : Int]
Pose    == [x : Int, y : Int, z : Int, t : Int]
ArmMove == [op : {"init", "preset", "delta", "xyz"}, name : STRING,
            x : Int, y : Int, z : Int, t : Int, keepT : BOOLEAN, spd : Int]

\* The numbers of arm_safety, each range in order.
EnvelopeType ==
  {e \in [Limits -> Int] :
     /\ 0 <= e["xmin"] /\ e["xmin"] <= e["xmax"]
     /\ e["ymin"] <= e["ymax"]
     /\ 0 <= e["zmin"] /\ e["zmin"] <= e["zmax"]
     /\ e["tmin"] <= e["tmax"]
     /\ e["smin"] <= e["smax"]
     /\ 0 <= e["rmin"] /\ e["rmin"] <= e["rmax"]
     /\ e["zmin"] <= e["lowz"]}

PlanType == [acts : Seq(ArmMove), order : Seq(Nat), env : EnvelopeType,
             mode : {"clamp", "warn_only", "off"}, mock : BOOLEAN]

ASSUME ArmAssumption ==
  /\ DOMAIN Presets \subseteq STRING
  /\ \A n \in DOMAIN Presets : Presets[n] \in Raw
  /\ \A p \in Plans : /\ p \in PlanType
                      /\ \A k \in DOMAIN p.order : p.order[k] \in DOMAIN p.acts

VARIABLES
  plan,   \* fixed
  phase,  \* "precheck", "run", "over"
  idx,    \* next position: in acts during the precheck, in order afterwards
  pose,   \* ArmCommandTranslator.pose, the cached target
  last,   \* history: the raw commands handed to the board, in order
  base    \* history: where the last of them leaves the arm, Home before any

vars == <<plan, phase, idx, pose, last, base>>

Envelope == plan.env

-----------------------------------------------------------------------------
(* ArmSafetyChecker, with clamp_speed on.                                  *)

Clamp(v, lower, upper) ==
  LET m == IF v > upper THEN upper ELSE v
  IN  IF m < lower THEN lower ELSE m

\* v * limit / sqrt(x^2 + z^2) in half steps, rounded up: v is one of x and z.
HalfSteps(v, limit, x, z) ==
  CHOOSE h \in 0..(2 * limit) :
    /\ h * h * (x * x + z * z) >= 4 * (v * v * limit * limit)
    /\ h = 0 \/ (h - 1) * (h - 1) * (x * x + z * z) < 4 * (v * v * limit * limit)

ClampX(v) == Clamp(v, Envelope["xmin"], Envelope["xmax"])
ClampZ(v) == Clamp(v, Envelope["zmin"], Envelope["zmax"])

\* The pair scaled to the limit and brought back into the box, in half steps.
Scaled(x, z, limit) ==
  <<Clamp(HalfSteps(x, limit, x, z), 2 * Envelope["xmin"], 2 * Envelope["xmax"]),
    Clamp(HalfSteps(z, limit, x, z), 2 * Envelope["zmin"], 2 * Envelope["zmax"])>>

\* BUG: only x is scaled.
WithinReach_XOnly(x, z) ==
  IF x * x + z * z > Envelope["rmax"] * Envelope["rmax"]
  THEN <<Scaled(x, z, Envelope["rmax"])[1], 2 * z>>
  ELSE <<2 * x, 2 * z>>

\* <<x, z>> brought to the nearer reach limit, in half steps.
WithinReach(x, z) ==
  LET s == x * x + z * z
  IN  IF s > Envelope["rmax"] * Envelope["rmax"] THEN Scaled(x, z, Envelope["rmax"])
      ELSE IF s > 0 /\ s < Envelope["rmin"] * Envelope["rmin"]
      THEN Scaled(x, z, Envelope["rmin"])
      ELSE <<2 * x, 2 * z>>

SafeSpeed(s) == IF s <= 0 THEN Envelope["smin"]
                ELSE Clamp(s, Envelope["smin"], Envelope["smax"])

\* BUG: the lowering for small x is decided on the height asked for.
ClampT104_Early(r) ==
  LET z0 == IF r.x <= Envelope["lowx"] /\ r.z > Envelope["lowz"] THEN Envelope["lowz"] ELSE r.z
      h  == WithinReach(ClampX(r.x), ClampZ(z0))
  IN  [T |-> 104, x |-> h[1] \div 2, y |-> Clamp(r.y, Envelope["ymin"], Envelope["ymax"]),
       z |-> h[2] \div 2, t |-> Clamp(r.t, Envelope["tmin"], Envelope["tmax"]),
       spd |-> SafeSpeed(r.spd)]

\* _clamp_t104_values: box, speed, reach, and last the lower ceiling for an arm
\* that is drawn in; all of it before check_raw_command rounds to the nearest step.
ClampT104(r) ==
  LET h == WithinReach(ClampX(r.x), ClampZ(r.z))
  IN  [T |-> 104, x |-> h[1] \div 2, y |-> Clamp(r.y, Envelope["ymin"], Envelope["ymax"]),
       z |-> IF h[1] <= 2 * Envelope["lowx"] /\ h[2] > 2 * Envelope["lowz"]
             THEN Envelope["lowz"] ELSE h[2] \div 2,
       t |-> Clamp(r.t, Envelope["tmin"], Envelope["tmax"]),
       spd |-> SafeSpeed(r.spd)]

Rejected(r, mode) == mode # "off" /\ r.T \notin {100, 104}

Sanitize(r, mode) == IF mode = "clamp" /\ r.T = 104 THEN ClampT104(r) ELSE r

-----------------------------------------------------------------------------
(* ArmCommandTranslator and TimelineCommandTranslator.                     *)

Home    == [x |-> 30, y |-> 0, z |-> 40, t |-> 314]
HomeRaw == [T |-> 100, x |-> 30, y |-> 0, z |-> 40, t |-> 314, spd |-> 0]

Goal(x, y, z, t, spd) == [T |-> 104, x |-> x, y |-> y, z |-> z, t |-> t, spd |-> spd]

\* The raw command an action is built into, given the cached pose p.  An xyz
\* move without a wrist angle keeps the cached one.
Build(a, p) ==
  CASE a.op = "init"   -> HomeRaw
    [] a.op = "preset" -> Presets[a.name]
    [] a.op = "delta"  -> Goal(p.x + a.x, p.y + a.y, p.z + a.z,
                               IF a.keepT THEN p.t + a.t ELSE a.t, a.spd)
    [] a.op = "xyz"    -> Goal(a.x, a.y, a.z, IF a.keepT THEN p.t ELSE a.t, a.spd)

\* build_goal_ctrl_command raises ValueError.
Raises(a) == a.op \in {"delta", "xyz"} /\ a.spd <= 0

\* Translated to a "warning" item: unknown preset, or rejected raw command.
Known(a) == a.op = "preset" => a.name \in DOMAIN Presets
Warns(a, p, mode) == Known(a) => Rejected(Build(a, p), mode)

\* Where a raw command leaves the arm when p is where it was.
PoseAfter(r, p) == CASE r.T = 100 -> Home
                     [] r.T = 104 -> [x |-> r.x, y |-> r.y, z |-> r.z, t |-> r.t]
                     [] OTHER     -> p

\* BUG: the cache follows the command before it was made safe.
Cached_Unsafe(a, p, mode) == IF Warns(a, p, mode) THEN p ELSE PoseAfter(Build(a, p), p)

\* BUG: a preset does not reach the cache.
Cached_NoPreset(a, p, mode) ==
  IF Warns(a, p, mode) \/ a.op = "preset" THEN p
  ELSE PoseAfter(Sanitize(Build(a, p), mode), p)

\* The cached pose after translate_action(a).
Cached(a, p, mode) ==
  IF Warns(a, p, mode) THEN p ELSE PoseAfter(Sanitize(Build(a, p), mode), p)

-----------------------------------------------------------------------------
\* In mock mode no endpoint is started, and the plan is not looked through.
Init ==
  /\ plan \in Plans
  /\ phase = IF plan.mock THEN "run" ELSE "precheck"
  /\ idx = 1
  /\ pose = Home
  /\ last = <<>>
  /\ base = Home

\* _required_boards translates every action to learn its board.
Precheck ==
  /\ phase = "precheck" /\ idx <= Len(plan.acts)
  /\ LET a == plan.acts[idx] IN
       \/ /\ Raises(a)
          /\ phase' = "over" /\ UNCHANGED <<idx, pose>>
       \/ /\ ~Raises(a)
          /\ pose' = Cached(a, pose, plan.mode)
          /\ idx' = idx + 1 /\ UNCHANGED phase
  /\ UNCHANGED <<plan, last, base>>

PrecheckDone ==
  /\ phase = "precheck" /\ idx > Len(plan.acts)
  /\ phase' = "run" /\ idx' = 1
  /\ UNCHANGED <<plan, pose, last, base>>

current == plan.acts[plan.order[idx]]

\* The action is over; if it failed, its on_fail decides whether there is more.
Go(failed) == \/ phase' = "run" /\ idx' = idx + 1
              \/ failed /\ phase' = "over" /\ UNCHANGED idx

RunRaises ==
  /\ phase = "run" /\ idx <= Len(plan.order)
  /\ Raises(current)
  /\ phase' = "over"
  /\ UNCHANGED <<plan, idx, pose, last, base>>

RunWarning ==
  /\ phase = "run" /\ idx <= Len(plan.order)
  /\ ~Raises(current) /\ Warns(current, pose, plan.mode)
  /\ Go(TRUE)
  /\ UNCHANGED <<plan, pose, last, base>>

\* The command is sent, and done, answered with an error or timed out: nothing
\* of that is fed back into the cache.
RunSend ==
  /\ phase = "run" /\ idx <= Len(plan.order)
  /\ ~Raises(current) /\ ~Warns(current, pose, plan.mode)
  /\ LET r == Sanitize(Build(current, pose), plan.mode) IN
       /\ last' = Append(last, r)
       /\ base' = PoseAfter(r, base)
  /\ pose' = Cached(current, pose, plan.mode)
  /\ \E failed \in BOOLEAN : Go(failed)
  /\ UNCHANGED plan

Next == Precheck \/ PrecheckDone \/ RunRaises \/ RunWarning \/ RunSend

Spec == Init /\ [][Next]_vars

-----------------------------------------------------------------------------
(* Properties.                                                             *)

TypeOK ==
  /\ plan \in PlanType
  /\ \A k \in DOMAIN plan.order : plan.order[k] \in DOMAIN plan.acts
  /\ phase \in {"precheck", "run", "over"}
  /\ idx \in Nat \ {0}
  /\ pose \in Pose
  /\ last \in Seq(Raw)
  /\ base \in Pose

InBox(r) ==
  /\ r.x \in Envelope["xmin"]..Envelope["xmax"]
  /\ r.y \in Envelope["ymin"]..Envelope["ymax"]
  /\ r.z \in Envelope["zmin"]..Envelope["zmax"]
  /\ r.t \in Envelope["tmin"]..Envelope["tmax"]
  /\ r.spd \in Envelope["smin"]..Envelope["smax"]
  /\ r.x < Envelope["lowx"] => r.z <= Envelope["lowz"]

\* Within the limits of the reach up to one step, which is what rounding a scaled
\* goal can add: with the default limits (230, 0, 230) becomes (215.67, 0, 215.67),
\* 0.0034 mm too far.
InReach(r) ==
  LET s    == r.x * r.x + r.z * r.z
      near == IF Envelope["rmin"] = 0 THEN 0 ELSE Envelope["rmin"] - 1
      far  == Envelope["rmax"] + 1
  IN  s \in near * near .. far * far

\* A goal that was rounded onto the edge of the low ceiling from beyond it, and is
\* taken to be under it the next time.
OnEdge(r) == r.x = Envelope["lowx"] /\ r.z > Envelope["lowz"]

\* Made safe again, r moves by the rounding at most.
Steady(r) ==
  LET q == Sanitize(r, "clamp")
  IN  /\ q.x \in r.x - 1 .. r.x + 1 /\ q.z \in r.z - 1 .. r.z + 1
      /\ q.y = r.y /\ q.t = r.t /\ q.spd = r.spd

Moves == {k \in DOMAIN last : last[k].T = 104}

\* In clamp mode no goal leaves the box, whatever a chain of relative moves
\* and failures asks for, and the low ceiling holds for a drawn-in arm.
SentInBox == plan.mode = "clamp" => \A k \in Moves : InBox(last[k])

\* Nor does a goal leave the reach of the arm by more than the rounding, although
\* the last steps of the clamping (box, low ceiling, rounding) come after the reach
\* was imposed.
SentInReach == plan.mode = "clamp" => \A k \in Moves : InReach(last[k])

\* Nor is a goal that was made safe adjusted a second time by more than the rounding:
\* a move repeated, or a delta of nothing, does not let the arm creep or drop, except
\* from the edge of the low ceiling.
SafeIsStable ==
  plan.mode = "clamp" => \A k \in Moves : Steady(last[k]) \/ OnEdge(last[k])

\* Once something was sent, the cache is where the last command leaves the arm.
CacheIsLastGoal == last # <<>> => pose = base

\* arm_command_translator.py:33-34: delta commands are applied on top of the
\* previous target pose, the goal last sent or Home.
DeltaOnTop ==
  [][last' # last /\ current.op = "delta" =>
       last'[Len(last')] = Sanitize(Build(current, base), plan.mode)]_vars

-----------------------------------------------------------------------------
(* What a configuration must be like for some of them.                     *)

\* With one coordinate at its lower limit the other may be anywhere in the box.
FarFits(e) ==
  /\ e["xmin"] * e["xmin"] + e["zmax"] * e["zmax"] <= e["rmax"] * e["rmax"]
  /\ e["xmax"] * e["xmax"] + e["zmin"] * e["zmin"] <= e["rmax"] * e["rmax"]

\* The whole box is beyond the inner limit.
BoxBeyond(e) == e["xmin"] * e["xmin"] + e["zmin"] * e["zmin"] >= e["rmin"] * e["rmin"]

\* The inner limit is met on each axis, under the low ceiling as well.
RingIsMet(e) ==
  /\ 0 < e["xmin"] + e["zmin"]
  /\ e["rmin"] <= e["xmax"] /\ e["rmin"] <= e["zmax"] /\ e["rmin"] <= e["lowz"]

\* Limits that fit together: what the box and the ceiling do to a goal after its
\* reach was imposed does not undo the reach.
LimitsFit(e) == FarFits(e) /\ (BoxBeyond(e) \/ RingIsMet(e)) /\ e["smin"] >= 0

PlansFit == \A p \in Plans : LimitsFit(p.env)

\* A plan whose first command is not relative and is not passed over.
Anchored(p) ==
  p.order # <<>> =>
    LET a == p.acts[p.order[1]]
    IN  \/ a.op \in {"init", "xyz"}
        \/ a.op = "preset" /\ a.name \in DOMAIN Presets /\ Presets[a.name].T # 105

\* The precheck of the boards, which moves the cache, is made with real boards only.
PlansAnchored == \A p \in Plans : p.mock \/ Anchored(p)

\* Only with the safety checker off a command is sent that does not move the arm.
PlansSettle == \A p \in Plans : p.mock \/ Anchored(p) \/ p.mode # "off"
=============================================================================
