----------------------------- MODULE FrameServo -----------------------------
(***************************************************************************)
(* The two rule-based controllers that bring the subject to its place in   *)
(* the frame, one small correction per look:                               *)
(*   "planner"  runtime/checkpoint_correction_planner.py, in the loop of   *)
(*              TimelineScheduler._run_checkpoint                          *)
(*   "servo"    runtime/visual_servo_controller.py with FrameEvaluator, in *)
(*              ScriptExecutor._run_visual_servo_loop, with the gains that *)
(*              ScriptExecutor._frame_with_servo gives it                  *)
(* The camera that looks again after a correction is a real one, or, for   *)
(* the servo, the repository's stand-in MockVisionDetector.  A real one is *)
(* the environment: it answers a correction more or less strongly than the *)
(* gains suppose, never loses the subject here, and the directions are     *)
(* those of the repository's own examples: a positive distance drives      *)
(* forward, a positive angle turns left, a positive delta_cm raises the    *)
(* camera.  The loop's deadline does not pass.                             *)
(*                                                                         *)
(* A box is in thousandths of the frame, an area in millionths.  Planner:  *)
(* depth in 0.01 mm, angles in 0.001 degree, lift in 0.001 cm; servo: depth*)
(* in 0.0001 mm, the rest alike.  All the products of the code are exact   *)
(* in these units.                                                         *)
(***************************************************************************)
EXTENDS Integers

CONSTANTS
  Tolerance,   \* [cx, cy, w, h |-> ...]
  Expected,    \* the expected box
  Boxes,       \* the boxes a real camera may see first
  Controllers, \* subset of {"planner", "servo"}
  Cameras,     \* subset of {"real", "standin"}
  MaxIters,    \* servo.max_iters
  Responses,   \* how strongly a real camera answers, in percent of the ideal
  Weakest      \* the weakest of these answers

Box     == [cx : Int, cy : Int, w : Int, h : Int, area : Int]
Command == [kind : {"none", "depth", "rotate", "lift"}, by : Int]
Nothing == [kind |-> "none", by |-> 0]

ASSUME FrameAssumption ==
  /\ Tolerance \in [cx : Nat, cy : Nat, w : Nat, h : Nat]
  /\ Expected \in Box
  /\ Expected.cx \in 0..1000 /\ Expected.cy \in 0..1000 /\ Expected.w \in 20..1000
  /\ Boxes \subseteq Box /\ \A d \in Boxes : d.w > 0 /\ d.area = d.w * d.h
  /\ Controllers \subseteq {"planner", "servo"}
  /\ Cameras \subseteq {"real", "standin"}
  /\ MaxIters \in Nat
  /\ Responses \subseteq Nat /\ Weakest \in 0..100

VARIABLES
  ctl,     \* which controller, fixed
  camera,  \* which camera, fixed
  first,   \* history: the box first seen
  seen,    \* the box detected last
  iter,    \* iterations begun
  status,  \* "look", "ok", "nocommand", "exhausted"
  cmd      \* the last correction

servoVars == <<ctl, camera, first, seen, iter, status, cmd>>

Abs(n) == IF n < 0 THEN -n ELSE n
Clamp(v, limit) == IF v > limit THEN limit ELSE IF v < -limit THEN -limit ELSE v

Err(d) == [cx |-> d.cx - Expected.cx, cy |-> d.cy - Expected.cy,
           w |-> d.w - Expected.w, h |-> d.h - Expected.h,
           area |-> d.area - Expected.w * Expected.h]

-----------------------------------------------------------------------------
(* The planner of the scheduler.                                           *)

PlannerSatisfied(e) ==
  /\ Abs(e.cx) <= Tolerance.cx /\ Abs(e.cy) <= Tolerance.cy
  /\ Abs(e.w) <= Tolerance.w /\ Abs(e.h) <= Tolerance.h

\* BUG: a target that is too large makes the car drive forward.
PlannerDepth_Sign(e) == Clamp(45 * e.w, 6000)

\* BUG: the largest turn is half a degree.
PlannerRotate_Slow(e) == Clamp(-25 * e.cx, 500)

\* Gains 0.45 m, 25 degrees and 18 cm per frame; steps are cut off, and below
\* a smallest step there is none.
PlannerDepth(e)  == Clamp(-45 * e.w, 6000)
PlannerRotate(e) == Clamp(-25 * e.cx, 5000)
PlannerLift(e)   == Clamp(18 * e.cy, 2000)

\* BUG: no command for a step smaller than 5 cm, and then none at all.
PlannerCommand_WidthOnly(e) ==
  IF Abs(e.w) > Tolerance.w
  THEN IF Abs(PlannerDepth(e)) >= 5000 THEN [kind |-> "depth", by |-> PlannerDepth(e)] ELSE Nothing
  ELSE IF Abs(e.cx) > Tolerance.cx /\ Abs(PlannerRotate(e)) >= 500
  THEN [kind |-> "rotate", by |-> PlannerRotate(e)]
  ELSE IF Abs(e.cy) > Tolerance.cy /\ Abs(PlannerLift(e)) >= 200
  THEN [kind |-> "lift", by |-> PlannerLift(e)]
  ELSE Nothing

\* make_correction_commands: depth before rotation before lift, one command.
PlannerCommand(e) ==
  IF Abs(e.w) > Tolerance.w /\ Abs(PlannerDepth(e)) >= 500
  THEN [kind |-> "depth", by |-> PlannerDepth(e)]
  ELSE IF Abs(e.cx) > Tolerance.cx /\ Abs(PlannerRotate(e)) >= 500
  THEN [kind |-> "rotate", by |-> PlannerRotate(e)]
  ELSE IF Abs(e.cy) > Tolerance.cy /\ Abs(PlannerLift(e)) >= 200
  THEN [kind |-> "lift", by |-> PlannerLift(e)]
  ELSE Nothing

-----------------------------------------------------------------------------
(* FrameEvaluator and VisualServoController.                               *)

AreaTolerance == LET a == Tolerance.w * Tolerance.h IN IF a > 10000 THEN a ELSE 10000

ServoSatisfied(e) ==
  /\ Abs(e.cx) <= Tolerance.cx /\ Abs(e.cy) <= Tolerance.cy
  /\ Abs(e.area) <= AreaTolerance

\* Gains 0.30 m per frame area, -12 degrees and -6 cm per frame, signs +1.
ServoDepth(e)  == Clamp(3 * e.area, 500000)
ServoRotate(e) == Clamp(-12 * e.cx, 3000)
ServoLift(e)   == Clamp(-6 * e.cy, 1000)

\* make_next_correction.
ServoCommand(e) ==
  IF Abs(e.area) > AreaTolerance /\ Abs(ServoDepth(e)) > 1000
  THEN [kind |-> "depth", by |-> ServoDepth(e)]
  ELSE IF Abs(e.cx) > Tolerance.cx /\ Abs(ServoRotate(e)) > 50
  THEN [kind |-> "rotate", by |-> ServoRotate(e)]
  ELSE IF Abs(e.cy) > Tolerance.cy /\ Abs(ServoLift(e)) > 50
  THEN [kind |-> "lift", by |-> ServoLift(e)]
  ELSE Nothing

-----------------------------------------------------------------------------
(* The loop.                                                               *)

Satisfied(d) == IF ctl = "planner" THEN PlannerSatisfied(Err(d)) ELSE ServoSatisfied(Err(d))
Proposed(d)  == IF ctl = "planner" THEN PlannerCommand(Err(d)) ELSE ServoCommand(Err(d))

\* Cut off at the edges of the frame.
InFrame(v, least) == IF v < least THEN least ELSE IF v > 1000 THEN 1000 ELSE v

\* What c shifts in the image when the camera answers with r percent of the ideal,
\* which is the whole error for one gain of the planner.
Shift(c, r) ==
  CASE c.kind = "depth"  -> (r * c.by) \div (IF ctl = "planner" THEN 4500 ELSE 450000)
    [] c.kind = "rotate" -> (r * c.by) \div 2500
    [] c.kind = "lift"   -> (r * c.by) \div 1800
    [] OTHER             -> 0

\* A real camera: a drive forward enlarges the subject, a turn to the left shifts it
\* to the right, and a camera that is raised sees it lower in the frame.  Fewer than
\* 20 thousandths are not detected.
Answer(d, c, r) ==
  CASE c.kind = "depth"  ->
         LET w == InFrame(d.w + Shift(c, r), 20)
             h == InFrame((d.h * w) \div d.w, 20)
         IN  [d EXCEPT !.w = w, !.h = h, !.area = w * h]
    [] c.kind = "rotate" -> [d EXCEPT !.cx = InFrame(@ + Shift(c, r), 0)]
    [] c.kind = "lift"   -> [d EXCEPT !.cy = InFrame(@ + Shift(c, r), 0)]
    [] OTHER             -> d

\* MockVisionDetector, of which the servo reads centre and area: a first box that is
\* off by initial_offset, ...
OffsetX == 120
OffsetY == 80
OffsetArea == 60000

StandinFirst ==
  LET area == Expected.w * Expected.h - OffsetArea
  IN  [Expected EXCEPT !.cx = InFrame(@ - OffsetX, 0), !.cy = InFrame(@ + OffsetY, 0),
                       !.area = IF area < 10000 THEN 10000 ELSE area]

\* ... and a correction of any size takes correction_alpha of the error it is for.
Closer(v, wanted) == v + (45 * (wanted - v)) \div 100

StandinAnswer(d, c) ==
  CASE c.kind = "depth"  -> [d EXCEPT !.area = Closer(@, Expected.w * Expected.h)]
    [] c.kind = "rotate" -> [d EXCEPT !.cx = Closer(@, Expected.cx)]
    [] c.kind = "lift"   -> [d EXCEPT !.cy = Closer(@, Expected.cy)]
    [] OTHER             -> d

ServoInit ==
  /\ ctl \in Controllers
  /\ camera \in Cameras /\ (camera = "standin" => ctl = "servo")
  /\ IF camera = "standin" THEN seen = StandinFirst ELSE seen \in Boxes
  /\ first = seen
  /\ iter = 0 /\ status = "look" /\ cmd = Nothing

Accept ==
  /\ status = "look" /\ iter < MaxIters
  /\ Satisfied(seen)
  /\ status' = "ok" /\ iter' = iter + 1
  /\ UNCHANGED <<ctl, camera, first, seen, cmd>>

GiveUp ==
  /\ status = "look" /\ iter < MaxIters
  /\ ~Satisfied(seen) /\ Proposed(seen) = Nothing
  /\ status' = "nocommand" /\ iter' = iter + 1
  /\ UNCHANGED <<ctl, camera, first, seen, cmd>>

Correct ==
  /\ status = "look" /\ iter < MaxIters
  /\ ~Satisfied(seen) /\ Proposed(seen) # Nothing
  /\ cmd' = Proposed(seen)
  /\ IF camera = "standin" THEN seen' = StandinAnswer(seen, cmd')
     ELSE \E r \in Responses : seen' = Answer(seen, cmd', r)
  /\ iter' = iter + 1
  /\ UNCHANGED <<ctl, camera, first, status>>

Exhaust ==
  /\ status = "look" /\ iter = MaxIters
  /\ status' = "exhausted"
  /\ UNCHANGED <<ctl, camera, first, seen, iter, cmd>>

ServoNext == Accept \/ GiveUp \/ Correct \/ Exhaust

ServoSpec == ServoInit /\ [][ServoNext]_servoVars

-----------------------------------------------------------------------------
(* What some of the properties need of a configuration.                    *)

\* The smallest steps of the controllers meet the tolerance.
WideTolerance == Tolerance.w >= 11 /\ Tolerance.cx >= 19 /\ Tolerance.cy >= 11

\* No answer is weaker than Weakest, and none is so strong that it leaves more of an
\* error on the other side.
MildAnswers == Responses \subseteq Weakest..(200 - Weakest)

\* How many corrections an error takes at the most when each takes off at least share
\* percent of it, or of cap where the step is cut off.
LooksFor(tol, cap, share) ==
  LET looks[n \in Nat] ==
        IF n <= tol THEN 0
        ELSE 1 + looks[n - (share * (IF n > cap THEN cap ELSE n)) \div 100]
  IN  looks

\* Known where every correction helps: the stand-in, and the planner as long as the
\* lift is not needed.
Coverable(d) == camera = "standin" \/ (ctl = "planner" /\ Abs(Err(d).cy) <= Tolerance.cy)

LooksNeeded(d) ==
  LET e == Err(d)
  IN  IF camera = "standin"
      THEN LooksFor(AreaTolerance, OffsetArea, 45)[Abs(e.area)] + LooksFor(Tolerance.cx, OffsetX, 45)[Abs(e.cx)]
             + LooksFor(Tolerance.cy, OffsetY, 45)[Abs(e.cy)]
      ELSE LooksFor(Tolerance.w, 133, Weakest)[Abs(e.w)] + LooksFor(Tolerance.cx, 200, Weakest)[Abs(e.cx)]

-----------------------------------------------------------------------------
(* Properties.                                                             *)

ServoTypeOK ==
  /\ ctl \in Controllers /\ camera \in Cameras
  /\ first \in Box /\ seen \in Box
  /\ iter \in 0..MaxIters
  /\ status \in {"look", "ok", "nocommand", "exhausted"}
  /\ cmd \in Command

\* A loop is given up, with the base and the lift allowed, only for an error for
\* which there is no command, the height of the box in the planner's view;
\* everything else that is out of tolerance is worked on.
OnlyHeightGivenUp ==
  status = "nocommand" =>
    LET e == Err(seen)
    IN  /\ ctl = "planner"
        /\ Abs(e.cx) <= Tolerance.cx /\ Abs(e.cy) <= Tolerance.cy /\ Abs(e.w) <= Tolerance.w
        /\ Abs(e.h) > Tolerance.h

\* A correction takes off the error it is for at least what the weakest answer of the
\* camera gives, and never leaves more on the other side: every turn, the depth of
\* the planner, the lift of the servo, and all three before the stand-in.  The depth
\* of the servo and the lift of the planner go the wrong way, see below.
CorrectionHelps ==
  [][status' = "look" =>
       LET e == Err(seen)
           f == Err(seen')
           least == Shift([cmd' EXCEPT !.by = Abs(@)], Weakest)
       IN  IF camera = "standin"
           THEN /\ cmd'.kind = "rotate" => Abs(f.cx) + (45 * Abs(e.cx)) \div 100 <= Abs(e.cx)
                /\ cmd'.kind = "lift" => Abs(f.cy) + (45 * Abs(e.cy)) \div 100 <= Abs(e.cy)
                /\ cmd'.kind = "depth" => Abs(f.area) + (45 * Abs(e.area)) \div 100 <= Abs(e.area)
           ELSE /\ cmd'.kind = "rotate" => Abs(f.cx) + least <= Abs(e.cx)
                /\ cmd'.kind = "lift" /\ ctl = "servo" => Abs(f.cy) + least <= Abs(e.cy)
                /\ cmd'.kind = "depth" /\ ctl = "planner" => Abs(f.w) + least <= Abs(e.w)]_servoVars

\* The iterations run out only when the box first seen needs more looks than there
\* are, or something has to be corrected that goes the wrong way.
BudgetSuffices == status = "exhausted" /\ Coverable(first) => LooksNeeded(first) >= MaxIters

\* checkpoint_correction_planner.py:125, :168: "Fix scale/depth first", "Fix vertical
\* framing by lift"; visual_servo_controller.py:42: "Distance/size correction first".
\* Before a real camera no lift and no drive of either controller makes the error larger
\* that it is to correct.
FixesHelp ==
  [][status' = "look" /\ camera = "real" =>
       /\ cmd'.kind = "lift" => Abs(Err(seen').cy) <= Abs(Err(seen).cy)
       /\ cmd'.kind = "depth" => IF ctl = "planner" THEN Abs(Err(seen').w) <= Abs(Err(seen).w)
                                ELSE Abs(Err(seen').area) <= Abs(Err(seen).area)]_servoVars
=============================================================================
