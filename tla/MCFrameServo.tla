---------------------------- MODULE MCFrameServo ----------------------------
(* Boxes and bounds for checking FrameServo.                               *)
EXTENDS FrameServo

\* FrameTolerance and the expected box that compute_error falls back to.
DefaultTolerance == [cx |-> 50, cy |-> 50, w |-> 80, h |-> 100]
DefaultExpected  == [cx |-> 500, cy |-> 520, w |-> 350, h |-> 650, area |-> 227500]

BoxOf(cx, cy, w, h) == [cx |-> cx, cy |-> cy, w |-> w, h |-> h, area |-> w * h]

\* A subject off its place by up to a quarter of the frame in each direction,
\* with the proportions of the expected box or somewhat taller or flatter.
SomeBoxes ==
  {BoxOf(500 + x, 520 + y, 350 + d, InFrame(((350 + d) * a) \div 350, 20)) :
     x \in {-250, -120, -45, 0, 51, 190}, y \in {-250, -51, 0, 30, 110},
     d \in {-200, -81, -20, 0, 85, 200}, a \in {500, 650, 780}}

\* From what the stand-in takes off, the weakest answer the repository supposes, over
\* the half, the ideal one, to as much too strong.
SomeResponses == {45, 50, 100, 155}

\* The theorems about FrameServo apply to this instance.
ASSUME ServoAssumption == WideTolerance /\ MildAnswers /\ Weakest >= 9
=============================================================================
