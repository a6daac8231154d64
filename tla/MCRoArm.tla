------------------------------- MODULE MCRoArm -------------------------------
(* RoArm as TLC checks it.                                                 *)
EXTENDS RoArm

\* At 5 cm/s a centimetre takes min_steps, at 1 cm/s twice as many; the diagonal
\* is longer than each of its axes, and two centimetres up and down are nothing.
Increments ==
  {[by |-> DirectionDelta("up", 1), speed |-> 250],
   [by |-> DirectionDelta("back", 1), speed |-> 50],
   [by |-> ComboDelta([front |-> 1, back |-> 0, left |-> 0, right |-> 1,
                       up |-> 0, down |-> 1]), speed |-> 100],
   [by |-> ComboDelta([front |-> 0, back |-> 0, left |-> 0, right |-> 0,
                       up |-> 2, down |-> 2]), speed |-> 50]}

Raised == {[z |-> 20100]}

DefaultPose == [x |-> 15000, y |-> 0, z |-> 20000]
HomePose    == [x |-> 31000, y |-> 0, z |-> 23000]
ParkedPose  == [x |-> 12000, y |-> -4000, z |-> 9000]
=============================================================================
