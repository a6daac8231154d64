------------------------------ MODULE MCVision ------------------------------
(***************************************************************************)
(* The vision of a checkpoint in one run: whom its looks are about, and    *)
(* where its corrections lead.  The two models share no state, so that     *)
(* what one of them does while the other one rests is all it can do; a     *)
(* behaviour of the run is a behaviour of one of them.                     *)
(***************************************************************************)
EXTENDS MCFrameServo, MCSubjectMatch

VARIABLE part \* the model that moves

SubjectRests == fresh = NoTemplate /\ Start
ServoRests   == camera = "standin" /\ ServoInit

VisionInit ==
  \/ part = "servo" /\ ServoInit /\ SubjectRests
  \/ part = "subject" /\ Init /\ ServoRests

VisionNext ==
  \/ part = "servo" /\ ServoNext /\ UNCHANGED <<vars, part>>
  \/ part = "subject" /\ Next /\ UNCHANGED <<servoVars, part>>

VisionSpec == VisionInit /\ [][VisionNext]_<<vars, servoVars, part>>
=============================================================================
