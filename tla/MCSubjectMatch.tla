--------------------------- MODULE MCSubjectMatch ---------------------------
(* People, looks and frames for checking SubjectMatch.                     *)
EXTENDS SubjectMatch

AllPeople == {"star", "guest"}
AllLooks  == {"front", "side", "back", "coat"}

\* The star turns round in two steps; its back is no more like its front than the
\* guest's coat.
Likeness ==
  [a \in AllLooks |-> [b \in AllLooks |->
     IF a = b THEN 10000
     ELSE IF {a, b} \in {{"front", "side"}, {"side", "back"}} THEN 9500
     ELSE 5000]]

\* Places on a line across the frame.
Spots == {"left", "beside", "middle"}
At(s) == CASE s = "left" -> 2000 [] s = "beside" -> 2500 [] s = "middle" -> 5000
Apart == [s \in Spots |-> [t \in Spots |->
            IF At(s) < At(t) THEN At(t) - At(s) ELSE At(s) - At(t)]]

Person(look, at, conf) == [at |-> at, look |-> look, conf |-> conf]

\* The star alone, the guest alone, both with YOLO surer of the guest, and of the
\* star.
Stars  == {Person(l, a, 6000) : l \in {"front", "side", "back"}, a \in {"left", "middle"}}
Guests == {Person("coat", "beside", 9000)}

Scenes ==
  {[p \in {"star"} |-> s] : s \in Stars} \cup {[p \in {"guest"} |-> g] : g \in Guests}
  \cup {[star |-> s, guest |-> g] : s \in Stars, g \in Guests}
  \cup {[star |-> Person("front", "beside", 9000), guest |-> Person("coat", "left", 6000)]}

\* No image; one of the star; one of both people with the star in front, one
\* without anybody that YOLO finds, and a path that cannot be read.
Photos ==
  {<<>>,
   <<[people |-> {[look |-> "front", weight |-> 8]}, whole |-> "coat"]>>,
   <<[people |-> {[look |-> "side", weight |-> 8], [look |-> "coat", weight |-> 2]}, whole |-> "coat"],
     [people |-> {}, whole |-> "front"], Unreadable>>}

\* These numbers leave the room that the theorems of Vision_proofs ask for.
ASSUME RoomAssumption == TellsApart /\ Coherent /\ RoomForStrays
=============================================================================
