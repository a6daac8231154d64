----------------------------- MODULE MCPlanAgent -----------------------------
(* Bounds for checking PlanAgent: three ids of actions, and the answers of a *)
(* live model that PlanRepair treats differently.                            *)
EXTENDS PlanAgent, TLC

\* The sessions are not told apart.
AnySession == Permutations(Sessions)

Text(has, timeline, lights) ==
  [has |-> has, timeline |-> timeline, lights |-> lights, bad |-> FALSE, wraps |-> 0]

NoObject    == [Text({}, {}, {}) EXCEPT !.bad = TRUE]
Complete    == Text(Fields, {"a1", "b1"}, {"a1"})
NoLights    == Text({"timeline"}, {"b1"}, {})
NoActions   == Text(Fields, {}, {})
OnlyLights  == Text({"lighting_plan"}, {}, {"b1"})
Dangling    == Text(Fields, {"b1"}, {"a1"})
Wrapped     == [Complete EXCEPT !.wraps = 1]
WrappedPart == [OnlyLights EXCEPT !.wraps = 1]
WrappedMore == [Complete EXCEPT !.wraps = 2]

SomeTexts ==
  {NoObject, Complete, NoLights, NoActions, OnlyLights, Dangling, Wrapped,
   WrappedPart, WrappedMore}
=============================================================================
