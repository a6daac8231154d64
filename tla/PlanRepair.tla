----------------------------- MODULE PlanRepair -----------------------------
(***************************************************************************)
(* From the text of the language model to a plan: agent/json_repair.py,    *)
(* chain/validator.py, the checks of schemas/timeline_script_schema.py and *)
(* the stand-in of providers/llm_provider.py for a model that is not       *)
(* there.                                                                  *)
(*                                                                         *)
(* A plan is the set of its actions' ids and the set of ids that its       *)
(* lighting entries wait for.  A text holds at most one JSON object (an    *)
(* object is its own first object, and in any other text only the first    *)
(* object counts), so a text is the payload that is found in it.           *)
(***************************************************************************)
EXTENDS Integers

CONSTANTS
  Ids,           \* ids of actions
  SafeTimeline,  \* ids of the validator's safe default
  MockTimeline,  \* ids of the stand-in's default script
  MockExtras     \* ids of the actions that a word in the prompt can add to it

ASSUME RepairAssumption ==
  /\ SafeTimeline \subseteq Ids /\ SafeTimeline # {}
  /\ MockTimeline \subseteq Ids /\ MockTimeline # {}
  /\ MockExtras \subseteq Ids

Fields == {"timeline", "lighting_plan"}

\* has: the fields that are there.  bad: no object at all, an unknown key, a
\* duplicate id or a field of the wrong form.  wraps: the keys like "plan"
\* around it.
Payloads == [has : SUBSET Fields, timeline : SUBSET Ids, lights : SUBSET Ids,
             bad : BOOLEAN, wraps : 0..2]

AnyPlan == [timeline : SUBSET Ids, lights : SUBSET Ids]
NoPlan  == [timeline |-> {}, lights |-> {}]

\* What both schedulers take for granted: there are actions, and a lighting
\* entry waits for actions of the same plan.
Plans == {p \in AnyPlan : p.timeline # {} /\ p.lights \subseteq p.timeline}

AsPayload(p) ==
  [has |-> Fields, timeline |-> p.timeline, lights |-> p.lights, bad |-> FALSE, wraps |-> 0]

Unwrap(t) == IF t.wraps > 0 THEN [t EXCEPT !.wraps = @ - 1] ELSE t

Partial(t) == "timeline" \notin t.has \/ t.wraps > 0

\* _merge_partial_payload: the fields of t over those of the plan base.
Merge(base, t) ==
  [t EXCEPT !.has      = Fields,
            !.timeline = IF "timeline" \in t.has THEN @ ELSE base.timeline,
            !.lights   = IF "lighting_plan" \in t.has THEN @ ELSE base.lights]

\* _normalize_payload: a field that is not there becomes the default, which is no
\* action and a light that waits for nothing.
Normalize(t) ==
  [timeline |-> IF "timeline" \in t.has THEN t.timeline ELSE {},
   lights   |-> IF "lighting_plan" \in t.has THEN t.lights ELSE {}]

\* BUG: the lights' start_after is not looked up.
Valid_AnyLights(t) == ~t.bad /\ t.wraps = 0

\* TimelineScript.model_validate.
Valid(t) == ~t.bad /\ t.wraps = 0 /\ Normalize(t).lights \subseteq Normalize(t).timeline

\* _clip_plan: a plan without actions gets those of the safe default.
Clip(p) == IF p.timeline = {} THEN [p EXCEPT !.timeline = SafeTimeline] ELSE p

\* _try_validate: the plan in the text, or NoPlan.
TryValidate(t, previous) ==
  LET object   == Unwrap(t)
      revision == previous # NoPlan
      merged   == Merge(previous, object)
      first    == IF revision /\ Partial(object) THEN merged ELSE object
  IN CASE Valid(first)                          -> Clip(Normalize(first))
       [] ~Valid(first) /\ revision /\ Valid(merged) -> Clip(Normalize(merged))
       [] OTHER                                 -> NoPlan

\* The end of repair_and_validate, when no text was usable.
Fallback(previous) ==
  IF previous # NoPlan THEN previous ELSE Clip(NoPlan)

\* _mock_response: the current plan of the prompt, or the default script, with
\* actions added for words of the user's text.  It looks for an action of the same
\* type only: an id that another action has is there twice.
MockBase(previous) ==
  IF previous # NoPlan THEN previous ELSE [NoPlan EXCEPT !.timeline = MockTimeline]

MockText(base, more, twice) ==
  [AsPayload([base EXCEPT !.timeline = @ \cup more]) EXCEPT !.bad = twice]

MockTexts(previous) ==
  LET base == MockBase(previous)
  IN UNION {{MockText(base, more, FALSE), MockText(base, more, more \cap base.timeline # {})} :
              more \in SUBSET MockExtras}

\* The same for the prompt of a repair, which has no user's text: the whole
\* prompt is searched, and it names checkpoint and follow_mode.
MockRepairs(previous) ==
  {t \in MockTexts(previous) : MockExtras \subseteq t.timeline}
=============================================================================
