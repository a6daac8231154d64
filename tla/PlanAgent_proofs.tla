-------------------------- MODULE PlanAgent_proofs --------------------------
(***************************************************************************)
(* Theorems about PlanAgent, for any sessions, action ids and answers of   *)
(* the model: every plan the repair loop lets through is one the schedulers*)
(* can run, what is confirmed is what the user agreed to, and what is      *)
(* executed was saved and, from the command loop, reviewed.                *)
(***************************************************************************)
EXTENDS PlanAgent, TLAPS

-----------------------------------------------------------------------------
(* The repair loop.                                                        *)

LEMMA NoPlanIsNone == NoPlan \notin Plans /\ NoPlan \in AnyPlan
  BY DEF NoPlan, Plans, AnyPlan

LEMMA ClipValid ==
  ASSUME NEW t \in Payloads, Valid(t)
  PROVE  Clip(Normalize(t)) \in Plans
<1> DEFINE p == Normalize(t)
<1>1. p \in AnyPlan /\ p.lights \subseteq p.timeline
  BY DEF Payloads, Normalize, Valid, AnyPlan
<1>2. CASE p.timeline # {}
  BY <1>1, <1>2 DEF Clip, Plans
<1>3. CASE p.timeline = {}
  <2>1. Clip(p) = [timeline |-> SafeTimeline, lights |-> p.lights]
    BY <1>1, <1>3 DEF Clip, AnyPlan
  <2>2. p.lights = {}
    BY <1>1, <1>3
  <2> QED BY <2>1, <2>2, RepairAssumption DEF Plans, AnyPlan
<1> QED BY <1>2, <1>3

LEMMA UnwrapType == ASSUME NEW t \in Payloads PROVE Unwrap(t) \in Payloads
  BY DEF Unwrap, Payloads

LEMMA MergeType ==
  ASSUME NEW base \in AnyPlan, NEW t \in Payloads
  PROVE  Merge(base, t) \in Payloads
  BY DEF Merge, Payloads, AnyPlan, Fields

\* Whatever the text holds and whatever was there before, what _try_validate
\* returns is no plan or a plan with actions whose lights wait for its own actions.
THEOREM TryValidateSound ==
  ASSUME NEW t \in Payloads, NEW previous \in Plans \cup {NoPlan}
  PROVE  TryValidate(t, previous) \in Plans \cup {NoPlan}
<1> DEFINE object == Unwrap(t)
           revision == previous # NoPlan
           merged == Merge(previous, object)
           first  == IF revision /\ Partial(object) THEN merged ELSE object
<1>1. object \in Payloads BY UnwrapType
<1>2. previous \in AnyPlan BY NoPlanIsNone DEF Plans
<1>3. merged \in Payloads BY <1>1, <1>2, MergeType
<1>4. first \in Payloads BY <1>1, <1>3
<1>5. Valid(first) => Clip(Normalize(first)) \in Plans
  BY <1>4, ClipValid
<1>6. Valid(merged) => Clip(Normalize(merged)) \in Plans
  BY <1>3, ClipValid
<1>7. TryValidate(t, previous) =
        CASE Valid(first) -> Clip(Normalize(first))
          [] ~Valid(first) /\ revision /\ Valid(merged) -> Clip(Normalize(merged))
          [] OTHER -> NoPlan
  BY DEF TryValidate
<1> HIDE DEF object, merged, first, revision
<1> QED BY <1>5, <1>6, <1>7

LEMMA FallbackSound ==
  ASSUME NEW previous \in Plans \cup {NoPlan} PROVE Fallback(previous) \in Plans
<1>1. CASE previous = NoPlan
  <2>1. Clip(NoPlan) = [timeline |-> SafeTimeline, lights |-> {}]
    BY DEF Clip, NoPlan
  <2> QED BY <1>1, <2>1, RepairAssumption DEF Fallback, Plans, AnyPlan
<1>2. CASE previous # NoPlan
  BY <1>2 DEF Fallback
<1> QED BY <1>1, <1>2

LEMMA MockType ==
  ASSUME NEW previous \in Plans \cup {NoPlan}
  PROVE  MockTexts(previous) \subseteq Payloads /\ MockRepairs(previous) \subseteq Payloads
<1> DEFINE base == MockBase(previous)
<1>1. base \in AnyPlan
  BY RepairAssumption, NoPlanIsNone DEF MockBase, Plans, AnyPlan, NoPlan
<1>2. ASSUME NEW more \in SUBSET MockExtras, NEW twice \in BOOLEAN
      PROVE  MockText(base, more, twice) \in Payloads
  <2>1. [base EXCEPT !.timeline = @ \cup more] \in AnyPlan
    BY <1>1, RepairAssumption DEF AnyPlan
  <2> QED BY <2>1 DEF MockText, AsPayload, Payloads, AnyPlan, Fields
<1>3. MockTexts(previous) \subseteq Payloads
  <2> SUFFICES ASSUME NEW t \in MockTexts(previous) PROVE t \in Payloads
    OBVIOUS
  <2>1. PICK more \in SUBSET MockExtras :
          t \in {MockText(base, more, FALSE), MockText(base, more, more \cap base.timeline # {})}
    BY DEF MockTexts
  <2>2. MockText(base, more, FALSE) \in Payloads
    BY <1>2
  <2>3. MockText(base, more, more \cap base.timeline # {}) \in Payloads
    BY <1>2
  <2> QED BY <2>1, <2>2, <2>3
<1> QED BY <1>3 DEF MockRepairs

-----------------------------------------------------------------------------
(* The inductive invariant.                                                *)

Saving == {"meta", "planfile", "review", "log"}

\* A confirmed session has the plan that was agreed to, and no session is
\* confirmed while its plan is being made.
ConfirmOK ==
  /\ \A s \in Sessions : confirmed[s] => plan[s] # NoPlan /\ plan[s] = agreed[s]
  /\ pc \in {"plan", "validate", "repair", "revalidate"} => ~confirmed[at] /\ then = "reply"
  /\ then = "execute" => pc \in Saving \cup {"execute"} /\ confirmed[at]
  /\ pc = "execute" => then = "execute"

\* What the save in progress has written.
SaveOK ==
  /\ pc # "idle" => at \in Sessions
  /\ pc \in {"planfile", "review", "log", "execute"} => files[at].confirmed = confirmed[at]
  /\ pc \in {"review", "log", "execute"} => files[at].plan = plan[at]
  /\ pc \in {"log", "execute"} => files[at].review = plan[at]

\* With the command loop every plan was shown but the one that is being made.
ShownOK ==
  caller = "cli" =>
    /\ \A s \in Sessions : pc = "idle" \/ s # at => plan[s] = shown[s]
    /\ pc # "idle" /\ then # "reply" => plan[at] = shown[at]

IInv == TypeOK /\ ConfirmOK /\ SaveOK /\ ShownOK

LEMMA InitIInv == Init => IInv
<1> SUFFICES ASSUME Init PROVE IInv
  OBVIOUS
<1> USE DEF Init
<1>1. NoText \in Payloads
  BY DEF NoText, AsPayload, NoPlan, Payloads, Fields
<1>2. TypeOK
  BY <1>1, AgentAssumption DEF TypeOK, NoFiles
<1>3. ConfirmOK /\ SaveOK /\ ShownOK
  BY DEF ConfirmOK, SaveOK, ShownOK, Saving
<1> QED BY <1>2, <1>3 DEF IInv

LEMMA NoTextType == NoText \in Payloads
  BY DEF NoText, AsPayload, NoPlan, Payloads, Fields

\* A call is begun.
LEMMA CallsIInv ==
  ASSUME IInv, NEW s \in Sessions,
         Create(s) \/ SendMessage(s) \/ ReviewPlan(s) \/ ConfirmPlan(s) \/ UnconfirmPlan(s)
  PROVE  IInv'
<1> USE DEF IInv
<1>1. TypeOK'
  BY DEF TypeOK, Create, SendMessage, ReviewPlan, ConfirmPlan, UnconfirmPlan, Ready, memory, history
<1>2. ConfirmOK'
  BY DEF TypeOK, ConfirmOK, Saving, Create, SendMessage, ReviewPlan, ConfirmPlan, UnconfirmPlan,
         Ready, memory, history
<1>3. SaveOK'
  BY DEF TypeOK, SaveOK, Create, SendMessage, ReviewPlan, ConfirmPlan, UnconfirmPlan,
         Ready, memory, history
<1>4. ShownOK'
  BY DEF TypeOK, ShownOK, Create, SendMessage, ReviewPlan, ConfirmPlan, UnconfirmPlan,
         Ready, memory, history
<1> QED BY <1>1, <1>2, <1>3, <1>4

\* A plan is taken over.
LEMMA UpdateIInv ==
  ASSUME IInv, NEW p \in Plans, UpdatePlan(p),
         pc \in {"validate", "repair", "revalidate"}
  PROVE  IInv'
<1> USE NoPlanIsNone DEF IInv, UpdatePlan, history
<1>1. TypeOK'
  BY NoTextType DEF TypeOK
<1>2. ConfirmOK'
  BY DEF TypeOK, ConfirmOK, SaveOK, Saving
<1>3. SaveOK'
  BY DEF TypeOK, SaveOK
<1>4. ShownOK'
  BY DEF TypeOK, ShownOK, SaveOK, ConfirmOK
<1> QED BY <1>1, <1>2, <1>3, <1>4

\* The model is asked, and what it says is looked at.
LEMMA PlanningIInv ==
  ASSUME IInv,
         PlannerAnswers \/ PlannerMocks \/ AcceptText \/ RejectText \/ RepairAnswers \/ FallBack
  PROVE  IInv'
<1>1. pc # "idle" => at \in Sessions /\ plan[at] \in Plans \cup {NoPlan}
  BY DEF IInv, SaveOK, TypeOK
<1>2. CASE AcceptText
  <2>1. TryValidate(text, plan[at]) \in Plans
    BY <1>1, <1>2, TryValidateSound DEF IInv, TypeOK, AcceptText
  <2> QED BY <1>2, <2>1, UpdateIInv DEF AcceptText
<1>3. CASE FallBack
  <2>1. Fallback(plan[at]) \in Plans
    BY <1>1, <1>3, FallbackSound DEF FallBack
  <2> QED BY <1>3, <2>1, UpdateIInv DEF FallBack
<1>4. CASE PlannerAnswers \/ PlannerMocks \/ RejectText \/ RepairAnswers
  <2> USE DEF IInv, memory, history
  <2>1. text' \in Payloads
    BY <1>1, <1>4, MockType, NoTextType, AgentAssumption
       DEF PlannerAnswers, PlannerMocks, RejectText, RepairAnswers
  <2>2. TypeOK'
    BY <1>4, <2>1, AgentAssumption DEF TypeOK, PlannerAnswers, PlannerMocks, RejectText, RepairAnswers
  <2>3. ConfirmOK' /\ SaveOK' /\ ShownOK'
    BY <1>4 DEF ConfirmOK, SaveOK, ShownOK, Saving, PlannerAnswers, PlannerMocks, RejectText, RepairAnswers
  <2> QED BY <2>2, <2>3
<1> QED BY <1>2, <1>3, <1>4

\* The session is saved, and executed.
LEMMA SavingIInv ==
  ASSUME IInv, SaveMetadata \/ SavePlan \/ SaveReview \/ SaveLog \/ Execute
  PROVE  IInv'
<1> USE DEF IInv, memory, history
<1>0. at \in Sessions
  BY DEF SaveOK, SaveMetadata, SavePlan, SaveReview, SaveLog, Execute
<1>1. CASE SaveMetadata
  <2> USE <1>0, <1>1 DEF SaveMetadata
  <2>1. TypeOK'
    BY DEF TypeOK
  <2>2. ConfirmOK'
    BY DEF ConfirmOK, Saving
  <2>3. SaveOK'
    BY DEF TypeOK, SaveOK
  <2>4. ShownOK'
    BY DEF ShownOK
  <2> QED BY <2>1, <2>2, <2>3, <2>4
<1>2. CASE SavePlan
  <2> USE <1>0, <1>2 DEF SavePlan
  <2>1. TypeOK'
    BY DEF TypeOK
  <2>2. ConfirmOK'
    BY DEF ConfirmOK, Saving
  <2>3. SaveOK'
    BY DEF TypeOK, SaveOK
  <2>4. ShownOK'
    BY DEF ShownOK
  <2> QED BY <2>1, <2>2, <2>3, <2>4
<1>3. CASE SaveReview
  BY <1>0, <1>3 DEF TypeOK, ConfirmOK, SaveOK, ShownOK, Saving, SaveReview
<1>4. CASE SaveLog
  BY <1>0, <1>4 DEF TypeOK, ConfirmOK, SaveOK, ShownOK, Saving, SaveLog, Quiet
<1>5. CASE Execute
  BY <1>0, <1>5 DEF TypeOK, ConfirmOK, SaveOK, ShownOK, Saving, Execute
<1> QED BY <1>1, <1>2, <1>3, <1>4, <1>5

\* A call raises, or the process dies.
LEMMA FailingIInv ==
  ASSUME IInv, PlannerRaises \/ SaveFails \/ ExecuteRaises \/ Die
  PROVE  IInv'
<1> USE DEF IInv, memory, history
<1>0. ASSUME CutShort
      PROVE  files' \in [Sessions -> [confirmed : BOOLEAN, plan : Plans \cup {NoPlan},
                                       review : Plans \cup {NoPlan}]]
  <2>1. pc # "idle" => at \in Sessions
    BY DEF SaveOK
  <2>2. files \in [Sessions -> [confirmed : BOOLEAN, plan : Plans \cup {NoPlan},
                                 review : Plans \cup {NoPlan}]]
    BY DEF TypeOK
  <2>3. CASE pc = "meta" /\ files' = [files EXCEPT ![at].confirmed = FALSE]
    BY <2>1, <2>2, <2>3
  <2>4. CASE pc = "planfile" /\ files' = [files EXCEPT ![at].plan = NoPlan]
    BY <2>1, <2>2, <2>4
  <2>5. CASE pc = "review" /\ files' = [files EXCEPT ![at].review = NoPlan]
    BY <2>1, <2>2, <2>5
  <2> QED BY <1>0, <2>2, <2>3, <2>4, <2>5 DEF CutShort
<1>1. CASE PlannerRaises
  BY <1>1 DEF TypeOK, ConfirmOK, SaveOK, ShownOK, Saving, PlannerRaises, Raise
<1>2. CASE SaveFails
  BY <1>0, <1>2 DEF TypeOK, ConfirmOK, SaveOK, ShownOK, Saving, SaveFails, Raise
<1>3. CASE ExecuteRaises
  BY <1>3 DEF TypeOK, ConfirmOK, SaveOK, ShownOK, Saving, ExecuteRaises, Raise
<1>4. CASE Die
  BY <1>0, <1>4, NoTextType DEF TypeOK, ConfirmOK, SaveOK, ShownOK, Saving, Die
<1> QED BY <1>1, <1>2, <1>3, <1>4

LEMMA NextIInv == IInv /\ [Next]_vars => IInv'
<1> SUFFICES ASSUME IInv, [Next]_vars PROVE IInv'
  OBVIOUS
<1>1. CASE UNCHANGED vars
  BY <1>1 DEF vars, memory, history, IInv, TypeOK, ConfirmOK, SaveOK, ShownOK
<1>2. CASE Next
  BY <1>2, CallsIInv, PlanningIInv, SavingIInv, FailingIInv DEF Next
<1> QED BY <1>1, <1>2

-----------------------------------------------------------------------------
(* The theorems.                                                           *)

\* The invariant holds in every reachable state of the agent.
THEOREM AgentInvariance == Spec => []IInv
  BY InitIInv, NextIInv, PTL DEF Spec

\* Every reachable state is well typed; in particular every current plan has
\* actions and lights that wait for its own actions (json_repair.py, validator.py).
THEOREM AgentTypeCorrect == Spec => []TypeOK
<1>1. IInv => TypeOK
  BY DEF IInv
<1> QED BY <1>1, AgentInvariance, PTL

\* A confirmation is of the plan that was current when the user confirmed
\* (service.py send_message, confirm_plan).
THEOREM ConfirmationIsOfPlanHolds == Spec => []ConfirmationIsOfPlan
<1>1. IInv => ConfirmationIsOfPlan
  BY DEF IInv, ConfirmOK, ConfirmationIsOfPlan
<1> QED BY <1>1, AgentInvariance, PTL

\* What is executed is on disk (log_store.py save before the executor is called).
THEOREM SavedBeforeRunHolds == Spec => []SavedBeforeRun
<1>1. IInv => SavedBeforeRun
  BY DEF IInv, TypeOK, ConfirmOK, SaveOK, SavedBeforeRun
<1> QED BY <1>1, AgentInvariance, PTL

\* What the command loop executes is the plan whose review it printed last.
THEOREM RunWasReviewedHolds == Spec => []RunWasReviewed
<1>1. IInv => RunWasReviewed
  BY DEF IInv, ConfirmOK, ShownOK, RunWasReviewed
<1> QED BY <1>1, AgentInvariance, PTL
=============================================================================
