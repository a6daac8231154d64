------------------------------ MODULE PlanAgent ------------------------------
(***************************************************************************)
(* agent/service.py (PlanAgentService), agent/log_store.py and the two     *)
(* callers they have: the command loop of app.py ("cli") and a program that*)
(* calls the service's methods ("api").  A review is the plan it renders.  *)
(* The language model may fail or answer with anything PlanRepair.tla      *)
(* knows, the disk and the executor may fail at every call.                *)
(*                                                                         *)
(* One call runs at a time.  save() writes four files one after the other, *)
(* so a call is a sequence of steps; the process may die between two.      *)
(***************************************************************************)
EXTENDS PlanRepair

CONSTANTS
  Sessions,     \* session ids
  MaxReplies,   \* times the language model is asked for a plan
  LiveTexts,    \* what a live model may answer
  Callers       \* subset of {"cli", "api"}

NoFiles == [confirmed |-> FALSE, plan |-> NoPlan, review |-> NoPlan]
NoOne   == "none"

ASSUME AgentAssumption ==
  MaxReplies \in Nat /\ LiveTexts \subseteq Payloads /\ Callers \subseteq {"cli", "api"}

VARIABLES
  caller,    \* "cli", "api", or "gone" once the program has ended
  mock,      \* should_use_mock(): the stand-in answers for a model that fails
  asked,     \* plans asked for so far
  plan,      \* per session: current_plan, NoPlan if the session does not exist
  confirmed, \* per session
  files,     \* per session: what metadata.json (confirmed), plan.json and
             \* review.md say; a file that was cut short says nothing
  text,      \* the answer of the model that is being looked at
  pc,        \* where the call is
  at,        \* the session of the call, NoOne when idle
  then,      \* what follows the save: "reply", "execute", "executed", or
             \* "note" for a call of which the command loop prints no review
  status,    \* of the last response; "error" for an exception
  shown,     \* history, per session: the plan whose review was last returned
  agreed     \* history, per session: the plan that was current at /confirm

memory  == <<plan, confirmed>>
history == <<shown, agreed>>
vars    == <<caller, mock, asked, memory, files, text, pc, at, then, status, history>>

TypeOK ==
  /\ caller \in {"cli", "api", "gone"}
  /\ mock \in BOOLEAN /\ asked \in 0..MaxReplies
  /\ plan \in [Sessions -> Plans \cup {NoPlan}] /\ confirmed \in [Sessions -> BOOLEAN]
  /\ files \in [Sessions -> [confirmed : BOOLEAN, plan : Plans \cup {NoPlan},
                              review : Plans \cup {NoPlan}]]
  /\ text \in Payloads
  /\ pc \in {"idle", "plan", "validate", "repair", "revalidate",
              "meta", "planfile", "review", "log", "execute"}
  /\ at \in Sessions \cup {NoOne}
  /\ then \in {"reply", "note", "execute", "executed"}
  /\ status \in {"none", "draft", "needs_clarification", "confirmed", "executed", "error"}
  /\ shown \in [Sessions -> Plans \cup {NoPlan}]
  /\ agreed \in [Sessions -> Plans \cup {NoPlan}]

NoText == AsPayload(NoPlan)

Init ==
  /\ caller \in Callers /\ mock \in BOOLEAN
  /\ asked = 0 /\ text = NoText
  /\ plan = [s \in Sessions |-> NoPlan] /\ confirmed = [s \in Sessions |-> FALSE]
  /\ files = [s \in Sessions |-> NoFiles]
  /\ pc = "idle" /\ at = NoOne /\ then = "reply" /\ status = "none"
  /\ shown = [s \in Sessions |-> NoPlan] /\ agreed = [s \in Sessions |-> NoPlan]

\* A call on a session whose id has been returned.
Ready(s) == pc = "idle" /\ caller # "gone" /\ plan[s] # NoPlan /\ shown[s] # NoPlan

\* BUG: the command loop survives an exception.
Raise_GoesOn ==
  /\ pc' = "idle" /\ at' = NoOne /\ then' = "reply" /\ status' = "error"
  /\ UNCHANGED caller

\* An exception: the command loop of app.py ends the program with it.
Raise ==
  /\ pc' = "idle" /\ at' = NoOne /\ then' = "reply" /\ status' = "error"
  /\ caller' = IF caller = "cli" THEN "gone" ELSE caller

-----------------------------------------------------------------------------
(* The calls, up to their first save.                                      *)

\* create_session: the model and the validator are asked before anything is
\* kept.  The program makes one session.
Create(s) ==
  /\ pc = "idle" /\ caller # "gone" /\ plan[s] = NoPlan
  /\ caller = "cli" => \A o \in Sessions : plan[o] = NoPlan
  /\ pc' = "plan" /\ at' = s /\ then' = "reply" /\ status' = "draft"
  /\ UNCHANGED <<caller, mock, asked, text, memory, files, history>>

\* BUG: a confirmed plan stays confirmed while it is edited.
SendMessage_KeepsConfirmation(s) ==
  /\ Ready(s)
  /\ UNCHANGED confirmed
  /\ at' = s /\ then' = "reply"
  /\ \/ pc' = "meta" /\ status' = "needs_clarification"
     \/ pc' = "plan" /\ status' = "draft"
  /\ UNCHANGED <<caller, mock, asked, text, plan, files, history>>

\* send_message: the confirmation is cleared first; a vague request is answered
\* with a question, another one goes to the model.
SendMessage(s) ==
  /\ Ready(s)
  /\ confirmed' = [confirmed EXCEPT ![s] = FALSE]
  /\ at' = s /\ then' = "reply"
  /\ \/ pc' = "meta" /\ status' = "needs_clarification"
     \/ pc' = "plan" /\ status' = "draft"
  /\ UNCHANGED <<caller, mock, asked, text, plan, files, history>>

\* Planner.plan with a live model that answers.
PlannerAnswers ==
  /\ pc = "plan" /\ asked < MaxReplies
  /\ asked' = asked + 1
  /\ text' \in LiveTexts
  /\ pc' = "validate"
  /\ UNCHANGED <<caller, mock, memory, files, at, then, status, history>>

\* handle_generation_error: the stand-in answers for the model.
PlannerMocks ==
  /\ pc = "plan" /\ asked < MaxReplies /\ mock
  /\ asked' = asked + 1
  /\ text' \in MockTexts(plan[at])
  /\ pc' = "validate"
  /\ UNCHANGED <<caller, mock, memory, files, at, then, status, history>>

\* The live model, or, with the stand-in too, the retrieval for the prompt.
PlannerRaises ==
  /\ pc = "plan"
  /\ Raise
  /\ UNCHANGED <<mock, asked, memory, files, text, history>>

\* _update_plan: the plan takes the place of the old one.
UpdatePlan(p) ==
  /\ plan' = [plan EXCEPT ![at] = p]
  /\ text' = NoText /\ pc' = "meta"
  /\ UNCHANGED <<caller, mock, asked, confirmed, files, at, then, status, history>>

\* repair_and_validate: the answer, or the repaired answer, holds a plan.
AcceptText ==
  /\ pc \in {"validate", "revalidate"} /\ TryValidate(text, plan[at]) # NoPlan
  /\ UpdatePlan(TryValidate(text, plan[at]))

RejectText ==
  /\ pc = "validate" /\ TryValidate(text, plan[at]) = NoPlan
  /\ pc' = "repair" /\ text' = NoText
  /\ UNCHANGED <<caller, mock, asked, memory, files, at, then, status, history>>

\* _llm_repair.
RepairAnswers ==
  /\ pc = "repair"
  /\ \/ text' \in LiveTexts
     \/ mock /\ text' \in MockRepairs(plan[at])
  /\ pc' = "revalidate"
  /\ UNCHANGED <<caller, mock, asked, memory, files, at, then, status, history>>

\* The repaired text is no better, or there is none: an exception of the second
\* request is caught.  The old plan stays, or a first plan is the safe default.
FallBack ==
  /\ \/ pc = "revalidate" /\ TryValidate(text, plan[at]) = NoPlan
     \/ pc = "repair" /\ ~mock
  /\ UpdatePlan(Fallback(plan[at]))

ReviewPlan(s) ==
  /\ Ready(s)
  /\ pc' = "meta" /\ at' = s /\ then' = "reply"
  /\ status' = IF confirmed[s] THEN "confirmed" ELSE "draft"
  /\ UNCHANGED <<caller, mock, asked, text, memory, files, history>>

\* BUG: the plan is dispatched before it is saved.
ConfirmPlan_RunsFirst(s) ==
  /\ Ready(s)
  /\ confirmed' = [confirmed EXCEPT ![s] = TRUE]
  /\ agreed' = [agreed EXCEPT ![s] = plan[s]]
  /\ at' = s
  /\ \/ pc' = "meta" /\ then' = "reply" /\ status' = "confirmed"
     \/ pc' = "execute" /\ then' = "execute" /\ status' = "none"
  /\ UNCHANGED <<caller, mock, asked, text, plan, files, shown>>

\* confirm_plan_only and confirm_plan.
ConfirmPlan(s) ==
  /\ Ready(s)
  /\ confirmed' = [confirmed EXCEPT ![s] = TRUE]
  /\ agreed' = [agreed EXCEPT ![s] = plan[s]]
  /\ pc' = "meta" /\ at' = s
  /\ \/ then' = "reply" /\ status' = "confirmed"
     \/ then' = "execute" /\ status' = "none"
  /\ UNCHANGED <<caller, mock, asked, text, plan, files, shown>>

UnconfirmPlan(s) ==
  /\ Ready(s)
  /\ confirmed' = [confirmed EXCEPT ![s] = FALSE]
  /\ pc' = "meta" /\ at' = s /\ then' = "note" /\ status' = "draft"
  /\ UNCHANGED <<caller, mock, asked, text, plan, files, history>>

-----------------------------------------------------------------------------
(* SessionLogStore.save and what follows it.                               *)

SaveMetadata ==
  /\ pc = "meta"
  /\ files' = [files EXCEPT ![at].confirmed = confirmed[at]]
  /\ pc' = "planfile"
  /\ UNCHANGED <<caller, mock, asked, text, memory, at, then, status, history>>

SavePlan ==
  /\ pc = "planfile"
  /\ files' = [files EXCEPT ![at].plan = plan[at]]
  /\ pc' = "review"
  /\ UNCHANGED <<caller, mock, asked, text, memory, at, then, status, history>>

SaveReview ==
  /\ pc = "review"
  /\ files' = [files EXCEPT ![at].review = plan[at]]
  /\ pc' = "log"
  /\ UNCHANGED <<caller, mock, asked, text, memory, at, then, status, history>>

\* After /unconfirm and after a run the command loop prints the message alone.
Quiet == caller = "cli" /\ then \in {"note", "executed"}

\* conversation.jsonl.
SaveLog ==
  /\ pc = "log"
  /\ \/ /\ then = "execute"
        /\ pc' = "execute" /\ UNCHANGED <<caller, at, status, shown>>
     \/ /\ then # "execute"
        /\ pc' = "idle" /\ at' = NoOne
        /\ shown' = IF Quiet THEN shown ELSE [shown EXCEPT ![at] = plan[at]]
        /\ status' = IF then = "executed" THEN "executed" ELSE status
        /\ caller' = IF then = "executed" /\ caller = "cli" THEN "gone" ELSE caller
  /\ UNCHANGED <<mock, asked, text, memory, files, then, agreed>>

\* write_text empties the file before it writes: a write that does not end leaves
\* the old file or one that is cut short.
CutShort ==
  \/ UNCHANGED files
  \/ pc = "meta" /\ files' = [files EXCEPT ![at].confirmed = FALSE]
  \/ pc = "planfile" /\ files' = [files EXCEPT ![at].plan = NoPlan]
  \/ pc = "review" /\ files' = [files EXCEPT ![at].review = NoPlan]

SaveFails ==
  /\ pc \in {"meta", "planfile", "review", "log"}
  /\ Raise
  /\ CutShort
  /\ UNCHANGED <<mock, asked, text, memory, history>>

\* CamBotExecutor.execute: the scheduler's return code is printed and changes
\* nothing, a run that failed counts as executed.
Execute ==
  /\ pc = "execute"
  /\ pc' = "meta" /\ then' = "executed"
  /\ UNCHANGED <<caller, mock, asked, text, memory, files, at, status, history>>

ExecuteRaises ==
  /\ pc = "execute"
  /\ Raise
  /\ UNCHANGED <<mock, asked, text, memory, files, history>>

\* The user quits, or the process is killed.
Die ==
  /\ caller # "gone"
  /\ CutShort
  /\ caller' = "gone" /\ pc' = "idle" /\ at' = NoOne /\ then' = "reply" /\ text' = NoText
  /\ plan' = [s \in Sessions |-> NoPlan] /\ confirmed' = [s \in Sessions |-> FALSE]
  /\ shown' = plan' /\ agreed' = plan' /\ status' = "none"
  /\ UNCHANGED <<mock, asked>>

Next ==
  \/ \E s \in Sessions : \/ Create(s) \/ SendMessage(s) \/ ReviewPlan(s)
                         \/ ConfirmPlan(s) \/ UnconfirmPlan(s)
  \/ PlannerAnswers \/ PlannerMocks \/ PlannerRaises
  \/ AcceptText \/ RejectText \/ RepairAnswers \/ FallBack
  \/ SaveMetadata \/ SavePlan \/ SaveReview \/ SaveLog \/ SaveFails
  \/ Execute \/ ExecuteRaises \/ Die

Spec == Init /\ [][Next]_vars

-----------------------------------------------------------------------------
(* Properties.                                                             *)

\* What is executed is on disk, complete and marked as confirmed, before the
\* first board is asked for anything, whatever failed in earlier calls.
SavedBeforeRun ==
  pc = "execute" =>
    files[at] = [confirmed |-> TRUE, plan |-> plan[at], review |-> plan[at]]

\* A confirmation is of one plan: no edit, not even one that fails half-way,
\* leaves a plan confirmed that the user has not agreed to.
ConfirmationIsOfPlan == \A s \in Sessions : confirmed[s] => plan[s] = agreed[s]

\* README.md:9: instruction, review, revisions, confirmation.  What the command
\* loop of app.py executes is the plan whose review it printed last, whatever
\* failed before.  (A program that calls the service can outlive an exception
\* of save(), which leaves a new plan current whose review was never returned.)
RunWasReviewed == pc = "execute" /\ caller = "cli" => plan[at] = shown[at]
=============================================================================
