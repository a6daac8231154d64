# Verification of CamBot (Collaborative-Photography)

TLA+ models of the program that plans a film shot with a user and then drives a
camera robot: a car with a lift (the board `s31`, or `s3` in the older
executor) and a camera arm (the board `p4`). TLC checks the models on small
instances, TLAPS proves the most important properties for every instance.
Line numbers are those of the Python sources under `src/`.

## 1. Inventory

### Parts and their state

| part | state | operations |
|---|---|---|
| `agent/service.py` `PlanAgentService`, `agent/log_store.py` | per session: current plan, `confirmed`, messages; four files | `create_session`, `send_message`, `review_plan`, `confirm_plan`, `confirm_plan_only`, `unconfirm_plan`; `save` |
| `app.py` | the session id, the loop; with `--device-precheck`, controllers that stay connected | asks, prints, calls the service; ends with any exception; waits for the boards beforehand |
| `chain/planner.py`, `providers/llm_provider.py` | none | ask the model; a stand-in when it fails and mock mode is on |
| `agent/json_repair.py`, `chain/validator.py`, the schema | none | from the model's text to a plan: extract, merge, validate, clip, ask for a repair, fall back |
| `rag/`, `chain/prompt_builder.py`, `chain/retriever.py`, `agent/reviewer.py` | none | text |
| `runtime/cambot_executor.py` | none | writes a preview, runs the scheduler |
| `runtime/timeline_scheduler.py` `TimelineScheduler` | `pending`, `done`, `failed`, endpoints, `result_holder` | `run` (main thread), `_run_timeline_worker` and everything below it (worker) |
| `runtime/timeline_scheduler.py` `TcpEndpoint` | one client socket, `messages_by_cmd` | accept once, receive, `send_cmd`, `close` |
| `runtime/dual_camera_display.py` | `running`, latest frame, window keys | `start`, `tick`, `pump`, `_capture_loop`, `stop` |
| `runtime/timeline_command_translator.py`, `arm_command_translator.py` | the cached arm pose | `translate_action`, build commands, sync the cache |
| `runtime/arm_safety.py` | the limits | `sanitize_raw_command` |
| `runtime/subject_match_detector.py` | per checkpoint: the box and the histogram chosen last, the template | `setup`, `detect_frame` |
| `runtime/checkpoint_correction_planner.py`; `visual_servo_controller.py` with `frame_evaluator.py` | none | error, satisfied, next correction |
| `runtime/script_executor.py` | `completed`, controllers | `execute_script`, vision loop, `stop_all` |
| `runtime/base_controller.py`, `lift_controller.py`, `p4_arm_controller.py` | the lift's height | moves and stops, with a fallback when no client is there |
| `runtime/tcp_server.py` `ProjectTCPServer` | `client_socket`, `last_response`, `payload_history` | accept thread, receive threads, `send_*`, `wait_for_payload`, `stop` |
| `RoArm-M2-S_python/roarm_motion_api.py` `RoArm3D` | the serial port, a cached pose | `connect`, `sync_pose_from_feedback`, `move_init_pose`, `set_pose_mm`, `move*`; used by `interactive_axes_test.py` and `test.py` |
| `RoArm-M2-S_python/*_drag_custom.py`, `serial_simple_ctrl.py`, `http_simple_ctrl.py` | what their windows show | pass what is entered on to the arm |

### How they interact

`app.py` calls the service; a confirmed plan goes, saved, through
`CamBotExecutor` to `TimelineScheduler.run`. The scheduler starts an endpoint
for each board that its look through the plan names (this look already
*translates* each action, and the translator is stateful), waits for the boards,
waits for ENTER, and then runs one action at a time: translate, send, wait for
the `done` ack; or wait; or a checkpoint, which alternates between looking and
one correction. With a window there are three threads: the main thread renders
and takes the keys, the worker runs the timeline, a third one reads the camera.
They share `result_holder`, the display and the endpoints, mostly without locks.
Every checkpoint makes a detector of its own, which picks one person per look and
learns from its choice; the planner turns the person's box into one correction.

`ScriptExecutor` is the older, sequential executor of the same scripts. It
drives the controllers, which share `ProjectTCPServer`s: an accept thread, a
receive thread per accepted client, and the caller.

### What is hard, and what correctness means

- *Timeline*: acks that are late, missing or wrong; a lost connection; failures
  that are tolerated and failures that are not; cyclic dependencies. Correct: at
  most one action runs, after its dependencies; no command is repeated or
  overlapped; the return code says what happened; a confirmed run ends.
- *Threads*: a `q` at any time, during the start-up and the closing too, a worker
  that raises or blocks, boards that two parts of the program listen for.
  Correct: `run` ends and its outcome is the truth; nothing is sent afterwards;
  boards that try are met; pictures that are judged are live.
- *Detector*: people who cross, turn round, stand side by side, and a memory that is
  overwritten by every choice. Correct: a checkpoint stays with its subject.
- *Arm*: relative moves on a cached target, clamps that undo each other.
  Correct: every goal is in the box and in reach; the cache is the last target.
- *Serial arm*: exceptions between the goals of a trajectory, a cache that only
  some calls bring up to date. Correct: the cache is the arm's goal; no jump.
- *Framing*: capped, signed steps before a camera that answers more or less than the
  gains suppose. Correct: each step helps, they give up only where there is no actuator,
  and the budget runs out only where the answers are too weak for it.
- *Server*: a client that replaces another while old threads still run.
  Correct: one open client, always listened to, never dropped by mistake; an
  old answer never counts for a new command.
- *Sequential executor*: connections that vanish between check and write.
  Correct: a failure stops every reachable device; done means done.
- *Agent*: any step may raise, and the model answers anything. Correct: a plan
  that becomes current can be run; what runs was saved, reviewed and agreed.

`PROJECT.json` lists each part with what is modelled of it, and every hazard
with its line.

## 2. Modules and plan

| module | models | uses |
|---|---|---|
| `Timeline` | what a runner of a timeline promises (abstract) | |
| `TimelineScheduler` | the worker, its endpoints, boards as environment | implements `Timeline` |
| `TimelineScheduler_proofs` | theorems | `TimelineScheduler` |
| `ArmTargets`, `ArmTargets_proofs` | translator, pose cache and arm safety | |
| `FrameServo` | the two correction rules, and the stand-in camera | |
| `SubjectMatch` | which person the looks of a checkpoint are about | |
| `Vision_proofs` | theorems | `FrameServo`, `SubjectMatch` |
| `SchedulerThreads`, `SchedulerThreads_proofs` | main, worker, capture and accept threads, and the precheck before them | |
| `ProjectTCPServer`, `ProjectTCPServer_proofs` | the server's threads and one caller | |
| `RoArm`, `RoArm_proofs` | the arm's serial interface and its trajectories | |
| `ScriptExecutor`, `ScriptExecutor_proofs` | sequential executor with its controllers | implements `Timeline` |
| `PlanRepair` | from the model's text to a plan (operators) | |
| `PlanAgent`, `PlanAgent_proofs` | service, repair loop, session files, command loop | `PlanRepair` |
| `MC*` | values of the constants for TLC | the module after `MC` |
| `MCVision` | both parts of the vision in one run | `MCFrameServo`, `MCSubjectMatch` |

The order of writing was by what the program exists for: the timeline first,
then what it sends (arm, framing), then the threads around it, the transport,
the older executor, the agent that hands plans over, and last the detector and the
serial interface beside the program.

How the modules meet: `TimelineScheduler` abstracts an action to what the
translator makes of it (send, wait, local, warning, checkpoint), `ArmTargets`
says which arm moves become warnings and what is sent for the others;
a checkpoint's look is a free choice in `TimelineScheduler`, `SubjectMatch` says
whom it is about and `FrameServo` where the corrections lead; `SchedulerThreads` abstracts the worker to blocking
calls whose order `TimelineScheduler` has; `ScriptExecutor` abstracts the server
to "has a client", which `ProjectTCPServer` details.

### Correspondence of state and actions

*TimelineScheduler.* `pending`, `done`, `failed` are the fields of the same name;
`pc` is the place in the worker's code (`select` the loop of
`_run_timeline_worker`, `run` the start of `_run_action`, `reset`, `send`,
`await` inside `_send_and_wait` and `send_cmd`, `pump` the wait of a wait action,
`vision` the checkpoint loop). `CheckpointRaises` is any exception of the detector, from
its `setup` at the start of a checkpoint to a look in the loop; it ends the run. `inbox` is `messages_by_cmd` of all endpoints: the
code scans the whole list of a command for a decisive ack, so it is a set.
`wire`, `active` and `conn` belong to the boards and the network. `sent` is a
history variable. The plan record has everything that is fixed for a run,
among it `horizon`, up to which the clock counts. An action is its position in the list; the list breaks ties of
`start_at_s` (`Before`).

*ArmTargets.* `pose` is `ArmCommandTranslator.pose`; the plan record holds the
arm actions, the order they are executed in, the safety mode and limits.
`Precheck` is the look of `_required_boards` through the plan. `base` and `last`
are history. Lengths are whole steps of the grid to which the code rounds a goal: 0.01 mm
there, 5 mm in the runs, where the limits of the defaults are whole, and of any size in
the theorems. A coordinate that is scaled to a reach limit is in general no such number.
It is kept in half steps, rounded up (`HalfSteps`), which is as much as the later
comparisons and the rounding to the nearest step tell apart. A scaled goal can so lie
beyond the limit by a part of a step, as in the code: with the default limits
(230, 0, 230) is sent as (215.67, 0, 215.67), 305.0034 mm out. `InReach` and `Steady`
allow one step for this.

*FrameServo.* One look and one correction per step, in exact integer units (see
the module's head). `camera` is `"standin"` for the code's `MockVisionDetector`
(`StandinFirst`, `StandinAnswer`), which the older executor uses where it has no other, and
which takes 45 % off an error whatever the correction. A `"real"` camera is the
environment: it sees a correction with any of the strengths in `Responses`, in percent of the
ideal for which one gain of the planner takes the whole error. Which way the picture goes is not taken from
the rules under test but from the repository's examples of the commands: a positive
distance drives forward and enlarges the subject, a positive angle turns left and shifts
it right, a positive `delta_cm` raises the camera, which sees the subject lower. Its definitions have names of
their own (`ServoInit`, `ServoNext`, ...), so that one module can hold the theorems about
both parts of the vision.

*SubjectMatch.* `last_bbox`, `last_hist` and `template` (the code's `template_hist`)
are the detector's fields; `fresh` is the template that `setup` makes of the
`template_paths`. A histogram is known by its similarity to each look, in
ten-thousandths. The code blends raw histograms, in which each part weighs by its
standard deviation: `Learn` averages the correlations by share *and* deviation and then
stretches their distance from none (a sum deviates less than its parts do together).
The deviations and the stretch of each blend are any of `Deviations` and `Stretches`. `Score` is `final_score`, in exact hundredths of the units.
A frame says who is to be seen, where, with what look and YOLO's confidence;
`result` and `strays` (looks of the checkpoint at somebody unlike the images) are
history variables. The scheduler passes `fallback_to_yolo=True`, which
makes `hist_threshold` moot, and never calls `reset_for_expected_frame`.

*SchedulerThreads.* `main`, `worker` are places in the code, `holder` is
`result_holder`, `running` and `capture` the display's flag and thread, `frame` whether
there is a picture, `quit` the threads that took a `q`. `sock` is where each endpoint
is on its way from the dictionary to a connection, `up` its `connected_event`; `snap` and
`shut` are the iteration of the `finally` block over the endpoints, `hasty` tells
that it began before the worker had all of them. `held`, `pre` and `seen` are the
precheck's servers, the boards at them and how far the precheck is; `DisplayFails` is a
camera that cannot be opened, after which `run` ends before there is a worker.

*ProjectTCPServer.* One action per stretch of a thread between two points where
another can run (locks are respected: a critical section is one action). A line
travels as two chunks, so `recv` may cut it. A `sendall` may run into the socket's
timeout of a second, and then clears a client whose board is still there; the server's
`bind` may have failed, and then nothing is ever accepted.

*RoArm.* `open` is the serial port, `cache` the fields `x_mm`, `y_mm`, `z_mm`, `move` the
trajectory that is being executed with the index of the goal sent last; `goal` and `at`
are the arm's. Lengths are hundredths of a millimetre, to which the code rounds goals;
a speed is the way of one sampling period. `stale` is a history variable.

*ScriptExecutor.* `completed` as in the code; `pc = "act"` is inside
`_execute_action`, `"look"` in the servo loop, `"stopping"` in `stop_all`. `LookRaises` is
an exception of the detector, at `reset_for_expected_frame` or at a look.

`MoveBase`, `MoveLift` and `MoveArm` are the controllers' commands.

*PlanRepair.* A plan is the set of its actions' ids and the set of ids its
lighting entries wait for: what the cross-checks of `TimelineScript` relate. A text
is the one JSON object that `_candidate_texts` can find in it, with the two fields
present or not, `bad` for whatever the schema refuses in a single field, and the
keys it is wrapped in. `TryValidate`, `Merge`, `Normalize`, `Clip`, `Fallback` are
the functions of those names; `MockTexts` is the stand-in of the provider, which looks for
an action of a type and not for an id, so that it can give two actions the same one.

*PlanAgent.* `pc` goes through `plan` (the planner's request), `validate`,
`repair` (the second request), `revalidate`, and then the four writes of `save`,
each a step of its own; every step that can raise does, and the process may die
between two. A write that does not end leaves the old file or one that is cut short
(`CutShort`). `Quiet` are the responses of which the command loop prints only the
message. `mock` is `should_use_mock()`, fixed for a run of the program.

## 3. Runs

All runs say `CHECK_DEADLOCK FALSE`: the program ends, and its end has no successor.
`vision` checks two models that share no state: in each of its behaviours one of them moves
and the other one rests, which is all that either can do (`MCVision`). `agent`
uses the symmetry of the sessions; it checks invariants only, and no definition tells the
sessions apart.

| run | bounds | shows |
|---|---|---|
| `timeline` | 3 actions; all 512 dependency relations with waits and rejected arm moves, tolerated or not, start times reversing the list; 3 sends on one or two boards, chained or free, each tolerated or not; a checkpoint before or after a send with 1 or 2 iterations; waits of 0 to 2 ticks beside local actions, with the window and without a display | `NoOverlap`, `DepsFinished`, `VerdictExplained`, `IInv`, `NotRepeated`, `AckKept`, `WaitsElapsed`, `Termination`, and `Timeline_Spec`: the worker implements `Timeline` |
| `arm` | chains of 2 (any safety mode) and 3 (clamp) of ten arm moves in every order of execution, default limits, in mock mode or beginning with an absolute pose; every goal of a grid around a wider box, followed by a delta | `SentInBox`, `SentInReach`, `SafeIsStable`, `CacheIsLastGoal`, `DeltaOnTop` |
| `vision` | corrections: 540 first boxes with default tolerances, expected box and iteration count; each look answered with 45, 50, 100 or 155 % of the ideal, in any mixture; and the stand-in. Looks: 2 people, 4 looks of which two differ as much from each other as from the second person, 3 places, 3 sets of template images, 2 deviations of histograms and 2 stretches, 4 looks per checkpoint, of which 3 may go astray | `OnlyHeightGivenUp`, `BudgetSuffices`, `CorrectionHelps`, `StaysWith`, `TemplateWins` |
| `threads` | 2 boards, 3 blocking calls, 2 presses of `q` at any time, with and without the precheck | `ResultExplained`, `WorkerErrorRaised`, `NoSendAfterReturn`, `LooksAreLive`, `QuitEnds`, `BoardsMeet` |
| `server` | 2 connections, 1 command, a history of 2 lines | `OneOpenClient`, `Served`, `FreshAnswer`, `ClientKept` |
| `roarm` | 4 calls, 4 increments with trajectories of up to 30 goals | `CacheIsGoal`, `Smooth` |
| `script` | 2 actions: all pairs of base, lift, arm moves with all dependencies, and waits, checkpoints and follow modes with a move or a checkpoint after them; 2 changes of connection; a clock of 4 s | `StopReachesAll`, `CompletedMeansDone`, `Timeline_Spec`, `Termination` |
| `agent` | 2 sessions, 3 requests, nine kinds of answers, three action ids, either caller, mock mode on and off | `SavedBeforeRun`, `ConfirmationIsOfPlan`, `RunWasReviewed` |
| `startat`, `armdelta`, `precheck`, `signs` | see section 6 | one disagreement each |

`script` and `agent` also check `TypeOK` (the agent's says that every current plan is
valid), `timeline` as a part of `IInv`; the `TypeOK` of every other module is proved
(section 4). The definitions marked `BUG` are variants of the definition that
follows them, each with a plausible programming error; replacing the definition
by its variant breaks the property it is paired with in `PROJECT.json`.

### Why these bounds are enough to be interesting

Three actions are the least with a cycle that does not involve all of them, a
chain, and an independent action beside a failed one. Two boards are the least
where a late ack of one meets a command to the other; `timeline` reaches states
with a command still active at one board while the next one runs. Two iterations
of a checkpoint are the least with a correction after a correction. The plan's
`horizon` is 0 where no wait takes time (deadlines count down in `left`) and
4, the longest two waits, where one does. Two connections are the
least with a replaced client, and with them a receive thread reads its
successor's socket. Three calls let the worker send after a quit, in and after
the main thread's `join`; two boards let the closing of one overlap the opening of
the other. Four calls of the serial interface are the least with a trajectory that
fails half-way, one that starts from the stale cache, feedback, and one after it; the
increments need both the minimal number of goals and more than that.
In `vision` the star turns round in two steps to a back that is no more like its front
than the guest's coat is, YOLO is surer of the guest, and the guest stands where the
star was, so every term of the score is against the star but the one that should
count. Three looks at the guest are as many as `RoomForStrays` leaves room for with
these numbers, and the fourth is the one that is judged; a histogram of the guest
deviates by up to two and a half times as much as the template. The frame boxes lie on
both sides of every tolerance and of every cap; the answers reach from what the
repository's stand-in takes off to as much too strong, and with the weakest ones the
farthest boxes and the stand-in take six of the eight iterations to be corrected. Two changes of connection are the least for a client that leaves
between the check and the write and one that is back when `stop_all` reaches it.

### Fairness

- `TimelineScheduler!FairSpec`: the worker thread is scheduled, and the clock
  moves (each wait polls `time.monotonic()` against a deadline). Boards, network
  and operator owe nothing. `Termination` starts at the confirmation: the waits
  for the boards and for ENTER have no limit in the code.
- `SchedulerThreads!FairSpec`: the main thread is scheduled, and its warm-up and
  its last pump, which have deadlines in the code, come to their end. Nothing is
  assumed of the worker, so `QuitEnds` holds for one that is blocked for ever.
- `StartFairness`, for `BoardsMeet` only: the worker opens its endpoints, and a board
  that finds one listening connects. It is a hypothesis of the property.
- `ScriptExecutor!FairSpec`: the one thread is scheduled, seconds pass.

## 4. What is proved

| theorem | says |
|---|---|
| `TypeCorrect`, `Invariance` | `TypeOK` and the inductive invariant of the scheduler, for every number of actions, set of boards and plan |
| `NoOverlapHolds`, `DepsFinishedHolds`, `VerdictExplainedHolds`, `CorrectionsBoundedHolds` | the safety properties of the worker |
| `AckKeptHolds`, `NotRepeatedHolds` | its action properties |
| `ImplementsTimeline` | `TimelineScheduler` implements `Timeline` |
| `WaitsElapsedHolds` | with a display, the waits took at least the sum of their durations |
| `ArmTypeCorrect`, `SentInBoxHolds` | every clamped goal is in the box, for every set of limits in order, presets and plan |
| `SentInReachHolds`, `SafeIsStableHolds` | every clamped goal is in reach up to one step of the rounding, and clamping it again moves it by no more (but from the edge of the low ceiling), for every set of limits that fit together |
| `CacheIsLastGoalHolds`, `DeltaOnTopHolds` | the cached pose is the last goal, and a delta is added to it |
| `OnlyHeightHolds`, `ServoTypeCorrect` | a checkpoint is given up only for the height, for every box, camera and tolerance that is not below the smallest step |
| `CorrectionHelpsHolds` | each turn, each drive of the planner, each lift of the servo and every correction before the stand-in takes off what the weakest answer gives, and leaves no more on the other side |
| `BudgetHolds` | the iterations run out only for a first box that needs as many, with the weakest answers |
| `TemplateWinsHolds`, `StaysWithHolds`, `SubjectTypeCorrect` | the detector keeps to its subject, for any people, looks, places and frames in which the numbers leave room for it |
| `ThreadsTypeCorrect`, `ResultExplainedHolds`, `NoSendAfterReturnHolds`, `LooksAreLiveHolds` | for any number of boards, calls and key presses |
| `OneOpenClientHolds`, `ServedHolds`, `ClientKeptHolds`, `ServerTypeCorrect` | the server's clients, for any number of connections and commands |
| `FreshAnswerHolds` | an answer was filed after the call for it began, however lines are cut and sockets exchanged |
| `ExecutorTypeCorrect`, `ExecutorInvariance`, `StopReachesAllHolds`, `CompletedMeansDoneHolds` | the sequential executor, for every script |
| `ExecutorImplementsTimeline` | `ScriptExecutor` implements `Timeline` |
| `RoArmTypeCorrect`, `CacheIsGoalHolds`, `SmoothHolds`, `BlendAdvances` | the serial arm, for any increments, speeds, poses and number of calls |
| `TryValidateSound` | no text gets a plan through the repairer that lacks actions or whose lights wait for actions it does not have |
| `AgentTypeCorrect`, `ConfirmationIsOfPlanHolds`, `SavedBeforeRunHolds`, `RunWasReviewedHolds` | the agent's invariants, for any sessions, ids and answers |

Assumptions: only the `ASSUME`s of the modules (types of the constants; limits of
the arm in order are part of `PlanType`), and named hypotheses about a
configuration or a plan. Each is stated beside the properties of its module, and
TLC evaluates it, as an `ASSUME` of the `MC` module, for what the runs use.

| hypothesis | theorem | says | why it is one |
|---|---|---|---|
| `LongEnough` | `WaitsElapsedHolds` | the model's clock counts up to the sum of a plan's waits | the bound is the model's, time has none |
| `PlansFit` | `SentInReachHolds`, `SafeIsStableHolds` | the box and the ceiling leave a goal in reach that was in reach (`FarFits`; `BoxBeyond` or `RingIsMet`) | TLC finds limits for which both are false; the code's defaults fit |
| `PlansSettle` | `CacheIsLastGoalHolds` | on real boards a plan begins with an absolute goal, or the safety checker is on | with it off, a preset that does not move the arm is sent and the cache keeps what the precheck left |
| `PlansAnchored` | `DeltaOnTopHolds` | on real boards a plan begins with an absolute goal | the disagreement shown by `armdelta` |
| `WideTolerance` | `OnlyHeightHolds`, `BudgetHolds` | tolerances of at least 0.011, 0.019 and 0.011 | below, the smallest step is larger than the error that is left and there is no command |
| `MildAnswers` | `CorrectionHelpsHolds`, `BudgetHolds` | the camera answers with at least `Weakest` percent of the ideal and at most 200 less that | `Weakest` may be as low as one likes, down to none; an answer that is stronger leaves more of the error on the other side |
| `Weakest >= 9` | `BudgetHolds` | the weakest answer is nine percent | with less, the rounded shift of the smallest step is nothing |
| `TellsApart` | `StaysWithHolds` | the difference in similarity between a person and the others, times its weight 0.55, exceeds what distance (0.35, doubled) and confidence (0.10) can hold against it | else a bystander may win |
| `RoomForStrays` | `TemplateWinsHolds` | a look at somebody else takes no more than `Loss` from a difference in similarity, whatever the deviations, and what `Strays` of them leave exceeds what distance within the group and confidence can hold against it | a histogram that deviates two and a half times as much as the template outweighs it after some looks, and the template is then that of the other person |
| `Coherent` | `TemplateWinsHolds` | those whom the images recognise look like one another, as against those they are met with | else learning from one of them may take the template away from the other |

**The scheduler's invariant.** `IInv == TypeOK /\ CtlInv /\ CmdInv /\ BudgetInv`. `NoOverlap`
alone is not inductive: to see that a `done` read from the inbox means that the
board has finished, one must know that a decisive ack that exists anywhere, in
the inbox or on the wire, was sent by a board that had finished its command, and
that a board's unfinished command is the one awaited now or one of an action that has
failed (`CmdInv`). For `VerdictExplained` one needs that the three sets of the worker
partition the plan and that a failure is in `done` exactly when it is tolerated
(`CtlInv`); the corrections of a checkpoint are counted against its iterations
(`BudgetInv`). Each action of `Next` has its step in the proof. The refinement
uses the same invariant: `SelectAction` maps to `Begin`, success and failure to
`Succeed` and `Fail`, the returns to `Complete`, `Stick` and `Abort`, and every other
step leaves the abstract state alone.

`WaitsElapsed` is about a sum, which is defined in the order of the timeline by a
recursive function on the positions. That the function exists, that a total grows with
each entry and by what one action adds is shown by induction along the table of partial
sums (`TableExists`, `TotalMonotone`, `TotalGrows`; `Along` is the induction, by a least
counterexample). The invariant `WaitInv` counts, beside the waits that are over, what the
pump of the current one has spent, and knows from the place in the worker's code what kind
of action it is in, so that no other action can pass for a wait.

**The sequential executor.** `IInv == TypeOK /\ CtlInv /\ StopInv /\ CompletedMeansDone`.
`StopReachesAll` speaks of the end of the run; before it, each device whose board has been
up since the failure is stopped or still in the rest of `stop_all`'s list (`StopInv`), and
this must survive a stop that raises. `CompletedMeansDone` needs the kind of action
that each place in the code belongs to (`CtlInv`). Every way in which an action can
end is first shown to be one of two forms (`ActionEnds`: it raises, or it completes and has
done what its kind asks for), and the invariant and the refinement are proved of the forms.

**The arm.** That a goal is in the box after `_clamp_t104_values` needs that the
rounded quotient of the scaling exists; this is shown by the least natural number
whose square is large enough (`HalfStepsIs`). After that the
box is imposed once more and only `z` is lowered, to a ceiling above `z_min`; the
limits are whole steps, so rounding does not leave them.
`SentInReach` follows the goal through the same steps: each coordinate of the scaled pair
is rounded by half a step at most, which moves the length by less than one, and the corners
of the box bound what box and ceiling can undo. A goal that is in the box and less
than a step beyond its reach is scaled back by less than a step, which is `SafeIsStable`.
The one exception is a goal that was a little beyond `min_x_at_high_z` and is rounded onto it:
the ceiling, which did not apply the first time, applies the second time (`OnEdge`).
The two properties of the
cache say that what the precheck leaves in it is overwritten by the first goal that is
executed.

**The corrections.** `CorrectionHelps` is arithmetic: an answer between `Weakest` and
200 less that leaves of the corrected piece at most what the weakest answer leaves, on one
side or the other, the roundings and the edges of the frame included.
`BudgetSuffices` is a measure on top of it: `LooksNeeded` bounds, for each of the errors,
how many corrections it takes when each takes off the weakest share of the error, or of
the piece that the largest step is for. `LooksFor` is a recursive function on the errors;
that it exists, that it never falls with a larger error and that a correction lowers it
by one is shown by a least counterexample. Each correction leaves the other errors
alone, so that iterations and bound together never exceed the bound of the first box.

**The agent.** `SavedBeforeRun` speaks of the moment of execution; the invariant
(`PlanAgent_proofs!IInv`) says at each place of `save` which files already agree
with the memory (`SaveOK`), that a call that makes a plan is on a session that is not
confirmed (`ConfirmOK`), and that with the command loop every session but the
current one has been shown (`ShownOK`). The step that takes a plan over rests on
`TryValidateSound` and `FallbackSound`.

**The threads.** `ResultExplained` needs to know where each thread may be for each
content of the holder, and `NoSendAfterReturn` that a closing that was not hasty has
every connected endpoint in its snapshot, so that when it is over none is left to
write to. `LooksAreLive` needs, of the state before a look, that a camera is read until a `q`
is taken or the run ends (`Watched`), and that the main thread does not get so far while the
worker lives without a `q`.

**The server.** `OneOpenClient` is nearly inductive by itself. `Served` needs that a
receive thread which means to clear its client (`recv = "clear"`) has seen that socket
closed or its board gone, which nothing undoes (`ReadersOK`): with that, the
thread of a replaced client cannot take the new one down (`ClientKept`), and the thread
that is started for a client outlives the client.
`FreshAnswer` says that what a caller takes for an answer is not among the lines that had
been filed when it cleared the state. Its invariant `FInv` follows the last chunk of each
line: it is in one place only, in one stream, one buffer or among the lines handled, and
once there (`Single`), also when two receive threads read one socket; what a board has still
to say is in no place at all (`ToCome`); so no line is filed twice, and what is
filed after the clearing is new (`Filed`).

**The serial arm.** `Smooth` is the arithmetic of the trajectory: the cubic
3u^2 - 2u^3 grows from each of its n points to the next (`BlendAdvances`) by at
most three halves of 1/n, so that with n from the length over the speed no step is longer
than one and a half periods' way; rounding adds half a unit at each end. It holds for
every n, where TLC sees those up to 30.

**The detector.** `StaysWith` compares two scores, term by term. `TemplateWins` needs
the invariant `Keeps`: for any two looks that the images tell apart, the template's
similarities differ by what those of the images must, less `Loss` per stray. A blend with the look
of somebody whom the images recognise keeps such a difference (`Coherent`), a blend with
any other takes off no more than `Loss`; the stretch, which is at least 100 %, can only widen a
difference that is not negative, and the floors of the two divisions are in the same
direction.

**Only model-checked**: all liveness (`Termination` of both runners, `WorkerErrorRaised`,
`QuitEnds`, `BoardsMeet`), because it rests on fairness and so on `ENABLED`, for which the
prover has no rules. Every invariant and every action property that a run checks has a
theorem, and so have the two refinements. What the theorems are about is the models; what the
runs add is that their actions can all happen and that the hypotheses above are met by
real configurations.

## 5. Environment assumptions

- A board sends a decisive ack of a command only when it is through with it, and
  echoes the command's id. It may also stay silent, or lose its connection.
- `sendall` on a connection that the board has dropped may succeed or raise.
- A listening socket that is closed ends the `accept` on it, as on Windows, which
  the code is written for (`CAP_DSHOW`).
- The similarities of `SubjectMatch` are never below that of no correlation; how much
  histograms deviate is free within `Deviations`.
- The arm of `RoArm` takes the goal that was written last and gets there.
- The camera of `FrameServo` never loses the subject, and the base and the lift move the
  way the repository's examples say.

## 6. Where the code and its documents disagree

Each has a run in which TLC finds a counterexample:

1. `armdelta`: the look through the plan for its boards moves the cached pose
   (`timeline_scheduler.py:303`), so on real boards a plan that begins with a
   delta move goes to a place the whole plan was applied to already
   (`arm_command_translator.py:33-34` says otherwise).
2. `startat`: `start_at_s` only sorts the ready actions; `chain/prompt_builder.py:43`
   calls it the earliest start time.
3. `precheck`: after `--device-precheck` the boards stay connected to the servers of
   the controllers, and the scheduler, which opens endpoints of its own on the same ports,
   waits for them without a limit (`timeline_scheduler.py:347`); `app.py:159-161`
   keeps the controllers so that their servers are there for the executor.
4. `signs`: the planner raises the camera for a subject that appears too low
   (`checkpoint_correction_planner.py:170`), and a camera that is raised sees it lower
   still. `:168` says that this is to fix the vertical framing. A positive `delta_cm` is
   upwards by `chain/prompt_builder.py:144-149` and `llm_provider.py:228-234`, and the
   older executor has the opposite sign (`script_executor.py:350`). That one in turn drives
   away from a subject that is too small, because its gain for the area is positive
   (`script_executor.py:348`), where the planner does the opposite
   (`checkpoint_correction_planner.py:127`) and a positive distance is forward
   (`prompt_builder.py:129-135`): with `Controllers = {"servo"}` the run shows this case. The
   stand-in camera, which moves towards the goal whatever the sign, shows neither of the two.

Seen while modelling, in the models' behaviours, without a run of their own:

- `tcp_server.py:185`: the history is cleared after the new client is
  installed, so a receive thread that is still alive can file the new
  board's ready line just before it is cleared, although `:129-130` says that it
  is not missed.
- `checkpoint_correction_planner.py:54` calls the corrections small and conservative; with a
  camera that answers with half of what the gains suppose, a subject that is far off in size and in both
  directions would need more than the default 8 iterations even if the lift went the right way.
- `arm_safety.py:206`: a goal that was scaled to the reach is rounded to the nearest
  0.01 mm and may lie beyond it by a part of that; one that is rounded onto
  `min_x_at_high_z` is lowered when it is sent again (`OnEdge`).
- `subject_match_detector.py:234`: the blend is of raw histograms; a bystander whose
  histogram deviates more than the template's is learnt faster than the rate of 0.04 says.
- `log_store.py:37`, `:47`: a save that fails leaves a file cut short where the one before was whole.
- `tcp_server.py:264`: a send that takes longer than a second drops a client that is still there.
- `timeline_scheduler.py:256`: without a display `_tick_display` returns at once, so
  wait actions take no time (`WaitsElapsed` is claimed of runs with one; `timeline` has both).
- `timeline_scheduler.py:201`: after "Stopping scheduler" the worker may still send
  commands until the endpoints are closed.
- `timeline_scheduler.py:221`: a `q` during the start-up lets the `finally` block iterate
  over a dictionary the worker still inserts into: `run` may raise, or leave an endpoint
  open that it has not seen (`hasty`).
- `dual_camera_display.py:97`: a `q` in the warm-up stops the capture thread and
  not the run; checkpoints then judge an old picture (the exception in `LooksAreLive`).
- `timeline_scheduler.py:506`: after an ACK timeout the board that still moves is not
  told; the only stop there is, is that of the operator.
- `timeline_scheduler.py:588`: `on_vision_fail` counts when the iterations run out,
  not for a timeout, a correction that fails, or an error without a command.
- `subject_match_detector.py:228`: without template images, one look at which the
  subject is missing makes a bystander the subject, for the rest of the checkpoint;
  the next checkpoint starts without a memory of either (`timeline_scheduler.py:525`).
- `roarm_motion_api.py:406`: `move_xyz` takes increments "relative to the current
  position", but they are added to the cached pose, which `init` of
  `interactive_axes_test.py:140-144` leaves behind: the next move starts with a jump
  (the exception in `CacheIsGoal` and `Smooth`).
- `tcp_server.py:170`: a `stop()` between `accept` and the installation of the client
  leaves a socket that nobody closes.
- `timeline_scheduler.py:441`: the worker renders while it waits, although `:227`
  says that it never does.
- `agent/service.py:143`: the response is "executed" for every return code.
- `agent/service.py:119`: a program that goes on after a failed `save` can run a
  plan whose review was never returned (`RunWasReviewed` is claimed of the
  command loop only, which ends with the exception).
- `json_repair.py:73`: the second attempt, a merge of a complete payload with the
  previous plan, never succeeds where the first has failed; a complete payload
  without lighting gets the default lighting, not that of the previous plan
  (`validator.py:179`).
- `llm_provider.py:205`: in mock mode, when the live model answers with rubbish and
  then fails, the stand-in searches the whole repair prompt for words, finds
  `checkpoint` and `follow_mode`, and adds both to the current plan, although
  the prompt says to return it unchanged (`json_repair.py:102`). The user sees the
  result in the review.
- `app.py:295`: any input of up to twelve characters that contains "confirm" is
  the command (`donotconfirm` too), although it is feedback.
- `validator.py:172`: a payload with a `title` is refused, because the key stays
  and the schema forbids extra keys.
- `script_executor.py:270`: a follow mode ends at the first good frame.

## 7. Not modelled

Prompt, retrieval and review text (no state, text only); the validator's clipping
of single numbers; the meaning of command words; configuration files; what YOLO finds
in a picture and how a histogram is computed; the YOLO detector of `vision_detector.py`;
`run_timeline_script.py`; the showcase page (not part of the program); the
server's restart after `stop`; the lift's height counter, which only `move_to` reads and
nothing calls; waiting for acks in the controllers (`require_ack` is off in the
executor); the wrist angle of `RoArm`.

The drag tools under `RoArm-M2-S_python/` are windows of a vendor's kind that pass a
slider on to the port: the application does not import them, and they keep no state
beyond what the window shows. (Their window says "Connected" after a failed
`connect_serial`, and the scroll wheel moves a slider past its range.)

## 8. What comes next

1. `ProjectTCPServer`: restart after `stop`.
2. `PlanAgent`: the app's command words; what `send_message` keeps of a plan.
3. The validator's clipping of single fields, and the schema's ranges.
4. The refinement of the worker's calls in `SchedulerThreads` by `TimelineScheduler`.
5. What the stop of the arm does (`p4_arm_controller.py` sends the initial pose).
