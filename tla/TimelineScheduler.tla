-------------------------- MODULE TimelineScheduler --------------------------
(***************************************************************************)
(* runtime/timeline_scheduler.py: TimelineScheduler (the worker that walks *)
(* the timeline) and TcpEndpoint (one socket and one receive thread per    *)
(* board), with the boards themselves as environment.                      *)
(*                                                                         *)
(* An action of the plan is its position in the timeline.  A command is a  *)
(* pair <<action, i>>: i = 0 is the command an action translates to, i > 0 *)
(* the correction a checkpoint sends in its i-th iteration.  Both have     *)
(* their own cmd_id in the code, unique within a run.                      *)
(*                                                                         *)
(* messages_by_cmd is the set inbox of <<command, ack>> pairs: the worker  *)
(* scans the whole list of a command for a decisive ack, so neither order  *)
(* nor repetition can be seen.  "started" stands for every ack the scan    *)
(* skips: status "started", or a board/device/action that does not match.  *)
(***************************************************************************)
EXTENDS Integers

CONSTANTS
  NumActions,      \* length of the timeline
  Boards,          \* the boards with a port in board_to_port
  CarBoard,        \* "s31": base and lift, where corrections go
  ExpectedBoards,  \* expected_board_ids, always waited for
  Plans            \* the plans (and modes) considered

Actions  == 1..NumActions
Kinds    == {"send", "wait", "local", "warning", "checkpoint"}
Strategy == {"continue", "stop_all"}
AckKinds == {"started", "done", "error"}

\* A validated plan together with the scheduler's flags.  kind is what
\* translate_action makes of the action (an arm move the safety check rejects
\* is a "warning"); limit is timeout_s of a send, duration_s of a wait and the
\* default ACK timeout of a checkpoint's corrections, in ticks.  horizon is where
\* the model's clock stops counting in a run of this plan.
PlanType ==
  [kind : [Actions -> Kinds], deps : [Actions -> SUBSET Actions],
   startAt : [Actions -> Nat], onFail : [Actions -> Strategy],
   onVisionFail : [Actions -> Strategy], board : [Actions -> Boards],
   limit : [Actions -> Nat], maxIters : [Actions -> Nat],
   window : BOOLEAN, mock : BOOLEAN, horizon : Nat]

ASSUME SchedulerAssumption ==
  /\ NumActions \in Nat
  /\ CarBoard \in Boards
  /\ ExpectedBoards \subseteq Boards
  /\ Plans \subseteq PlanType

VARIABLES
  plan,     \* fixed
  pc,       \* where the worker is
  cur,      \* the action it runs, 0 if none
  iter,     \* the checkpoint iteration, 0 outside a checkpoint
  pending, done, failed,
  result,   \* "none", "ok" (code 0), "stuck" (2), "stopped" (3), "exc" (raised)
  left,     \* ticks to the deadline of the current wait
  clock,    \* ticks since the operator's ENTER, up to plan.horizon
  conn,     \* per board: endpoint and client socket
  inbox,    \* messages_by_cmd of all endpoints
  wire,     \* acks sent by a board and not yet read by its receive thread
  sent,     \* history: commands handed to sendall
  active    \* commands a board has and has not finished

worker == <<pc, cur, iter, pending, done, failed, result, left>>
net    == <<conn, inbox, wire, sent, active>>
vars   == <<plan, clock, worker, net>>

Cmd        == Actions \X Nat
curCmd     == <<cur, iter>>
BoardOf(c) == IF plan.kind[c[1]] = "checkpoint" THEN CarBoard ELSE plan.board[c[1]]
Tolerant   == {a \in Actions : plan.onFail[a] = "continue"}

HasCheckpoint == \E a \in Actions : plan.kind[a] = "checkpoint"
HasDisplay    == plan.window \/ HasCheckpoint

RequiredBoards ==
  IF plan.mock THEN {}
  ELSE ExpectedBoards \cup {BoardOf(<<a, 0>>) :
         a \in {b \in Actions : plan.kind[b] \in {"send", "checkpoint"}}}

TypeOK ==
  /\ plan \in PlanType
  /\ pc \in {"boards", "confirm", "select", "run", "reset", "send", "await",
             "pump", "vision", "returned"}
  /\ cur \in Actions \cup {0}
  /\ iter \in Nat
  /\ pending \subseteq Actions /\ done \subseteq Actions /\ failed \subseteq Actions
  /\ result \in {"none", "ok", "stuck", "stopped", "exc"}
  /\ left \in Nat
  /\ clock \in 0..plan.horizon
  /\ conn \in [Boards -> {"none", "listening", "up", "down", "closed"}]
  /\ inbox \subseteq Cmd \X AckKinds
  /\ wire \subseteq Cmd \X AckKinds
  /\ sent \subseteq Cmd
  /\ active \subseteq Cmd

\* __init__, and _start_required_endpoints up to the wait for the boards.
Init ==
  /\ plan \in Plans
  /\ pc = "boards"
  /\ cur = 0 /\ iter = 0
  /\ pending = Actions /\ done = {} /\ failed = {}
  /\ result = "none"
  /\ left = 0 /\ clock = 0
  /\ conn = [b \in Boards |-> IF b \in RequiredBoards THEN "listening" ELSE "none"]
  /\ inbox = {} /\ wire = {} /\ sent = {} /\ active = {}

-----------------------------------------------------------------------------
(* Ends of a run and of an action.                                         *)

\* run() closes every endpoint on its way out.
Return(r) ==
  /\ pc' = "returned"
  /\ result' = r
  /\ conn' = [b \in Boards |-> "closed"]
  /\ wire' = {}

Succeed ==
  /\ done' = done \cup {cur}
  /\ pending' = pending \ {cur}
  /\ pc' = "select" /\ cur' = 0 /\ iter' = 0 /\ left' = 0
  /\ UNCHANGED <<failed, result, conn, wire>>

\* BUG: the failed action is forgotten, the timeline goes on.
Fail_GoesOn ==
  /\ failed' = failed \cup {cur}
  /\ cur' = 0 /\ iter' = 0 /\ left' = 0
  /\ done' = done \cup {cur} /\ pending' = pending \ {cur}
  /\ pc' = "select" /\ UNCHANGED <<result, conn, wire>>

Fail ==
  /\ failed' = failed \cup {cur}
  /\ cur' = 0 /\ iter' = 0 /\ left' = 0
  /\ \/ /\ cur \in Tolerant
        /\ done' = done \cup {cur} /\ pending' = pending \ {cur}
        /\ pc' = "select" /\ UNCHANGED <<result, conn, wire>>
     \/ /\ cur \notin Tolerant
        /\ Return("stopped") /\ UNCHANGED <<done, pending>>

-----------------------------------------------------------------------------
(* The worker up to the first command.                                     *)

\* An endpoint that accepted a client has passed the check, even if that
\* client is gone again: connected_event is never cleared.
BoardsConnected ==
  /\ pc = "boards"
  /\ \A b \in RequiredBoards : conn[b] # "listening"
  /\ pc' = "confirm"
  /\ UNCHANGED <<plan, clock, cur, iter, pending, done, failed, result, left, net>>

Confirm ==
  /\ pc = "confirm"
  /\ pc' = "select"
  /\ UNCHANGED <<plan, clock, cur, iter, pending, done, failed, result, left, net>>

Cancel ==
  /\ pc = "confirm"
  /\ Return("exc")
  /\ UNCHANGED <<plan, clock, cur, iter, pending, done, failed, left, inbox, sent, active>>

-----------------------------------------------------------------------------
(* The loop of _run_timeline_worker.                                       *)

\* BUG: an action may start when one of its dependencies is done.
Ready_AnyDep == {a \in pending : plan.deps[a] = {} \/ plan.deps[a] \cap done # {}}

Ready == {a \in pending : plan.deps[a] \subseteq done}

\* _action_sort_key: start_at_s, then position in the timeline.
Before(a, b) == \/ plan.startAt[a] < plan.startAt[b]
                \/ plan.startAt[a] = plan.startAt[b] /\ a <= b

SelectAction ==
  /\ pc = "select"
  /\ \E a \in Ready : /\ \A b \in Ready : Before(a, b)
                      /\ cur' = a
  /\ pc' = "run"
  /\ UNCHANGED <<plan, clock, iter, pending, done, failed, result, left, net>>

\* BUG: an empty ready list is taken for an empty pending list.
AllDone_NoneReady ==
  /\ pc = "select" /\ Ready = {}
  /\ Return("ok")
  /\ UNCHANGED <<plan, clock, cur, iter, pending, done, failed, left, inbox, sent, active>>

AllDone ==
  /\ pc = "select" /\ pending = {}
  /\ Return("ok")
  /\ UNCHANGED <<plan, clock, cur, iter, pending, done, failed, left, inbox, sent, active>>

NoneReady ==
  /\ pc = "select" /\ pending # {} /\ Ready = {}
  /\ Return("stuck")
  /\ UNCHANGED <<plan, clock, cur, iter, pending, done, failed, left, inbox, sent, active>>

\* _run_action and _run_translated_action, up to the first thing that blocks.
\* A wait is pumped by the display; without one _tick_display is True at once.
RunSend ==
  /\ pc = "run" /\ plan.kind[cur] = "send"
  /\ \/ ~plan.mock /\ pc' = "reset"
        /\ UNCHANGED <<cur, iter, pending, done, failed, result, left, conn, wire>>
     \/ plan.mock /\ Succeed
  /\ UNCHANGED <<plan, clock, inbox, sent, active>>

RunWait ==
  /\ pc = "run" /\ plan.kind[cur] = "wait"
  /\ \/ /\ HasDisplay /\ plan.limit[cur] > 0
        /\ pc' = "pump" /\ left' = plan.limit[cur]
        /\ UNCHANGED <<cur, iter, pending, done, failed, result, conn, wire>>
     \/ ~HasDisplay /\ Succeed
     \/ plan.limit[cur] = 0 /\ Succeed
  /\ UNCHANGED <<plan, clock, inbox, sent, active>>

RunLocal ==
  /\ pc = "run" /\ plan.kind[cur] = "local"
  /\ Succeed
  /\ UNCHANGED <<plan, clock, inbox, sent, active>>

RunWarning ==
  /\ pc = "run" /\ plan.kind[cur] = "warning"
  /\ Fail
  /\ UNCHANGED <<plan, clock, inbox, sent, active>>

RunCheckpoint ==
  /\ pc = "run" /\ plan.kind[cur] = "checkpoint"
  /\ pc' = "vision" /\ iter' = 1
  /\ UNCHANGED <<plan, clock, cur, pending, done, failed, result, left, net>>

\* The model or the classes of YOLO are not there, or the detector raises on a
\* frame: it ends the run as SendRaises does.
CheckpointRaises ==
  /\ pc \in {"run", "vision"} /\ plan.kind[cur] = "checkpoint"
  /\ Return("exc")
  /\ UNCHANGED <<plan, clock, cur, iter, pending, done, failed, left, inbox, sent, active>>

-----------------------------------------------------------------------------
(* _tick_display(duration_s) inside a wait action.                         *)

\* BUG: the wait ends without its time having passed.
PumpEnds_Early ==
  /\ pc = "pump"
  /\ Succeed
  /\ UNCHANGED <<plan, clock, inbox, sent, active>>

PumpEnds ==
  /\ pc = "pump" /\ left = 0
  /\ Succeed
  /\ UNCHANGED <<plan, clock, inbox, sent, active>>

\* The user presses q in the window while the worker's own pump polls it.
PumpQuit ==
  /\ pc = "pump" /\ plan.window /\ left > 0
  /\ Fail
  /\ UNCHANGED <<plan, clock, inbox, sent, active>>

-----------------------------------------------------------------------------
(* _send_and_wait.                                                         *)

\* BUG: the message list is replaced after sendall, not before.
ResetAcks_Late ==
  /\ \/ pc = "reset" /\ pc' = "send" /\ inbox' = inbox
     \/ pc = "await" /\ pc' = "await" /\ inbox' = {m \in inbox : m[1] # curCmd}
  /\ UNCHANGED <<plan, clock, cur, iter, pending, done, failed, result, left,
                 conn, wire, sent, active>>

\* send_cmd, under the lock: a fresh message list and event for the cmd_id.
ResetAcks ==
  /\ pc = "reset"
  /\ inbox' = {m \in inbox : m[1] # curCmd}
  /\ pc' = "send"
  /\ UNCHANGED <<plan, clock, cur, iter, pending, done, failed, result, left,
                 conn, wire, sent, active>>

\* send_cmd after the lock is released: sendall, then the deadline is set.  On
\* a connection the board has dropped, sendall may still succeed (the bytes go
\* nowhere).
SendCmd ==
  /\ pc = "send"
  /\ sent' = sent \cup {curCmd}
  /\ active' = IF conn[BoardOf(curCmd)] = "up" THEN active \cup {curCmd} ELSE active
  /\ pc' = "await" /\ left' = plan.limit[cur]
  /\ UNCHANGED <<plan, clock, cur, iter, pending, done, failed, result, conn, inbox, wire>>

\* sendall raises on the broken connection; nothing catches it, so neither
\* on_fail nor the failed set is involved.
SendRaises ==
  /\ pc = "send" /\ conn[BoardOf(curCmd)] = "down"
  /\ Return("exc")
  /\ UNCHANGED <<plan, clock, cur, iter, pending, done, failed, left, inbox, sent, active>>

CommandDone ==
  \/ plan.kind[cur] # "checkpoint" /\ Succeed
  \/ /\ plan.kind[cur] = "checkpoint"
     /\ pc' = "vision" /\ iter' = iter + 1 /\ left' = 0
     /\ UNCHANGED <<cur, pending, done, failed, result, conn, wire>>

\* BUG: an ack that says "started" is taken for success.
PollDone_Started ==
  /\ pc = "await" /\ left > 0
  /\ \E k \in {"started", "done"} : <<curCmd, k>> \in inbox
  /\ CommandDone
  /\ UNCHANGED <<plan, clock, inbox, sent, active>>

PollDone ==
  /\ pc = "await" /\ left > 0
  /\ <<curCmd, "done">> \in inbox
  /\ CommandDone
  /\ UNCHANGED <<plan, clock, inbox, sent, active>>

PollError ==
  /\ pc = "await" /\ left > 0
  /\ <<curCmd, "error">> \in inbox
  /\ Fail
  /\ UNCHANGED <<plan, clock, inbox, sent, active>>

\* BUG: after the deadline the command is sent once more.
AckTimeout_Resend ==
  /\ pc = "await" /\ left = 0
  /\ \/ Fail
     \/ pc' = "reset" /\ UNCHANGED <<cur, iter, pending, done, failed, result, left, conn, wire>>
  /\ UNCHANGED <<plan, clock, inbox, sent, active>>

\* BUG: the deadline is never looked at.
AckTimeout_Never ==
  /\ FALSE
  /\ UNCHANGED vars

\* The deadline has passed: the loop is not entered again, whatever the inbox
\* holds by now.  Nothing is sent to the board.
AckTimeout ==
  /\ pc = "await" /\ left = 0
  /\ Fail
  /\ UNCHANGED <<plan, clock, inbox, sent, active>>

-----------------------------------------------------------------------------
(* _run_checkpoint.  What the camera shows is the environment's choice.    *)

\* BUG: one correction too many.
InBudget_OffByOne == iter <= plan.maxIters[cur] + 1

InBudget == iter <= plan.maxIters[cur]

VisionTimeout ==
  /\ pc = "vision" /\ InBudget
  /\ Fail
  /\ UNCHANGED <<plan, clock, inbox, sent, active>>

\* No frame, or no subject in it.
VisionMiss ==
  /\ pc = "vision" /\ InBudget
  /\ iter' = iter + 1
  /\ UNCHANGED <<plan, clock, pc, cur, pending, done, failed, result, left, net>>

VisionSatisfied ==
  /\ pc = "vision" /\ InBudget
  /\ Succeed
  /\ UNCHANGED <<plan, clock, inbox, sent, active>>

\* Not satisfied, and make_correction_commands has nothing to propose.
VisionNoCommand ==
  /\ pc = "vision" /\ InBudget
  /\ Fail
  /\ UNCHANGED <<plan, clock, inbox, sent, active>>

VisionCorrect ==
  /\ pc = "vision" /\ InBudget
  /\ \/ ~plan.mock /\ pc' = "reset" /\ UNCHANGED iter
     \/ plan.mock /\ iter' = iter + 1 /\ UNCHANGED pc
  /\ UNCHANGED <<plan, clock, cur, pending, done, failed, result, left, net>>

VisionExhausted ==
  /\ pc = "vision" /\ ~InBudget
  /\ \/ plan.onVisionFail[cur] = "continue" /\ Succeed
     \/ plan.onVisionFail[cur] # "continue" /\ Fail
  /\ UNCHANGED <<plan, clock, inbox, sent, active>>

-----------------------------------------------------------------------------
(* TcpEndpoint's threads and the boards.                                   *)

\* _accept_loop: one client per endpoint, ever.
Accept(b) ==
  /\ conn[b] = "listening"
  /\ conn' = [conn EXCEPT ![b] = "up"]
  /\ UNCHANGED <<plan, clock, worker, inbox, wire, sent, active>>

\* The connection breaks: _recv_loop ends, what it had not read is lost, and
\* client_socket stays set.
Disconnect(b) ==
  /\ conn[b] = "up"
  /\ conn' = [conn EXCEPT ![b] = "down"]
  /\ wire' = {m \in wire : BoardOf(m[1]) # b}
  /\ UNCHANGED <<plan, clock, worker, inbox, sent, active>>

\* _recv_loop files an ack under its cmd_id, whoever waits for it.
Receive(m) ==
  /\ m \in wire
  /\ wire' = wire \ {m}
  /\ inbox' = inbox \cup {m}
  /\ UNCHANGED <<plan, clock, worker, conn, sent, active>>

\* A board answers if its connection is up; it may also say nothing.
Answer(c, k) ==
  \/ conn[BoardOf(c)] = "up" /\ wire' = wire \cup {<<c, k>>}
  \/ wire' = wire

BoardStarts(c) ==
  /\ c \in active
  /\ <<c, "started">> \notin wire \cup inbox
  /\ Answer(c, "started")
  /\ UNCHANGED <<plan, clock, worker, conn, inbox, sent, active>>

\* The motion ends, well or with an error.
BoardEnds(c, k) ==
  /\ c \in active
  /\ active' = active \ {c}
  /\ Answer(c, k)
  /\ UNCHANGED <<plan, clock, worker, conn, inbox, sent>>

\* Time passes while the timeline runs.
Tick ==
  /\ pc \notin {"boards", "confirm", "returned"}
  /\ clock < plan.horizon \/ left > 0
  /\ clock' = IF clock < plan.horizon THEN clock + 1 ELSE clock
  /\ left' = IF left > 0 THEN left - 1 ELSE left
  /\ UNCHANGED <<plan, pc, cur, iter, pending, done, failed, result, net>>

-----------------------------------------------------------------------------
Select == SelectAction \/ AllDone \/ NoneReady
Run    == RunSend \/ RunWait \/ RunLocal \/ RunWarning \/ RunCheckpoint
Send   == ResetAcks \/ SendCmd \/ SendRaises \/ PollDone \/ PollError \/ AckTimeout
Vision == \/ VisionTimeout \/ VisionMiss \/ VisionSatisfied
          \/ VisionNoCommand \/ VisionCorrect \/ VisionExhausted

\* What the worker does by itself once the operator has confirmed.
Worker == Select \/ Run \/ CheckpointRaises \/ PumpEnds \/ Send \/ Vision

User == Confirm \/ Cancel \/ PumpQuit

BoardsNext ==
  \/ \E b \in Boards : Accept(b) \/ Disconnect(b)
  \/ \E m \in wire : Receive(m)
  \/ \E c \in active : \/ BoardStarts(c)
                       \/ \E k \in {"done", "error"} : BoardEnds(c, k)

Next == BoardsConnected \/ Worker \/ User \/ BoardsNext \/ Tick

Spec == Init /\ [][Next]_vars

\* The worker thread is scheduled and time passes; boards, network and user
\* owe nothing.
FairSpec == Spec /\ WF_vars(Worker) /\ WF_vars(Tick)

-----------------------------------------------------------------------------
(* Properties.                                                             *)

\* A board is never still executing a command when the worker has moved past
\* it, except a command of an action that has failed (by its deadline).
NoOverlap == \A c \in active : c = curCmd \/ c[1] \in failed

\* Whatever has been started had all its dependencies done, in particular the
\* members of a dependency cycle are never started.
DepsFinished == \A a \in done \cup failed \cup ({cur} \ {0}) : plan.deps[a] \subseteq done

\* The return code is justified by what happened: 0 only when every action
\* succeeded or was allowed to fail, 2 only when every action left waits for
\* another one left, 3 only after one single failure that is not tolerated.
VerdictExplained ==
  /\ result = "ok" => done = Actions /\ failed \subseteq Tolerant
  /\ result = "stuck" => /\ Actions \ done # {}
                         /\ \A a \in Actions \ done : plan.deps[a] \cap (Actions \ done) # {}
  /\ result = "stopped" => \E a \in failed : failed \ Tolerant = {a}
  /\ result # "stopped" => failed \subseteq Tolerant

\* A command a board has finished with is not given to it again.
NotRepeated == [][\A c \in sent : c \notin active => c \notin active']_vars

\* send_cmd clears the message list before the command leaves, so an answer
\* to a command that was sent is never thrown away.
AckKept == [][\A m \in inbox : m \notin inbox' => m[1] \notin sent]_vars

\* The durations d of the actions, added up in the order of the timeline.
Total(d) ==
  LET upTo[n \in 0..NumActions] == IF n = 0 THEN 0 ELSE upTo[n - 1] + d[n]
  IN  upTo[NumActions]

\* What the waits in S take together, by plan p.
Durations(p, S) ==
  Total([a \in Actions |-> IF a \in S /\ p.kind[a] = "wait" THEN p.limit[a] ELSE 0])

\* The actions run one at a time, so with a display, which is what pumps a wait,
\* the waits that have succeeded took at least the sum of their durations.
WaitsElapsed == HasDisplay => clock >= Durations(plan, done \ failed)

\* The model's clock counts far enough for all the waits of a plan.
LongEnough == \A p \in Plans : Durations(p, Actions) <= p.horizon

\* Once the operator has confirmed, the run ends: every wait has a deadline.
Termination == (pc = "select") ~> (pc = "returned")

\* The worker implements the abstract timeline.
StatusOf(a) == IF a \in failed THEN "failed"
               ELSE IF a \in done THEN "ok"
               ELSE IF a = cur THEN "running" ELSE "waiting"
VerdictOf   == IF result = "ok" THEN "completed"
               ELSE IF result = "exc" THEN "aborted" ELSE result

T == INSTANCE Timeline WITH
       deps <- plan.deps, tolerant <- Tolerant,
       status <- [a \in Actions |-> StatusOf(a)], verdict <- VerdictOf

Timeline_Spec == T!Spec

-----------------------------------------------------------------------------
(* The inductive invariant behind the safety properties.                   *)

Busy == {"run", "reset", "send", "await", "pump", "vision"}

\* How the sets, the current action and the verdict fit together.
CtlInv ==
  /\ pending = Actions \ done
  /\ cur # 0 => cur \in pending \ failed
  /\ pc \in Busy => cur # 0
  /\ pc \in {"boards", "confirm", "select", "run"} => iter = 0
  /\ pc \in {"boards", "confirm", "select"} \/ result \in {"ok", "stuck", "stopped"} => cur = 0
  /\ pc = "returned" <=> result # "none"
  /\ failed \cap Tolerant = failed \cap done
  /\ DepsFinished
  /\ VerdictExplained

\* Which commands exist: only the current one can be outstanding without its
\* action having failed, and an answer that decides means the board is through.
CmdInv ==
  /\ \A c \in sent : \/ c[1] \in done \cup failed
                     \/ c[1] = cur /\ c[2] < iter
                     \/ c = curCmd /\ pc = "await"
  /\ \A m \in inbox \cup wire : m[1] \in sent /\ (m[2] # "started" => m[1] \notin active)
  /\ active \subseteq sent
  /\ \A c \in active : (c = curCmd /\ pc = "await") \/ c[1] \in failed

\* A checkpoint sends at most one correction per iteration of its budget, and
\* the one being sent is within it.
CorrectionsBounded == \A c \in sent : c[2] <= plan.maxIters[c[1]] \/ c[2] = 0

BudgetInv ==
  /\ CorrectionsBounded
  /\ pc \in {"reset", "send", "await"} => iter = 0 \/ iter <= plan.maxIters[cur]

\* Everything the safety proofs need, inductive as a whole.
IInv == TypeOK /\ CtlInv /\ CmdInv /\ BudgetInv

-----------------------------------------------------------------------------
(* What documents say of the scheduler and the code does not do.           *)

\* chain/prompt_builder.py:43-44: start_at_s is the earliest start time, and it
\* must be satisfied as well as start_after.
StartAtHonoured == [][cur' # cur /\ cur' # 0 => clock >= plan.startAt[cur']]_vars
=============================================================================
