---------------------------- MODULE ScriptExecutor ----------------------------
(***************************************************************************)
(* runtime/script_executor.py: the sequential executor of a TimelineScript,*)
(* with the controllers it drives (base_controller.py, lift_controller.py, *)
(* p4_arm_controller.py).  Base and lift share the TCP server of the s3    *)
(* board, the arm has that of the p4 board; ProjectTCPServer.tla is the    *)
(* server, here only whether it has a client.                              *)
(*                                                                         *)
(* An action of a script is a record                                       *)
(*   kind       "base", "lift", "arm", "wait", "checkpoint", "follow"      *)
(*   deps, at   start_after, start_at_s                                    *)
(*   tolerant   on_fail is "continue"; a checkpoint has no on_fail         *)
(*   strict     on_vision_fail is "stop_all"                               *)
(*   enabled    expected_frame.enabled                                     *)
(*   iters      servo.max_iters                                            *)
(*   dur, limit duration_s, timeout_s                                      *)
(* Commands are sent without waiting for an ACK (require_ack=False).  The  *)
(* clock counts whole seconds: at the second of a deadline the code finds  *)
(* itself just before it or just after.                                    *)
(***************************************************************************)
EXTENDS Integers, Sequences

CONSTANTS
  Acts,       \* the actions, numbered from 1 in the order of the script
  Scripts,    \* the scripts, functions from Acts to action records
  MaxClock,   \* the clocks stop here, after every time a script names
  MaxChanges  \* connections made or lost by the boards

Kinds   == {"base", "lift", "arm", "wait", "checkpoint", "follow"}
Boards  == {"s3", "p4"}
Devices == {"base", "lift", "arm"}
Action  == [kind : Kinds, deps : SUBSET Acts, at : Nat, tolerant : BOOLEAN,
            strict : BOOLEAN, enabled : BOOLEAN, iters : Nat, dur : Nat, limit : Nat]

ASSUME ExecutorAssumption ==
  /\ Acts \subseteq Nat \ {0}
  /\ Scripts \subseteq [Acts -> Action]
  /\ \A s \in Scripts, a \in Acts : s[a].kind = "checkpoint" => ~s[a].tolerant
  /\ \A s \in Scripts, a \in Acts : {s[a].at, s[a].dur, s[a].limit} \subseteq 0..MaxClock-1
  /\ MaxClock \in Nat /\ MaxChanges \in Nat

VARIABLES
  script,    \* the script, fixed
  pc,        \* "clients", "loop", "act", "look", "stopping", "end"
  cur,       \* the action being executed, 0 for none
  elapsed,   \* seconds since it was begun, at most MaxClock
  iter,      \* iterations of its servo loop
  completed, \* completed
  outcome,   \* "none", "ok", or "error" when execute_script raises
  toStop,    \* the devices stop_all has not come to
  stopped,   \* the devices whose stop was written to the board
  links,     \* the boards with a client
  changes,   \* connections made or lost
  clock,     \* seconds since started_at, at most MaxClock
  sent,      \* history: the actions whose command was written to the board
  good,      \* history: the actions whose frame was as expected
  failed,    \* history: the actions that raised
  up         \* history: the boards with a client ever since stop_all began

vars == <<script, pc, cur, elapsed, iter, completed, outcome, toStop, stopped,
          links, changes, clock, sent, good, failed, up>>

runVars  == <<script, outcome, stopped>>
linkVars == <<links, changes>>

BoardOf(d) == IF d = "arm" THEN "p4" ELSE "s3"
Now        == script[cur]

Init ==
  /\ script \in Scripts
  /\ pc = "clients" /\ cur = 0 /\ elapsed = 0 /\ iter = 0
  /\ completed = {} /\ outcome = "none" /\ toStop = <<>> /\ stopped = {}
  /\ links \in SUBSET Boards /\ changes = 0 /\ clock = 0
  /\ sent = {} /\ good = {} /\ failed = {} /\ up = {}

-----------------------------------------------------------------------------
(* The boards and the time.                                                *)

LinkChanges ==
  /\ changes < MaxChanges /\ pc # "end"
  /\ \E b \in Boards : links' = IF b \in links THEN links \ {b} ELSE links \cup {b}
  /\ changes' = changes + 1 /\ up' = up \cap links'
  /\ UNCHANGED <<runVars, pc, cur, elapsed, iter, completed, toStop, clock, sent, good, failed>>

LaterOf(t) == IF t < MaxClock THEN t + 1 ELSE t

Second ==
  /\ clock < MaxClock \/ elapsed < MaxClock
  /\ pc \in {"loop", "act", "look"}
  /\ clock' = LaterOf(clock)
  /\ elapsed' = (IF cur = 0 THEN 0 ELSE LaterOf(elapsed))
  /\ UNCHANGED <<runVars, linkVars, pc, cur, iter, completed, toStop, sent, good, failed, up>>

InTime(s) == elapsed <= s
Passed(s) == elapsed >= s

-----------------------------------------------------------------------------
(* execute_script.                                                         *)

\* _wait_for_required_clients: when the connect timeouts are over the script
\* starts with the clients there are.
WaitForClients ==
  /\ pc = "clients"
  /\ pc' = "loop"
  /\ UNCHANGED <<runVars, linkVars, cur, elapsed, iter, completed, toStop, clock, sent, good, failed, up>>

\* BUG: one finished dependency is enough.
CanStart_AnyDep(a) ==
  /\ script[a].deps = {} \/ script[a].deps \cap completed # {}
  /\ clock >= script[a].at

\* _can_start.
CanStart(a) ==
  /\ script[a].deps \subseteq completed
  /\ clock >= script[a].at

Runnable == {a \in Acts \ completed : CanStart(a)}

\* The first runnable action of the script.
Choose ==
  /\ pc = "loop" /\ Runnable # {}
  /\ cur' = CHOOSE a \in Runnable : \A b \in Runnable : a <= b
  /\ pc' = "act" /\ elapsed' = 0 /\ iter' = 0
  /\ UNCHANGED <<runVars, linkVars, completed, toStop, clock, sent, good, failed, up>>

Finish ==
  /\ pc = "loop" /\ completed = Acts
  /\ pc' = "end" /\ outcome' = "ok"
  /\ UNCHANGED <<script, stopped, linkVars, cur, elapsed, iter, completed, toStop, clock, sent, good, failed, up>>

\* BUG: a tolerated failure does not take the action off the list.
Raises_Retries ==
  /\ failed' = failed \cup {cur}
  /\ cur' = 0 /\ elapsed' = 0 /\ iter' = 0
  /\ UNCHANGED completed
  /\ IF Now.tolerant THEN pc' = "loop" /\ UNCHANGED <<toStop, up>>
     ELSE pc' = "stopping" /\ toStop' = <<"base", "lift", "arm">> /\ up' = links'

\* The exception handler of execute_script.
Raises ==
  /\ failed' = failed \cup {cur}
  /\ cur' = 0 /\ elapsed' = 0 /\ iter' = 0
  /\ IF Now.tolerant
     THEN completed' = completed \cup {cur} /\ pc' = "loop" /\ UNCHANGED <<toStop, up>>
     ELSE pc' = "stopping" /\ toStop' = <<"base", "lift", "arm">> /\ up' = links'
          /\ UNCHANGED completed

Completes ==
  /\ completed' = completed \cup {cur} /\ pc' = "loop"
  /\ cur' = 0 /\ elapsed' = 0 /\ iter' = 0
  /\ UNCHANGED <<failed, toStop, up>>

\* The end of _execute_action: timeout_s is looked at when all is done.
Ends == (InTime(Now.limit) /\ Completes) \/ (Passed(Now.limit) /\ Raises)

\* A client that is found by has_client and gone when the command is written:
\* send_text clears it and raises.
WriteFails(d) ==
  /\ BoardOf(d) \in links /\ changes < MaxChanges
  /\ links' = links \ {BoardOf(d)} /\ changes' = changes + 1

\* A command to the s3 board; without a client it is only printed.
Drive(d) ==
  /\ pc = "act" /\ Now.kind = d
  /\ \/ sent' = (IF BoardOf(d) \in links THEN sent \cup {cur} ELSE sent)
        /\ UNCHANGED linkVars /\ Ends
     \/ WriteFails(d) /\ UNCHANGED sent /\ Raises
  /\ UNCHANGED <<runVars, clock, good>>

MoveBase == Drive("base")
MoveLift == Drive("lift")

\* An arm action; without a client it raises.
MoveArm ==
  /\ pc = "act" /\ Now.kind = "arm"
  /\ \/ "p4" \in links /\ sent' = sent \cup {cur} /\ UNCHANGED linkVars /\ Ends
     \/ "p4" \notin links /\ UNCHANGED <<sent, linkVars>> /\ Raises
     \/ WriteFails("arm") /\ UNCHANGED sent /\ Raises
  /\ UNCHANGED <<runVars, clock, good>>

Wait ==
  /\ pc = "act" /\ Now.kind = "wait" /\ Passed(Now.dur)
  /\ UNCHANGED <<runVars, linkVars, clock, sent, good>>
  /\ Ends

SkipCheckpoint ==
  /\ pc = "act" /\ Now.kind = "checkpoint" /\ ~Now.enabled
  /\ UNCHANGED <<runVars, linkVars, clock, sent, good>>
  /\ Ends

-----------------------------------------------------------------------------
(* _run_checkpoint, _run_follow_mode and _run_visual_servo_loop.           *)

Deadline == IF Now.kind = "follow" THEN Now.dur ELSE Now.limit

BeginVision ==
  /\ pc = "act" /\ Now.kind \in {"checkpoint", "follow"}
  /\ Now.kind = "checkpoint" => Now.enabled
  /\ pc' = "look"
  /\ UNCHANGED <<runVars, linkVars, cur, elapsed, iter, completed, toStop, clock, sent, good, failed, up>>

\* BUG: a checkpoint that has not succeeded counts as done.
VisionFails_Ignored == Ends

\* What becomes of an action whose servo loop returned False.
VisionFails == IF Now.kind = "checkpoint" /\ Now.strict THEN Raises ELSE Ends

LookGood ==
  /\ pc = "look" /\ iter < Now.iters /\ InTime(Deadline)
  /\ UNCHANGED <<runVars, linkVars, clock, sent>>
  /\ good' = good \cup {cur} /\ Ends

\* Nothing is found, or there is no command for the error.
LookGivesUp ==
  /\ pc = "look" /\ iter < Now.iters /\ InTime(Deadline)
  /\ UNCHANGED <<runVars, linkVars, clock, sent, good>>
  /\ VisionFails

\* The detector raises, when it is reset or when it looks: whether the checkpoint
\* is strict does not matter then.
LookRaises ==
  /\ pc = "look" /\ (iter = 0 \/ (iter < Now.iters /\ InTime(Deadline)))
  /\ UNCHANGED <<runVars, linkVars, clock, sent, good>>
  /\ Raises

\* BUG: one correction more than max_iters.
LookCorrects_OneMore ==
  /\ pc = "look" /\ iter <= Now.iters /\ InTime(Deadline)
  /\ \/ iter' = iter + 1
        /\ UNCHANGED <<linkVars, pc, cur, elapsed, completed, failed, toStop, up>>
     \/ WriteFails("base") /\ Raises
  /\ UNCHANGED <<runVars, clock, sent, good>>

\* A correction is a base or lift action of its own; when it raises, its own
\* on_fail is not looked at, the exception leaves the servo loop.
LookCorrects ==
  /\ pc = "look" /\ iter < Now.iters /\ InTime(Deadline)
  /\ \/ iter' = iter + 1
        /\ UNCHANGED <<linkVars, pc, cur, elapsed, completed, failed, toStop, up>>
     \/ WriteFails("base") /\ Raises
  /\ UNCHANGED <<runVars, clock, sent, good>>

\* max_iters are used up.
ItersOver ==
  /\ pc = "look" /\ iter = Now.iters
  /\ UNCHANGED <<runVars, linkVars, clock, sent, good>>
  /\ VisionFails

\* The deadline is over.  That of a checkpoint is its timeout_s, which is over then
\* as well.
DeadlineOver ==
  /\ pc = "look" /\ Passed(Deadline)
  /\ UNCHANGED <<runVars, linkVars, clock, sent, good>>
  /\ IF Now.kind = "checkpoint" THEN Raises ELSE VisionFails

-----------------------------------------------------------------------------
(* stop_all.                                                               *)

\* BUG: a stop that raises ends stop_all.
StopNext_NoFinally ==
  /\ pc = "stopping" /\ toStop # <<>>
  /\ LET d == Head(toStop) IN
       \/ WriteFails(d) /\ up' = up \ {BoardOf(d)} /\ toStop' = <<>> /\ UNCHANGED stopped
       \/ /\ stopped' = IF BoardOf(d) \in links THEN stopped \cup {d} ELSE stopped
          /\ toStop' = Tail(toStop)
          /\ UNCHANGED <<linkVars, up>>
  /\ UNCHANGED <<script, outcome, pc, cur, elapsed, iter, completed, clock, sent, good, failed>>

\* base.stop, lift.stop and p4_arm.stop, each in the finally of the one before;
\* without a client there is nothing to write.
StopNext ==
  /\ pc = "stopping" /\ toStop # <<>>
  /\ LET d == Head(toStop) IN
       \/ WriteFails(d) /\ up' = up \ {BoardOf(d)} /\ UNCHANGED stopped
       \/ /\ stopped' = IF BoardOf(d) \in links THEN stopped \cup {d} ELSE stopped
          /\ UNCHANGED <<linkVars, up>>
  /\ toStop' = Tail(toStop)
  /\ UNCHANGED <<script, outcome, pc, cur, elapsed, iter, completed, clock, sent, good, failed>>

StopEnds ==
  /\ pc = "stopping" /\ toStop = <<>>
  /\ pc' = "end" /\ outcome' = "error"
  /\ UNCHANGED <<script, stopped, linkVars, cur, elapsed, iter, completed, toStop, clock, sent, good, failed, up>>

-----------------------------------------------------------------------------
Execute ==
  \/ WaitForClients \/ Choose \/ Finish
  \/ MoveBase \/ MoveLift \/ MoveArm \/ Wait \/ SkipCheckpoint
  \/ BeginVision \/ LookGood \/ LookGivesUp \/ LookRaises \/ LookCorrects \/ ItersOver \/ DeadlineOver
  \/ StopNext \/ StopEnds

Next == LinkChanges \/ Second \/ Execute

Spec == Init /\ [][Next]_vars

\* The executor's thread is scheduled and time passes.
FairSpec == Spec /\ WF_vars(Second) /\ WF_vars(Execute)

-----------------------------------------------------------------------------
(* Properties.                                                             *)

TypeOK ==
  /\ script \in [Acts -> Action]
  /\ pc \in {"clients", "loop", "act", "look", "stopping", "end"}
  /\ cur \in Acts \cup {0} /\ (cur # 0 <=> pc \in {"act", "look"})
  /\ elapsed \in 0..MaxClock /\ clock \in 0..MaxClock
  /\ iter \in Nat /\ (cur # 0 => iter <= Now.iters)
  /\ completed \subseteq Acts /\ failed \subseteq Acts
  /\ sent \subseteq Acts /\ good \subseteq Acts
  /\ outcome \in {"none", "ok", "error"}
  /\ toStop \in Seq(Devices) /\ stopped \subseteq Devices
  /\ links \subseteq Boards /\ up \subseteq links
  /\ changes \in 0..MaxChanges

\* After a failure that is not tolerated every device gets its stop whose board
\* has been connected all the time since, also when the stop of another raised.
StopReachesAll ==
  outcome = "error" => \A d \in Devices : BoardOf(d) \in up => d \in stopped

\* An arm action that counts as done was written to the board, and a strict
\* checkpoint has seen the expected frame: a script that ends well has not passed
\* over either.
CompletedMeansDone ==
  \A a \in completed \ failed :
    /\ script[a].kind = "arm" => a \in sent
    /\ script[a].kind = "checkpoint" /\ script[a].strict /\ script[a].enabled => a \in good

\* The executor implements the abstract timeline; it knows no verdict "stuck".
Status ==
  [a \in Acts |-> IF a \in failed THEN "failed"
                  ELSE IF a \in completed THEN "ok"
                  ELSE IF a = cur THEN "running" ELSE "waiting"]

Verdict ==
  IF pc = "stopping" \/ outcome = "error" THEN "stopped"
  ELSE IF outcome = "ok" THEN "completed" ELSE "none"

Timeline == INSTANCE Timeline WITH
  Actions  <- Acts,
  deps     <- [a \in Acts |-> script[a].deps],
  tolerant <- {a \in Acts : script[a].tolerant},
  status   <- Status,
  verdict  <- Verdict

Timeline_Spec == Timeline!Spec

\* A script whose dependencies form no cycle ends, whatever the boards do; with a
\* cycle the executor polls for ever.
Acyclic ==
  \A S \in SUBSET Acts : S # {} => \E a \in S : script[a].deps \cap S = {}

Termination == Acyclic => <>(pc = "end")
=============================================================================
