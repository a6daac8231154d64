------------------------------ MODULE Timeline ------------------------------
(***************************************************************************)
(* What a timeline runner promises, whatever the boards, the camera and    *)
(* the operator do.  A plan is a set of actions with dependencies, some of *)
(* which tolerate their own failure ("on_fail": "continue").  One action   *)
(* runs at a time, never before everything it depends on has finished; the *)
(* first failure that is not tolerated ends the run; and the verdict says  *)
(* why the run ended.                                                      *)
(*                                                                         *)
(* TimelineScheduler and ScriptExecutor implement this module (the property*)
(* Timeline_Spec of each).                                                 *)
(***************************************************************************)
CONSTANT Actions

VARIABLES
  deps,      \* [Actions -> SUBSET Actions], fixed
  tolerant,  \* the actions whose failure does not end the run, fixed
  status,    \* [Actions -> {"waiting", "running", "ok", "failed"}]
  verdict    \* "none" until the run ends

vars == <<deps, tolerant, status, verdict>>

Finished == {a \in Actions : \/ status[a] = "ok"
                             \/ status[a] = "failed" /\ a \in tolerant}
Running  == {a \in Actions : status[a] = "running"}
Ready    == {a \in Actions : status[a] = "waiting" /\ deps[a] \subseteq Finished}

Init ==
  /\ deps \in [Actions -> SUBSET Actions]
  /\ tolerant \in SUBSET Actions
  /\ status = [a \in Actions |-> "waiting"]
  /\ verdict = "none"

Begin(a) ==
  /\ verdict = "none"
  /\ Running = {}
  /\ a \in Ready
  /\ status' = [status EXCEPT ![a] = "running"]
  /\ UNCHANGED <<deps, tolerant, verdict>>

Succeed(a) ==
  /\ verdict = "none"
  /\ status[a] = "running"
  /\ status' = [status EXCEPT ![a] = "ok"]
  /\ UNCHANGED <<deps, tolerant, verdict>>

Fail(a) ==
  /\ verdict = "none"
  /\ status[a] = "running"
  /\ status' = [status EXCEPT ![a] = "failed"]
  /\ verdict' = IF a \in tolerant THEN "none" ELSE "stopped"
  /\ UNCHANGED <<deps, tolerant>>

Complete ==
  /\ verdict = "none"
  /\ Finished = Actions
  /\ verdict' = "completed"
  /\ UNCHANGED <<deps, tolerant, status>>

\* Nothing runs, nothing can start, and something is left: the dependencies
\* of what is left form a cycle.
Stick ==
  /\ verdict = "none"
  /\ Running = {}
  /\ Ready = {}
  /\ Finished # Actions
  /\ verdict' = "stuck"
  /\ UNCHANGED <<deps, tolerant, status>>

\* The operator cancels, or a socket breaks under the runner.
Abort ==
  /\ verdict = "none"
  /\ verdict' = "aborted"
  /\ UNCHANGED <<deps, tolerant, status>>

Next ==
  \/ \E a \in Actions : Begin(a) \/ Succeed(a) \/ Fail(a)
  \/ Complete \/ Stick \/ Abort

Spec == Init /\ [][Next]_vars
=============================================================================
