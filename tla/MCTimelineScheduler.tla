------------------------- MODULE MCTimelineScheduler -------------------------
(* Plans and bounds for checking TimelineScheduler.                        *)
EXTENDS TimelineScheduler

All(x) == [a \in Actions |-> x]

\* A plan whose actions, in this order, are of the given kinds; every action
\* has limit 1 and every checkpoint two iterations unless an MC set below
\* says otherwise.
PlanOf(kind, deps, onFail) ==
  [kind |-> kind, deps |-> deps, startAt |-> All(0), onFail |-> onFail,
   onVisionFail |-> All("continue"), board |-> All(CarBoard),
   limit |-> All(1), maxIters |-> All(2), window |-> FALSE, mock |-> FALSE,
   horizon |-> 0]

\* Every dependency relation, cyclic ones included.
AnyDeps == [Actions -> SUBSET Actions]
Chain   == [a \in Actions |-> IF a = 1 THEN {} ELSE {a - 1}]
Free    == All({})

\* Every order question: all dependencies, failures by rejected actions, start
\* times that reverse the list.  The waits take no time.
OrderPlans ==
  {[PlanOf(k, d, f) EXCEPT !.startAt = s, !.limit = All(0), !.mock = TRUE] :
     k \in [Actions -> {"wait", "warning"}], d \in AnyDeps,
     f \in {All("continue"), [All("continue") EXCEPT ![2] = "stop_all"]},
     s \in {All(0), [a \in Actions |-> NumActions - a]}}

\* Two or three commands on both boards, chained or free; all, none or all but
\* the second may fail.
BoardPlans ==
  {[PlanOf(All("send"), d, f) EXCEPT !.board = b] :
     d \in {Chain, Free},
     f \in {All("continue"), All("stop_all"), [All("continue") EXCEPT ![2] = "stop_all"]},
     b \in {All(CarBoard), [All(CarBoard) EXCEPT ![2] = CHOOSE x \in Boards : x # CarBoard]}}

\* A checkpoint before or after a command, with every budget up to two, with
\* boards and in mock mode; a local action follows.
CheckpointPlans ==
  {[PlanOf(k, Chain, f) EXCEPT !.maxIters = All(n), !.onVisionFail = v, !.mock = m] :
     k \in {[All("local") EXCEPT ![1] = "checkpoint", ![2] = "send"],
            [All("local") EXCEPT ![1] = "send", ![2] = "checkpoint"]},
     f \in {All("continue"), All("stop_all")}, n \in {1, 2},
     v \in {All("continue"), All("stop_all")}, m \in BOOLEAN}

\* Two waits of several lengths beside local actions, with the window open and
\* without any display.
WaitPlans ==
  {[PlanOf(k, d, All("continue")) EXCEPT !.limit = l, !.window = w, !.horizon = 4] :
     k \in {f \in [Actions -> {"wait", "local"}] : \A a \in Actions : f[a] = "wait" => a <= 2},
     d \in {Chain, Free},
     l \in {f \in [Actions -> 0..2] : \A a \in Actions : f[a] > 0 => a <= 2},
     w \in BOOLEAN}

\* What the passing run checks.
AllPlans == OrderPlans \cup BoardPlans \cup CheckpointPlans \cup WaitPlans

ASSUME PlansAssumption == LongEnough

\* A second action that asks to start at tick 2.
StartAtPlans ==
  {[PlanOf(All("send"), d, All("stop_all")) EXCEPT
      !.startAt = [All(0) EXCEPT ![2] = 2], !.horizon = 3] : d \in {Chain, Free}}
=============================================================================
