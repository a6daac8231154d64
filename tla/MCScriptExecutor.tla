--------------------------- MODULE MCScriptExecutor ---------------------------
(* ScriptExecutor as TLC checks it.                                        *)
EXTENDS ScriptExecutor

\* An action with the defaults of the schema, scaled to the clock.
Plain(k) ==
  [kind |-> k, deps |-> {}, at |-> 0, tolerant |-> FALSE, strict |-> FALSE,
   enabled |-> TRUE, iters |-> 2, dur |-> 1, limit |-> 2]

\* Every order of two moves with dependencies, a cycle among them.
DriveScripts ==
  {[a \in Acts |-> [Plain(k[a]) EXCEPT !.deps = d[a], !.tolerant = (a \in t), !.at = IF a = 1 THEN s ELSE 0]] :
     k \in [Acts -> {"base", "lift", "arm"}], d \in [Acts -> SUBSET Acts],
     t \in SUBSET Acts, s \in 0..1}

\* A wait or a vision action before and after a move.
VisionScripts ==
  {[a \in Acts |->
      IF a = 1 THEN [Plain(k) EXCEPT !.strict = s, !.enabled = e, !.dur = d,
                                     !.tolerant = (t /\ k # "checkpoint")]
      ELSE [Plain(m) EXCEPT !.deps = {1}]] :
     k \in {"wait", "checkpoint", "follow"}, m \in {"base", "arm", "checkpoint"},
     s \in BOOLEAN, e \in BOOLEAN, t \in BOOLEAN, d \in {1, 3}}

AllScripts == DriveScripts \cup VisionScripts
=============================================================================
