------------------------- MODULE ScriptExecutor_proofs -------------------------
(***************************************************************************)
(* Proofs about the sequential executor, for every script and however the  *)
(* boards come and go: type correctness, what stop_all and a completed     *)
(* action mean, and the refinement of the abstract timeline.               *)
(***************************************************************************)
EXTENDS ScriptExecutor, WellFoundedInduction, TLAPS

Busy     == {"act", "look"}
Tolerant == {a \in Acts : script[a].tolerant}

\* The order of stop_all, from each device on.
Stops ==
  {<<"base", "lift", "arm">>, <<"lift", "arm">>, <<"arm">>, <<>>}

\* What is left to be stopped, as a set.
Left(s) ==
  IF s = <<"base", "lift", "arm">> THEN Devices
  ELSE IF s = <<"lift", "arm">> THEN {"lift", "arm"}
  ELSE IF s = <<"arm">> THEN {"arm"} ELSE {}

-----------------------------------------------------------------------------
(* The inductive invariant.                                                *)

\* The sets, the current action and the outcome.  A failure that is not tolerated
\* leaves its action off the list and ends the run.
CtlInv ==
  /\ cur # 0 => cur \in Acts \ completed
  /\ outcome = "none" <=> pc # "end"
  /\ pc = "look" => Now.kind \in {"checkpoint", "follow"}
  /\ outcome = "ok" => completed = Acts
  /\ IF pc = "stopping" \/ outcome = "error"
     THEN failed \ completed # {} /\ failed \cap completed \subseteq Tolerant
          /\ (failed \ completed) \cap Tolerant = {}
     ELSE failed \subseteq completed /\ failed \subseteq Tolerant
  /\ pc = "clients" => completed = {} /\ failed = {}

\* A device whose stop is not written is still to come, or its board was away.
StopInv ==
  /\ toStop \in Stops
  /\ pc \notin {"stopping", "end"} => up = {}
  /\ outcome = "error" => toStop = <<>>
  /\ pc = "stopping" \/ outcome = "error" =>
       \A d \in Devices : BoardOf(d) \in up => d \in stopped \cup Left(toStop)

IInv == TypeOK /\ CtlInv /\ StopInv /\ CompletedMeansDone

-----------------------------------------------------------------------------
(* Facts about the data.                                                   *)

LEMMA ZeroNotAct == 0 \notin Acts
  BY ExecutorAssumption DEF ExecutorAssumption

\* The sequences of stop_all: what is first, what is left.
LEMMA StopsStep ==
  ASSUME NEW s \in Stops, s # <<>>
  PROVE  /\ Head(s) \in Devices /\ Tail(s) \in Stops
         /\ Left(s) \subseteq {Head(s)} \cup Left(Tail(s))
<1>1. CASE s = <<"base", "lift", "arm">>
  <2>1. Head(s) = "base" /\ Tail(s) = <<"lift", "arm">>
    BY <1>1
  <2>2. Left(Tail(s)) = {"lift", "arm"}
    BY <2>1 DEF Left
  <2> QED BY <1>1, <2>1, <2>2 DEF Left, Stops, Devices
<1>2. CASE s = <<"lift", "arm">>
  <2>1. Head(s) = "lift" /\ Tail(s) = <<"arm">>
    BY <1>2
  <2>2. Left(s) = {"lift", "arm"} /\ Left(Tail(s)) = {"arm"}
    BY <1>2, <2>1 DEF Left
  <2> QED BY <2>1, <2>2 DEF Stops, Devices
<1>3. CASE s = <<"arm">>
  <2>1. Head(s) = "arm" /\ Tail(s) = <<>>
    BY <1>3
  <2>2. Left(s) = {"arm"}
    BY <1>3 DEF Left
  <2> QED BY <2>1, <2>2 DEF Stops, Devices
<1> QED BY <1>1, <1>2, <1>3 DEF Stops

LEMMA StopsAreSeq == Stops \subseteq Seq(Devices)
  BY DEF Stops, Devices

LEMMA NothingLeft == Left(<<>>) = {} /\ Left(<<"base", "lift", "arm">>) = Devices
  BY DEF Left

\* Every nonempty set of naturals has a least element.
LEMMA LeastNat ==
  ASSUME NEW S, S \subseteq Nat, S # {}
  PROVE  \E n \in S : \A m \in S : n <= m
<1> DEFINE R == OpToRel(<, Nat)
<1>1. IsWellFoundedOn(R, Nat)
  BY NatLessThanWellFounded, Zenon
<1>2. PICK n \in S : \A m \in S : ~(<<m, n>> \in R)
  BY <1>1, WFMin, Zenon
<1>3. \A m \in S : ~(m < n)
  BY <1>2 DEF OpToRel
<1> QED BY <1>3

\* Choose takes a runnable action.
LEMMA ChosenIsRunnable == Choose => cur' \in Runnable
<1> SUFFICES ASSUME Choose PROVE cur' \in Runnable
  OBVIOUS
<1>1. Runnable \subseteq Nat /\ Runnable # {}
  BY ExecutorAssumption DEF ExecutorAssumption, Runnable, Choose
<1>2. \E a \in Runnable : \A b \in Runnable : a <= b
  BY <1>1, LeastNat
<1> QED BY <1>2 DEF Choose

-----------------------------------------------------------------------------
(* The steps of an action.                                                 *)

\* What the end of an action is, whatever its kind: it raises, or it completes
\* and has done what its kind asks for.
DoneRight ==
  /\ Now.kind = "arm" => cur \in sent'
  /\ Now.kind = "checkpoint" /\ Now.strict /\ Now.enabled => cur \in good'

ActionEnds ==
  /\ pc \in Busy /\ UNCHANGED <<runVars, clock>>
  /\ links' \subseteq links /\ changes' \in 0..MaxChanges
  /\ sent \subseteq sent' /\ sent' \subseteq sent \cup {cur}
  /\ good \subseteq good' /\ good' \subseteq good \cup {cur}
  /\ Raises \/ (Completes /\ DoneRight)

\* The servo loop goes on.
Iterates ==
  /\ pc = "look" /\ iter < Now.iters /\ iter' = iter + 1
  /\ UNCHANGED <<runVars, linkVars, pc, cur, elapsed, completed, toStop, clock,
                 sent, good, failed, up>>

LEMMA WriteFailsStep ==
  ASSUME TypeOK, NEW d, WriteFails(d)
  PROVE  links' \subseteq links /\ changes' \in 0..MaxChanges
  BY ExecutorAssumption DEF ExecutorAssumption, WriteFails, TypeOK

LEMMA DriveEnds ==
  ASSUME TypeOK, NEW d \in {"base", "lift"}, Drive(d)
  PROVE  ActionEnds
<1>1. pc = "act" /\ Now.kind = d /\ UNCHANGED <<runVars, clock, good>>
  BY DEF Drive
<1>2. DoneRight
  BY <1>1 DEF DoneRight
<1>3. CASE WriteFails(d) /\ UNCHANGED sent /\ Raises
  BY <1>1, <1>2, <1>3, WriteFailsStep DEF ActionEnds, Busy
<1>4. CASE sent' = (IF BoardOf(d) \in links THEN sent \cup {cur} ELSE sent)
           /\ UNCHANGED linkVars /\ Ends
  BY <1>1, <1>2, <1>4 DEF ActionEnds, Busy, TypeOK, linkVars, Ends
<1> QED BY <1>3, <1>4 DEF Drive

LEMMA ArmEnds == ASSUME TypeOK, MoveArm PROVE ActionEnds
<1>1. pc = "act" /\ Now.kind = "arm" /\ UNCHANGED <<runVars, clock, good>>
  BY DEF MoveArm
<1>2. CASE WriteFails("arm") /\ UNCHANGED sent /\ Raises
  BY <1>1, <1>2, WriteFailsStep DEF ActionEnds, Busy
<1>3. CASE "p4" \notin links /\ UNCHANGED <<sent, linkVars>> /\ Raises
  BY <1>1, <1>3 DEF ActionEnds, Busy, TypeOK, linkVars
<1>4. CASE "p4" \in links /\ sent' = sent \cup {cur} /\ UNCHANGED linkVars /\ Ends
  <2>1. DoneRight
    BY <1>1, <1>4 DEF DoneRight
  <2> QED BY <1>1, <1>4, <2>1 DEF ActionEnds, Busy, TypeOK, linkVars, Ends
<1> QED BY <1>2, <1>3, <1>4 DEF MoveArm

LEMMA WaitEnds == ASSUME TypeOK, Wait \/ SkipCheckpoint PROVE ActionEnds
<1>1. DoneRight /\ pc = "act" /\ UNCHANGED <<runVars, linkVars, clock, sent, good>> /\ Ends
  BY DEF Wait, SkipCheckpoint, DoneRight
<1> QED BY <1>1 DEF ActionEnds, Busy, TypeOK, linkVars, Ends

\* A servo loop ends its checkpoint well only with the frame as expected, or when
\* the checkpoint is not strict.  What is looked at is a vision action.
LEMMA LookEnds ==
  ASSUME TypeOK, Now.kind \in {"checkpoint", "follow"},
         LookGood \/ LookGivesUp \/ LookRaises \/ ItersOver \/ DeadlineOver
  PROVE  ActionEnds
<1>1. pc = "look" /\ UNCHANGED <<runVars, linkVars, clock, sent>>
  BY DEF LookGood, LookGivesUp, LookRaises, ItersOver, DeadlineOver
<1>2. CASE LookGood
  <2>1. DoneRight
    BY <1>2 DEF LookGood, DoneRight
  <2> QED BY <1>1, <1>2, <2>1 DEF LookGood, ActionEnds, Busy, TypeOK, linkVars, Ends
<1>3. ASSUME UNCHANGED good, VisionFails PROVE ActionEnds
  <2>1. Raises \/ (Completes /\ DoneRight)
    BY <1>3 DEF VisionFails, Ends, DoneRight
  <2> QED BY <1>1, <1>3, <2>1 DEF ActionEnds, Busy, TypeOK, linkVars
<1>4. CASE (DeadlineOver \/ LookRaises) /\ Raises
  BY <1>1, <1>4 DEF DeadlineOver, LookRaises, ActionEnds, Busy, TypeOK, linkVars
<1> QED BY <1>2, <1>3, <1>4 DEF LookGivesUp, LookRaises, ItersOver, DeadlineOver

LEMMA CorrectsStep == ASSUME TypeOK, LookCorrects PROVE Iterates \/ ActionEnds
<1>1. CASE WriteFails("base") /\ Raises
  BY <1>1, WriteFailsStep DEF LookCorrects, ActionEnds, Busy, runVars
<1>2. CASE iter' = iter + 1 /\ UNCHANGED <<linkVars, pc, cur, elapsed, completed, failed, toStop, up>>
  BY <1>2 DEF LookCorrects, Iterates
<1> QED BY <1>1, <1>2 DEF LookCorrects

-----------------------------------------------------------------------------
(* Types.                                                                  *)

\* The two ends of an action keep the types of what they change.
LEMMA EndTypes ==
  ASSUME TypeOK, StopInv, pc \in Busy, script' = script, Raises \/ Completes,
         links' \subseteq links
  PROVE  /\ pc' \in {"loop", "stopping"} /\ cur' = 0 /\ elapsed' = 0 /\ iter' = 0
         /\ completed' \subseteq Acts /\ failed' \subseteq Acts
         /\ toStop' \in Seq(Devices) /\ up' \subseteq links'
<1>1. cur \in Acts
  BY DEF TypeOK, Busy
<1>2. up = {}
  BY DEF StopInv, Busy
<1>3. <<"base", "lift", "arm">> \in Seq(Devices)
  BY DEF Devices
<1>4. CASE Completes
  BY <1>1, <1>2, <1>4 DEF TypeOK, Completes
<1>5. CASE Raises /\ Now.tolerant
  BY <1>1, <1>2, <1>5 DEF TypeOK, Raises
<1>6. CASE Raises /\ ~Now.tolerant
  <2> USE <1>1, <1>2, <1>6 DEF Raises
  <2>1. toStop' = <<"base", "lift", "arm">> /\ up' = links' /\ completed' = completed
    OBVIOUS
  <2> QED BY <2>1, <1>3 DEF TypeOK
<1> QED BY <1>4, <1>5, <1>6

LEMMA ActTypes == ASSUME TypeOK, StopInv, ActionEnds PROVE TypeOK'
<1>1. /\ pc' \in {"loop", "stopping"} /\ cur' = 0 /\ elapsed' = 0 /\ iter' = 0
      /\ completed' \subseteq Acts /\ failed' \subseteq Acts
      /\ toStop' \in Seq(Devices) /\ up' \subseteq links'
  BY EndTypes DEF ActionEnds, runVars
<1>2. 0 \in 0..MaxClock
  BY ExecutorAssumption DEF ExecutorAssumption
<1>3. cur \in Acts
  BY DEF TypeOK, ActionEnds, Busy
<1>4. sent' \subseteq Acts /\ good' \subseteq Acts
  BY <1>3 DEF TypeOK, ActionEnds
<1> QED BY <1>1, <1>2, <1>4 DEF TypeOK, ActionEnds, runVars

\* What a step is: the end of an action or one of these.
LEMMA Steps ==
  ASSUME TypeOK, CtlInv, [Next]_vars
  PROVE  \/ LinkChanges \/ Second \/ UNCHANGED vars
         \/ WaitForClients \/ Choose \/ Finish \/ BeginVision
         \/ Iterates \/ ActionEnds \/ StopNext \/ StopEnds
<1>1. CASE MoveBase \/ MoveLift
  BY <1>1, DriveEnds DEF MoveBase, MoveLift
<1>2. CASE MoveArm \/ Wait \/ SkipCheckpoint
  BY <1>2, ArmEnds, WaitEnds
<1>3. CASE LookGood \/ LookGivesUp \/ LookRaises \/ ItersOver \/ DeadlineOver
  <2>1. Now.kind \in {"checkpoint", "follow"}
    BY <1>3 DEF CtlInv, LookGood, LookGivesUp, LookRaises, ItersOver, DeadlineOver
  <2> QED BY <1>3, <2>1, LookEnds
<1>4. CASE LookCorrects
  BY <1>4, CorrectsStep
<1> QED BY <1>1, <1>2, <1>3, <1>4 DEF Next, Execute

LEMMA InitTypes == Init => TypeOK
<1>1. 0 \in 0..MaxClock /\ 0 \in 0..MaxChanges /\ <<>> \in Seq(Devices)
  BY ExecutorAssumption DEF ExecutorAssumption
<1>2. Init => script \in [Acts -> Action]
  BY ExecutorAssumption DEF ExecutorAssumption, Init
<1> QED BY <1>1, <1>2 DEF Init, TypeOK

LEMMA NextTypes == IInv /\ [Next]_vars => TypeOK'
<1> SUFFICES ASSUME IInv, [Next]_vars PROVE TypeOK'
  OBVIOUS
<1>0. TypeOK /\ CtlInv /\ StopInv /\ MaxClock \in Nat /\ 0 \in 0..MaxClock
  BY ExecutorAssumption DEF ExecutorAssumption, IInv
<1>1. CASE LinkChanges
  <2>1. links' \subseteq Boards /\ changes' \in 0..MaxChanges
    BY <1>0, <1>1, ExecutorAssumption DEF LinkChanges, TypeOK, ExecutorAssumption
  <2> QED BY <1>0, <1>1, <2>1 DEF LinkChanges, TypeOK, runVars, Now
<1>2. CASE Second
  <2>1. clock' \in 0..MaxClock /\ elapsed' \in 0..MaxClock
    BY <1>0, <1>2 DEF Second, LaterOf, TypeOK
  <2> QED BY <1>0, <1>2, <2>1 DEF Second, TypeOK, runVars, linkVars, Now
<1>3. CASE WaitForClients \/ Finish \/ StopEnds \/ UNCHANGED vars
  BY <1>0, <1>3 DEF WaitForClients, Finish, StopEnds, vars, TypeOK, runVars, linkVars, Now
<1>4. CASE Choose
  <2>1. cur' \in Acts /\ cur' # 0
    BY <1>4, ChosenIsRunnable, ZeroNotAct DEF Runnable
  <2>2. Now'.iters \in Nat
    BY <1>0, <1>4, <2>1 DEF Now, TypeOK, Choose, runVars, Action
  <2> QED BY <1>0, <1>4, <2>1, <2>2 DEF Choose, TypeOK, runVars, linkVars
<1>5. CASE BeginVision
  BY <1>0, <1>5 DEF BeginVision, TypeOK, runVars, linkVars, Now
<1>6. CASE Iterates
  <2>1. cur \in Acts
    BY <1>0, <1>6 DEF Iterates, TypeOK
  <2>2. Now.iters \in Nat
    BY <1>0, <2>1 DEF Now, TypeOK, Action
  <2>3. iter' \in Nat /\ iter' <= Now.iters /\ Now' = Now
    BY <1>0, <1>6, <2>2 DEF Iterates, TypeOK, Now, runVars
  <2> QED BY <1>0, <1>6, <2>3 DEF Iterates, TypeOK, runVars, linkVars
<1>7. CASE ActionEnds
  BY <1>0, <1>7, ActTypes
<1>8. CASE StopNext
  <2>1. toStop \in Stops /\ toStop # <<>>
    BY <1>0, <1>8 DEF StopInv, StopNext
  <2>2. Head(toStop) \in Devices /\ toStop' \in Seq(Devices)
    BY <1>8, <2>1, StopsStep, StopsAreSeq DEF StopNext
  <2>3. CASE WriteFails(Head(toStop)) /\ up' = up \ {BoardOf(Head(toStop))} /\ UNCHANGED stopped
    BY <1>0, <1>8, <2>2, <2>3, WriteFailsStep DEF StopNext, WriteFails, TypeOK, Now
  <2>4. CASE /\ stopped' = IF BoardOf(Head(toStop)) \in links THEN stopped \cup {Head(toStop)} ELSE stopped
             /\ UNCHANGED <<linkVars, up>>
    BY <1>0, <1>8, <2>2, <2>4 DEF StopNext, TypeOK, linkVars, Now
  <2> QED BY <1>8, <2>3, <2>4 DEF StopNext
<1> QED BY <1>0, <1>1, <1>2, <1>3, <1>4, <1>5, <1>6, <1>7, <1>8, Steps

-----------------------------------------------------------------------------
(* Control.                                                                *)

\* Away from the end of an action the sets and the outcome stay.
LEMMA ActCtl == ASSUME TypeOK, CtlInv, ActionEnds PROVE CtlInv'
<1>0. /\ cur \in Acts \ completed /\ outcome = "none" /\ pc \in Busy /\ pc \notin {"stopping", "end"}
      /\ UNCHANGED <<script, outcome>> /\ Tolerant' = Tolerant
  BY DEF ActionEnds, CtlInv, TypeOK, Busy, runVars, Tolerant
<1>1. failed \subseteq completed /\ failed \subseteq Tolerant
  BY <1>0 DEF CtlInv
<1>2. CASE Completes
  BY <1>0, <1>1, <1>2 DEF Completes, CtlInv
<1>3. CASE Raises /\ Now.tolerant
  <2>1. cur \in Tolerant
    BY <1>0, <1>3 DEF Tolerant, Now
  <2>2. /\ failed' = failed \cup {cur} /\ completed' = completed \cup {cur}
        /\ pc' = "loop" /\ cur' = 0
    BY <1>3 DEF Raises
  <2> QED BY <1>0, <1>1, <2>1, <2>2 DEF CtlInv
<1>4. CASE Raises /\ ~Now.tolerant
  <2>1. cur \notin Tolerant
    BY <1>0, <1>4 DEF Tolerant, Now
  <2>2. failed' = failed \cup {cur} /\ completed' = completed /\ pc' = "stopping" /\ cur' = 0
    BY <1>4 DEF Raises
  <2> QED BY <1>0, <1>1, <2>1, <2>2 DEF CtlInv
<1> QED BY <1>2, <1>3, <1>4 DEF ActionEnds

LEMMA NextCtl == TypeOK /\ CtlInv /\ [Next]_vars => CtlInv'
<1> SUFFICES ASSUME TypeOK, CtlInv, [Next]_vars PROVE CtlInv'
  OBVIOUS
<1>1. ASSUME UNCHANGED <<script, outcome, pc, cur, completed, failed>> PROVE CtlInv'
  BY <1>1 DEF CtlInv, Tolerant, Now
<1>2. CASE LinkChanges \/ Second \/ Iterates \/ UNCHANGED vars
  BY <1>1, <1>2 DEF LinkChanges, Second, Iterates, vars, runVars
<1>3. CASE WaitForClients \/ Finish \/ StopEnds \/ BeginVision
  BY <1>3 DEF WaitForClients, Finish, StopEnds, BeginVision, CtlInv, TypeOK, Tolerant, Now, runVars
<1>4. CASE Choose
  <2>1. cur' \in Acts \ completed
    BY <1>4, ChosenIsRunnable DEF Runnable
  <2> QED BY <1>4, <2>1 DEF Choose, CtlInv, Tolerant, runVars
<1>5. CASE ActionEnds
  BY <1>5, ActCtl
<1>6. CASE StopNext
  BY <1>1, <1>6 DEF StopNext
<1> QED BY <1>2, <1>3, <1>4, <1>5, <1>6, Steps

-----------------------------------------------------------------------------
(* stop_all.                                                               *)

LEMMA StopStep ==
  ASSUME TypeOK, StopInv, StopNext
  PROVE  /\ toStop' \in Stops
         /\ \A d \in Devices : BoardOf(d) \in up' => d \in stopped' \cup Left(toStop')
<1> DEFINE h == Head(toStop)
<1>1. pc = "stopping" /\ toStop \in Stops /\ toStop # <<>> /\ toStop' = Tail(toStop)
  BY DEF StopNext, StopInv
<1>2. h \in Devices /\ toStop' \in Stops /\ Left(toStop) \subseteq {h} \cup Left(toStop')
  BY <1>1, StopsStep
<1>3. up' \subseteq up /\ stopped \subseteq stopped'
  BY DEF StopNext
<1>4. BoardOf(h) \in up' => h \in stopped'
  <2>1. up \subseteq links
    BY DEF TypeOK
  <2>2. CASE up' = up \ {BoardOf(h)}
    BY <2>2
  <2>3. CASE stopped' = (IF BoardOf(h) \in links THEN stopped \cup {h} ELSE stopped) /\ UNCHANGED up
    BY <2>1, <2>3
  <2> QED BY <2>2, <2>3 DEF StopNext
<1>5. \A d \in Devices : BoardOf(d) \in up => d \in stopped \cup Left(toStop)
  BY <1>1 DEF StopInv
<1> HIDE DEF h
<1> QED BY <1>2, <1>3, <1>4, <1>5

LEMMA NextStop == TypeOK /\ CtlInv /\ StopInv /\ [Next]_vars => StopInv'
<1> SUFFICES ASSUME TypeOK, CtlInv, StopInv, [Next]_vars PROVE StopInv'
  OBVIOUS
<1>1. ASSUME UNCHANGED <<outcome, stopped, toStop>>, up' \subseteq up,
             pc' = pc \/ (pc \notin {"stopping", "end"} /\ pc' \notin {"stopping", "end"})
      PROVE  StopInv'
  BY <1>1 DEF StopInv, CtlInv
<1>2. CASE LinkChanges \/ Second \/ Iterates \/ WaitForClients \/ Choose \/ BeginVision
           \/ UNCHANGED vars
  BY <1>1, <1>2 DEF LinkChanges, Second, Iterates, WaitForClients, Choose, BeginVision, vars, runVars
<1>3. CASE Finish \/ StopEnds
  BY <1>3, NothingLeft DEF Finish, StopEnds, StopInv
<1>4. CASE ActionEnds
  <2>1. up = {} /\ pc \in Busy /\ outcome = "none" /\ UNCHANGED <<outcome, stopped>>
    BY <1>4 DEF ActionEnds, StopInv, CtlInv, Busy, runVars
  <2>2. CASE Completes \/ (Raises /\ Now.tolerant)
    <3>1. UNCHANGED <<toStop, up>> /\ pc' = "loop"
      BY <2>2 DEF Completes, Raises
    <3> QED BY <2>1, <3>1 DEF StopInv, Busy
  <2>3. CASE Raises /\ ~Now.tolerant
    <3>1. toStop' = <<"base", "lift", "arm">> /\ pc' = "stopping"
      BY <2>3 DEF Raises
    <3> QED BY <2>1, <3>1, NothingLeft DEF StopInv, Stops
  <2> QED BY <1>4, <2>2, <2>3 DEF ActionEnds
<1>5. CASE StopNext
  <2>1. pc = "stopping" /\ UNCHANGED <<pc, outcome>> /\ outcome # "error"
    BY <1>5 DEF StopNext, CtlInv
  <2> QED BY <1>5, <2>1, StopStep DEF StopInv
<1> QED BY <1>2, <1>3, <1>4, <1>5, Steps

-----------------------------------------------------------------------------
(* What a completed action has done.                                       *)

LEMMA NextDone == TypeOK /\ CtlInv /\ CompletedMeansDone /\ [Next]_vars => CompletedMeansDone'
<1> SUFFICES ASSUME TypeOK, CtlInv, CompletedMeansDone, [Next]_vars PROVE CompletedMeansDone'
  OBVIOUS
<1>1. ASSUME UNCHANGED <<script, completed, sent, good, failed>> PROVE CompletedMeansDone'
  BY <1>1 DEF CompletedMeansDone
<1>2. CASE ActionEnds
  <2>1. UNCHANGED script /\ sent \subseteq sent' /\ good \subseteq good'
    BY <1>2 DEF ActionEnds, runVars
  <2>2. CASE Raises
    <3>1. completed' \ failed' \subseteq completed \ failed
      BY <2>2 DEF Raises
    <3> QED BY <2>1, <3>1 DEF CompletedMeansDone
  <2>3. CASE Completes /\ DoneRight
    <3>1. completed' = completed \cup {cur} /\ failed' = failed
      BY <2>3 DEF Completes
    <3> QED BY <2>1, <2>3, <3>1 DEF CompletedMeansDone, DoneRight, Now
  <2> QED BY <1>2, <2>2, <2>3 DEF ActionEnds
<1>3. CASE LinkChanges \/ Second \/ UNCHANGED vars \/ WaitForClients \/ Choose \/ Finish
           \/ BeginVision \/ Iterates \/ StopNext \/ StopEnds
  BY <1>1, <1>3 DEF LinkChanges, Second, vars, WaitForClients, Choose, Finish, BeginVision,
                    Iterates, StopNext, StopEnds, runVars
<1> QED BY <1>2, <1>3, Steps

-----------------------------------------------------------------------------
(* The theorems.                                                           *)

LEMMA InitInv == Init => IInv
<1>1. Init => CtlInv
  BY DEF Init, CtlInv
<1>2. Init => StopInv
  BY DEF Init, StopInv, Stops
<1>3. Init => CompletedMeansDone
  BY DEF Init, CompletedMeansDone
<1> QED BY <1>1, <1>2, <1>3, InitTypes DEF IInv

LEMMA NextInv == IInv /\ [Next]_vars => IInv'
  BY NextTypes, NextCtl, NextStop, NextDone DEF IInv

\* The inductive invariant holds of every reachable state.
THEOREM ExecutorInvariance == Spec => []IInv
  BY InitInv, NextInv, PTL DEF Spec

\* Every variable keeps its type; in particular a servo loop never exceeds the
\* max_iters of its action, and what is credited to have stayed connected is.
THEOREM ExecutorTypeCorrect == Spec => []TypeOK
<1>1. IInv => TypeOK BY DEF IInv
<1> QED BY <1>1, ExecutorInvariance, PTL

\* When the script ends with an error, every device whose board has been connected
\* since the failure got its stop.
THEOREM StopReachesAllHolds == Spec => []StopReachesAll
<1>1. IInv => StopReachesAll
  BY NothingLeft DEF IInv, StopInv, StopReachesAll
<1> QED BY <1>1, ExecutorInvariance, PTL

\* An arm action that counts as done was written, and a strict checkpoint that
\* counts as done has seen the expected frame.
THEOREM CompletedMeansDoneHolds == Spec => []CompletedMeansDone
<1>1. IInv => CompletedMeansDone BY DEF IInv
<1> QED BY <1>1, ExecutorInvariance, PTL

-----------------------------------------------------------------------------
(* Refinement: each step of the executor is a step of the abstract timeline *)
(* or leaves it alone.                                                     *)

depsBar == [a \in Acts |-> script[a].deps]

LEMMA InitRefines == Init => Timeline!Init
<1> SUFFICES ASSUME Init PROVE Timeline!Init
  OBVIOUS
<1>1. depsBar \in [Acts -> SUBSET Acts]
  BY ExecutorAssumption DEF ExecutorAssumption, Init, Action, depsBar
<1>2. Status = [a \in Acts |-> "waiting"]
  BY ZeroNotAct DEF Init, Status
<1>3. Verdict = "none"
  BY DEF Init, Verdict
<1> QED BY <1>1, <1>2, <1>3 DEF Timeline!Init, depsBar

\* The abstract view of a state.
LEMMA View ==
  ASSUME IInv
  PROVE  /\ \A a \in Acts : Status[a] = IF a \in failed THEN "failed"
                                       ELSE IF a \in completed THEN "ok"
                                       ELSE IF a = cur THEN "running" ELSE "waiting"
         /\ Timeline!Finished = completed
         /\ Timeline!Running = (IF cur = 0 THEN {} ELSE {cur})
<1>1. \A a \in Acts : Status[a] = IF a \in failed THEN "failed"
                                ELSE IF a \in completed THEN "ok"
                                ELSE IF a = cur THEN "running" ELSE "waiting"
  BY DEF Status
<1>2. completed \subseteq Acts
  BY DEF IInv, TypeOK
<1>3. \A a \in failed : a \in completed <=> a \in Tolerant
  BY DEF IInv, TypeOK, CtlInv, Tolerant
<1>4. Timeline!Finished = completed
  BY <1>1, <1>2, <1>3 DEF Timeline!Finished, Tolerant
<1>5. cur \notin failed \/ cur = 0
  BY DEF IInv, TypeOK, CtlInv
<1>6. cur # 0 => cur \in Acts \ completed
  BY DEF IInv, CtlInv
<1>7. Timeline!Running = (IF cur = 0 THEN {} ELSE {cur})
  BY <1>1, <1>5, <1>6, ZeroNotAct DEF Timeline!Running
<1> QED BY <1>1, <1>4, <1>7

LEMMA ChooseRefines ==
  ASSUME IInv, Choose
  PROVE  Timeline!Begin(cur')
<1>1. /\ cur = 0 /\ pc = "loop" /\ pc' = "act" /\ outcome = "none"
      /\ UNCHANGED <<script, outcome, completed, failed>>
  BY DEF IInv, TypeOK, CtlInv, Choose, runVars
<1>2. cur' \in Acts \ completed /\ script[cur'].deps \subseteq completed
  BY ChosenIsRunnable DEF Runnable, CanStart
<1>3. cur' \notin failed
  BY <1>1, <1>2 DEF IInv, CtlInv
<1>4. Status' = [Status EXCEPT ![cur'] = "running"]
  BY <1>1, <1>2, <1>3, ZeroNotAct DEF Status
<1>5. Status[cur'] = "waiting" /\ Timeline!Finished = completed /\ Timeline!Running = {}
  BY <1>1, <1>2, <1>3, View, ZeroNotAct
<1>6. cur' \in Timeline!Ready
  BY <1>2, <1>5 DEF Timeline!Ready
<1>7. Verdict = "none" /\ Verdict' = "none"
  BY <1>1 DEF Verdict
<1> QED BY <1>1, <1>4, <1>5, <1>6, <1>7 DEF Timeline!Begin

LEMMA EndRefines ==
  ASSUME IInv, ActionEnds
  PROVE  cur \in Acts /\ (Timeline!Succeed(cur) \/ Timeline!Fail(cur))
<1>1. /\ cur \in Acts \ completed /\ cur # 0 /\ pc \in Busy /\ outcome = "none"
      /\ UNCHANGED <<script, outcome>>
  BY DEF IInv, TypeOK, CtlInv, ActionEnds, Busy, runVars
<1>2. cur \notin failed
  BY <1>1 DEF IInv, CtlInv, Busy
<1>3. Status[cur] = "running" /\ Verdict = "none"
  BY <1>1, <1>2, View DEF Verdict, Busy
<1>4. CASE Completes
  <2>1. completed' = completed \cup {cur} /\ failed' = failed /\ cur' = 0 /\ pc' = "loop"
    BY <1>4 DEF Completes
  <2>2. Status' = [Status EXCEPT ![cur] = "ok"] /\ Verdict' = "none"
    BY <1>1, <1>2, <2>1, ZeroNotAct DEF Status, Verdict
  <2> QED BY <1>1, <1>3, <2>2 DEF Timeline!Succeed
<1>5. CASE Raises
  <2>1. failed' = failed \cup {cur} /\ cur' = 0 /\ completed \subseteq completed' 
        /\ completed' \subseteq completed \cup {cur}
        /\ pc' = (IF Now.tolerant THEN "loop" ELSE "stopping")
    BY <1>5 DEF Raises
  <2>2. Status' = [Status EXCEPT ![cur] = "failed"]
    BY <1>1, <1>2, <2>1, ZeroNotAct DEF Status
  <2>3. Verdict' = IF cur \in Tolerant THEN "none" ELSE "stopped"
    BY <1>1, <2>1 DEF Verdict, Tolerant, Now
  <2> QED BY <1>1, <1>3, <2>2, <2>3 DEF Timeline!Fail, Tolerant
<1> QED BY <1>1, <1>4, <1>5 DEF ActionEnds

LEMMA FinishRefines == ASSUME IInv, Finish PROVE Timeline!Complete
<1>1. outcome = "none" /\ Timeline!Finished = Acts
  BY View DEF IInv, CtlInv, Finish
<1>2. Verdict = "none" /\ Verdict' = "completed" /\ Status' = Status /\ script' = script
  BY <1>1 DEF Finish, Verdict, Status, linkVars
<1> QED BY <1>1, <1>2 DEF Timeline!Complete

LEMMA StepRefines == IInv /\ [Next]_vars => [Timeline!Next]_(Timeline!vars)
<1> SUFFICES ASSUME IInv, [Next]_vars PROVE Timeline!Next \/ UNCHANGED Timeline!vars
  OBVIOUS
<1>1. ASSUME UNCHANGED <<script, cur, completed, failed>>, Verdict' = Verdict
      PROVE  UNCHANGED Timeline!vars
  BY <1>1 DEF Timeline!vars, Status
<1>2. CASE LinkChanges \/ Second \/ Iterates \/ WaitForClients \/ BeginVision \/ StopNext
           \/ UNCHANGED vars
  <2>1. UNCHANGED <<script, cur, completed, failed, outcome>>
        /\ (pc' = pc \/ (pc # "stopping" /\ pc' # "stopping"))
    BY <1>2 DEF LinkChanges, Second, Iterates, WaitForClients, BeginVision, StopNext, vars, runVars
  <2> QED BY <1>1, <2>1 DEF Verdict
<1>3. CASE StopEnds
  <2>1. Verdict = "stopped" /\ Verdict' = "stopped"
    BY <1>3 DEF StopEnds, Verdict
  <2> QED BY <1>1, <1>3, <2>1 DEF StopEnds
<1>4. CASE Choose
  BY <1>4, ChooseRefines, ChosenIsRunnable DEF Timeline!Next, Runnable
<1>5. CASE ActionEnds
  BY <1>5, EndRefines DEF Timeline!Next
<1>6. CASE Finish
  BY <1>6, FinishRefines DEF Timeline!Next
<1> QED BY <1>2, <1>3, <1>4, <1>5, <1>6, Steps DEF IInv

\* The executor implements the abstract timeline: order, failure policy and verdict
\* are those of module Timeline, which TimelineScheduler implements as well.
THEOREM ExecutorImplementsTimeline == Spec => Timeline_Spec
  BY InitRefines, StepRefines, ExecutorInvariance, PTL DEF Spec, Timeline_Spec, Timeline!Spec
================================================================================
