----------------------- MODULE TimelineScheduler_proofs -----------------------
(***************************************************************************)
(* Proofs about TimelineScheduler, for every timeline length, every set of *)
(* boards and every set of plans.                                          *)
(***************************************************************************)
EXTENDS TimelineScheduler, WellFoundedInduction, TLAPS

-----------------------------------------------------------------------------
(* Type correctness.  A busy worker always has a current action, without   *)
(* which the commands it sends would not be well typed.                    *)

CurOK == pc \in Busy => cur # 0

LEMMA ZeroNotAction == 0 \notin Actions
  BY SchedulerAssumption DEF Actions

LEMMA InitType == Init => TypeOK /\ CurOK
  BY SchedulerAssumption DEF Init, TypeOK, CurOK, Busy, Actions, PlanType

LEMMA NextType == TypeOK /\ CurOK /\ [Next]_vars => TypeOK' /\ CurOK'
<1> SUFFICES ASSUME TypeOK, CurOK, [Next]_vars
             PROVE  TypeOK' /\ CurOK'
  OBVIOUS
<1> USE DEF TypeOK, CurOK, Busy
<1>1. CASE BoardsConnected \/ Confirm \/ Cancel
  BY <1>1 DEF BoardsConnected, Confirm, Cancel, Return, net
<1>2. CASE Select
  <2>1. CASE SelectAction
    <3>1. cur' \in Actions /\ cur' # 0
      BY <2>1, ZeroNotAction DEF SelectAction, Ready
    <3> QED
      BY <2>1, <3>1 DEF SelectAction, net
  <2>2. CASE AllDone \/ NoneReady
    BY <2>2 DEF AllDone, NoneReady, Return
  <2> QED
    BY <1>2, <2>1, <2>2 DEF Select
<1>3. CASE Run
  BY <1>3 DEF Run, RunSend, RunWait, RunLocal, RunWarning, RunCheckpoint,
              Succeed, Fail, Return, net, PlanType
<1>4. CASE PumpEnds \/ PumpQuit \/ CheckpointRaises
  BY <1>4 DEF PumpEnds, PumpQuit, CheckpointRaises, Succeed, Fail, Return
<1>5. CASE Send
  BY <1>5 DEF Send, ResetAcks, SendCmd, SendRaises, PollDone, PollError, AckTimeout,
              CommandDone, Succeed, Fail, Return, net, curCmd, Cmd, PlanType
<1>6. CASE Vision
  BY <1>6 DEF Vision, VisionTimeout, VisionMiss, VisionSatisfied, VisionNoCommand,
              VisionCorrect, VisionExhausted, Succeed, Fail, Return, net
<1>7. CASE BoardsNext
  <2>1. ASSUME NEW b \in Boards, Accept(b) \/ Disconnect(b)
        PROVE  TypeOK' /\ CurOK'
    BY <2>1 DEF Accept, Disconnect, worker
  <2>2. ASSUME NEW m \in wire, Receive(m)
        PROVE  TypeOK' /\ CurOK'
    BY <2>2 DEF Receive, worker
  <2>3. ASSUME NEW c \in active, NEW k \in {"done", "error"}, BoardStarts(c) \/ BoardEnds(c, k)
        PROVE  TypeOK' /\ CurOK'
    <3>1. wire' \subseteq Cmd \X AckKinds
      BY <2>3 DEF BoardStarts, BoardEnds, Answer, AckKinds
    <3> QED
      BY <2>3, <3>1 DEF BoardStarts, BoardEnds, worker
  <2> QED
    BY <1>7, <2>1, <2>2, <2>3 DEF BoardsNext
<1>8. CASE Tick
  <2>1. plan.horizon \in Nat
    BY DEF PlanType
  <2> QED
    BY <1>8, <2>1 DEF Tick, net
<1>9. CASE UNCHANGED vars
  BY <1>9 DEF vars, worker, net
<1> QED
  BY <1>1, <1>2, <1>3, <1>4, <1>5, <1>6, <1>7, <1>8, <1>9 DEF Next, Worker, User

\* Every variable keeps its type (TypeOK), whatever the plan.
THEOREM TypeCorrect == Spec => []TypeOK
  BY InitType, NextType, PTL DEF Spec

-----------------------------------------------------------------------------
(* Control: the sets, the current action and the verdict.                  *)

LEMMA CtlImpliesCurOK == CtlInv => CurOK
  BY DEF CtlInv, CurOK

\* The two ends of an action keep the control invariant.
LEMMA SucceedCtl ==
  ASSUME TypeOK, CtlInv, pc \in Busy, Succeed, UNCHANGED plan
  PROVE  CtlInv'
  BY DEF TypeOK, CtlInv, Busy, Succeed, DepsFinished, VerdictExplained, Tolerant

LEMMA FailCtl ==
  ASSUME TypeOK, CtlInv, pc \in Busy, Fail, UNCHANGED plan
  PROVE  CtlInv'
<1>1. cur \in pending \ failed /\ result = "none" /\ failed \subseteq Tolerant
  BY DEF CtlInv, Busy, VerdictExplained
<1>2. Tolerant' = Tolerant
  BY DEF Tolerant
<1>3. CASE cur \in Tolerant
  BY <1>1, <1>2, <1>3 DEF TypeOK, CtlInv, Busy, Fail, DepsFinished, VerdictExplained
<1>4. CASE cur \notin Tolerant
  <2>1. failed' \ Tolerant = {cur} /\ cur \in failed'
    BY <1>1, <1>4 DEF Fail
  <2> QED
    BY <1>1, <1>2, <1>4, <2>1 DEF TypeOK, CtlInv, Busy, Fail, Return, DepsFinished, VerdictExplained
<1> QED
  BY <1>3, <1>4

LEMMA NextCtl == TypeOK /\ CtlInv /\ [Next]_vars => CtlInv'
<1> SUFFICES ASSUME TypeOK, CtlInv, [Next]_vars
             PROVE  CtlInv'
  OBVIOUS
<1>1. ASSUME UNCHANGED <<plan, cur, pending, done, failed, result>>,
             \/ pc' = pc /\ (iter' = iter \/ pc = "vision")
             \/ pc \in Busy /\ pc' \in Busy \ {"run"}
      PROVE  CtlInv'
  BY <1>1 DEF CtlInv, DepsFinished, VerdictExplained, Tolerant, Busy
<1>2. CASE BoardsConnected \/ Confirm \/ Cancel
  BY <1>2 DEF BoardsConnected, Confirm, Cancel, Return, CtlInv, DepsFinished,
              VerdictExplained, Tolerant, Busy
<1>3. CASE SelectAction
  <2>1. PICK a \in Ready : cur' = a
    BY <1>3 DEF SelectAction
  <2>2. cur' \in pending /\ cur' # 0 /\ plan.deps[cur'] \subseteq done /\ cur' \notin failed
    BY <2>1, <1>3, ZeroNotAction DEF Ready, SelectAction, TypeOK, CtlInv, VerdictExplained
  <2> QED
    BY <2>2, <1>3 DEF SelectAction, CtlInv, DepsFinished, VerdictExplained, Tolerant, Busy
<1>4. CASE AllDone
  BY <1>4 DEF AllDone, Return, TypeOK, CtlInv, DepsFinished, VerdictExplained, Tolerant, Busy
<1>5. CASE NoneReady
  <2>1. \A a \in Actions \ done : plan.deps[a] \cap (Actions \ done) # {}
    <3> SUFFICES ASSUME NEW a \in Actions \ done
                 PROVE  plan.deps[a] \cap (Actions \ done) # {}
      OBVIOUS
    <3>1. plan.deps[a] \subseteq Actions
      BY DEF TypeOK, PlanType
    <3>2. a \in pending /\ ~(plan.deps[a] \subseteq done)
      BY <1>5 DEF NoneReady, Ready, CtlInv
    <3> QED
      BY <3>1, <3>2
  <2> QED
    BY <1>5, <2>1 DEF NoneReady, Return, TypeOK, CtlInv, DepsFinished, VerdictExplained, Tolerant, Busy
<1>6. CASE Run
  BY <1>6, <1>1, SucceedCtl, FailCtl
     DEF Run, RunSend, RunWait, RunLocal, RunWarning, RunCheckpoint, Busy
<1>7. CASE PumpEnds \/ PumpQuit \/ CheckpointRaises
  <2>1. CASE CheckpointRaises
    BY <2>1 DEF CheckpointRaises, Return, CtlInv, DepsFinished, VerdictExplained, Tolerant, Busy
  <2>2. CASE PumpEnds \/ PumpQuit
    BY <2>2, SucceedCtl, FailCtl DEF PumpEnds, PumpQuit, Busy
  <2> QED
    BY <1>7, <2>1, <2>2
<1>8. CASE Send
  <2>1. CASE SendRaises
    BY <2>1 DEF SendRaises, Return, CtlInv, DepsFinished, VerdictExplained, Tolerant, Busy
  <2>2. CASE ResetAcks \/ SendCmd
    BY <2>2, <1>1 DEF ResetAcks, SendCmd, Busy
  <2>3. CASE PollDone \/ PollError \/ AckTimeout
    BY <2>3, <1>1, SucceedCtl, FailCtl DEF PollDone, PollError, AckTimeout, CommandDone, Busy
  <2> QED
    BY <1>8, <2>1, <2>2, <2>3 DEF Send
<1>9. CASE Vision
  BY <1>9, <1>1, SucceedCtl, FailCtl
     DEF Vision, VisionTimeout, VisionMiss, VisionSatisfied, VisionNoCommand,
         VisionCorrect, VisionExhausted, Busy
<1>10. CASE BoardsNext
  BY <1>10, <1>1 DEF BoardsNext, Accept, Disconnect, Receive, BoardStarts, BoardEnds, worker
<1>11. CASE Tick \/ UNCHANGED vars
  BY <1>11, <1>1 DEF Tick, vars, worker
<1> QED
  BY <1>2, <1>3, <1>4, <1>5, <1>6, <1>7, <1>8, <1>9, <1>10, <1>11
     DEF Next, Worker, User, Select

-----------------------------------------------------------------------------
(* Commands: what is outstanding, and what an answer proves.               *)

\* Ending an action keeps the command invariant when the board has answered
\* the command the worker waited for, or when the action is filed as failed.
LEMMA SucceedCmd ==
  ASSUME TypeOK, CtlInv, CmdInv, pc \in Busy, Succeed, UNCHANGED <<inbox, sent, active>>,
         pc = "await" => curCmd \notin active
  PROVE  CmdInv'
  BY DEF CmdInv, Succeed, curCmd

LEMMA FailCmd ==
  ASSUME TypeOK, CtlInv, CmdInv, pc \in Busy, Fail, UNCHANGED <<inbox, sent, active>>
  PROVE  CmdInv'
<1>1. wire' \subseteq wire
  BY DEF Fail, Return
<1>2. failed' = failed \cup {cur} /\ done \subseteq done'
  BY DEF Fail
<1>3. \A c \in sent' : c[1] \in done' \cup failed'
  BY <1>2 DEF CmdInv, curCmd
<1>4. \A c \in active' : c[1] \in failed'
  BY <1>2 DEF CmdInv, curCmd
<1> QED
  BY <1>1, <1>3, <1>4 DEF CmdInv

LEMMA NextCmd == TypeOK /\ CtlInv /\ CmdInv /\ [Next]_vars => CmdInv'
<1> SUFFICES ASSUME TypeOK, CtlInv, CmdInv, [Next]_vars
             PROVE  CmdInv'
  OBVIOUS
<1>1. CASE BoardsConnected \/ Confirm
  BY <1>1 DEF BoardsConnected, Confirm, CmdInv, net, curCmd
<1>2. CASE Cancel \/ AllDone \/ NoneReady \/ SendRaises \/ CheckpointRaises
  BY <1>2 DEF Cancel, AllDone, NoneReady, SendRaises, CheckpointRaises, Return, CmdInv, curCmd
<1>3. CASE SelectAction
  <2>1. \A c \in sent : c[1] \in done \cup failed
    BY <1>3, ZeroNotAction DEF SelectAction, CmdInv, CtlInv, TypeOK, Cmd
  <2> QED
    BY <1>3, <2>1 DEF SelectAction, CmdInv, net
<1>4. CASE Run
  <2>1. CASE RunCheckpoint
    <3>1. \A c \in sent : c[1] \in done \cup failed
      BY <2>1 DEF RunCheckpoint, CmdInv, CtlInv, TypeOK, Cmd
    <3> QED
      BY <2>1, <3>1 DEF RunCheckpoint, CmdInv, net
  <2>2. CASE RunSend \/ RunWait \/ RunLocal \/ RunWarning
    BY <2>2, SucceedCmd, FailCmd
       DEF RunSend, RunWait, RunLocal, RunWarning, Busy, CmdInv, curCmd
  <2> QED
    BY <1>4, <2>1, <2>2 DEF Run
<1>5. CASE PumpEnds \/ PumpQuit
  BY <1>5, SucceedCmd, FailCmd DEF PumpEnds, PumpQuit, Busy
<1>6. CASE ResetAcks
  BY <1>6 DEF ResetAcks, CmdInv, curCmd
<1>7. CASE SendCmd
  <2>1. curCmd \notin sent
    BY <1>7 DEF SendCmd, CmdInv, CtlInv, Busy, TypeOK, curCmd
  <2>2. \A m \in inbox' \cup wire' : m[1] \in sent' /\ (m[2] # "started" => m[1] \notin active')
    BY <1>7, <2>1 DEF SendCmd, CmdInv
  <2> QED
    BY <1>7, <2>2 DEF SendCmd, CmdInv, curCmd
<1>8. CASE PollDone
  <2>1. curCmd \notin active /\ pc = "await"
    BY <1>8 DEF PollDone, CmdInv
  <2>2. CASE plan.kind[cur] # "checkpoint"
    BY <1>8, <2>1, <2>2, SucceedCmd DEF PollDone, CommandDone, Busy
  <2>3. CASE plan.kind[cur] = "checkpoint"
    <3>1. /\ UNCHANGED <<cur, done, failed, inbox, wire, sent, active>>
          /\ iter' = iter + 1
      BY <1>8, <2>3 DEF PollDone, CommandDone
    <3>2. \A c \in sent' : c[1] \in done' \cup failed' \/ (c[1] = cur' /\ c[2] < iter')
      BY <3>1 DEF CmdInv, curCmd, TypeOK, Cmd
    <3>3. \A c \in active' : c[1] \in failed'
      BY <2>1, <3>1 DEF CmdInv
    <3> QED
      BY <3>1, <3>2, <3>3 DEF CmdInv
  <2> QED
    BY <2>2, <2>3
<1>9. CASE PollError \/ AckTimeout
  BY <1>9, FailCmd DEF PollError, AckTimeout, Busy
<1>10. CASE Vision
  <2>1. CASE VisionMiss \/ VisionCorrect
    <3>1. iter' \in {iter, iter + 1} /\ UNCHANGED <<cur, done, failed, inbox, wire, sent, active>>
          /\ pc = "vision"
      BY <2>1 DEF VisionMiss, VisionCorrect, net
    <3>2. \A c \in sent' : c[1] \in done' \cup failed' \/ (c[1] = cur' /\ c[2] < iter')
      BY <3>1 DEF CmdInv, TypeOK, Cmd
    <3> QED
      BY <3>1, <3>2 DEF CmdInv
  <2>2. CASE VisionTimeout \/ VisionSatisfied \/ VisionNoCommand \/ VisionExhausted
    BY <2>2, SucceedCmd, FailCmd
       DEF VisionTimeout, VisionSatisfied, VisionNoCommand, VisionExhausted, Busy
  <2> QED
    BY <1>10, <2>1, <2>2 DEF Vision
<1>11. CASE BoardsNext
  <2>1. ASSUME NEW b \in Boards, Accept(b) \/ Disconnect(b)
        PROVE  CmdInv'
    BY <2>1 DEF Accept, Disconnect, worker, CmdInv, curCmd
  <2>2. ASSUME NEW m \in wire, Receive(m)
        PROVE  CmdInv'
    BY <2>2 DEF Receive, worker, CmdInv, curCmd
  <2>3. ASSUME NEW c \in active, BoardStarts(c)
        PROVE  CmdInv'
    BY <2>3 DEF BoardStarts, Answer, worker, CmdInv, curCmd
  <2>4. ASSUME NEW c \in active, NEW k \in {"done", "error"}, BoardEnds(c, k)
        PROVE  CmdInv'
    BY <2>4 DEF BoardEnds, Answer, worker, CmdInv, curCmd
  <2> QED
    BY <1>11, <2>1, <2>2, <2>3, <2>4 DEF BoardsNext
<1>12. CASE Tick \/ UNCHANGED vars
  BY <1>12 DEF Tick, vars, worker, net, CmdInv, curCmd
<1> QED
  BY <1>1, <1>2, <1>3, <1>4, <1>5, <1>6, <1>7, <1>8, <1>9, <1>10, <1>11, <1>12
     DEF Next, Worker, User, Select, Send

-----------------------------------------------------------------------------
(* Corrections: what a checkpoint sends stays within max_iters.            *)

LEMMA NextBudget == TypeOK /\ CtlInv /\ BudgetInv /\ [Next]_vars => BudgetInv'
<1> SUFFICES ASSUME TypeOK, CtlInv, BudgetInv, [Next]_vars
             PROVE  BudgetInv'
  OBVIOUS
<1> USE DEF BudgetInv, CorrectionsBounded
<1>1. ASSUME UNCHANGED <<plan, sent>>,
             \/ pc' \notin {"reset", "send", "await"}
             \/ UNCHANGED <<pc, cur, iter>>
      PROVE  BudgetInv'
  BY <1>1
<1>2. CASE BoardsConnected \/ Confirm \/ Cancel \/ Select
  BY <1>2, <1>1 DEF BoardsConnected, Confirm, Cancel, Select, SelectAction, AllDone,
                    NoneReady, Return, net
<1>3. CASE RunSend
  <2>1. iter = 0
    BY <1>3 DEF RunSend, CtlInv
  <2> QED
    BY <1>3, <1>1, <2>1 DEF RunSend, Succeed
<1>4. CASE RunWait \/ RunLocal \/ RunWarning \/ RunCheckpoint \/ CheckpointRaises \/ PumpEnds \/ PumpQuit
  BY <1>4, <1>1 DEF RunWait, RunLocal, RunWarning, RunCheckpoint, CheckpointRaises, PumpEnds, PumpQuit,
                    Succeed, Fail, Return, net
<1>5. CASE ResetAcks
  BY <1>5 DEF ResetAcks
<1>6. CASE SendCmd
  <2>1. \A c \in sent' : c \in sent \/ c = <<cur, iter>>
    BY <1>6 DEF SendCmd, curCmd
  <2>2. pc = "send" /\ UNCHANGED <<plan, cur, iter>>
    BY <1>6 DEF SendCmd
  <2> QED
    BY <2>1, <2>2
<1>7. CASE SendRaises \/ PollDone \/ PollError \/ AckTimeout
  BY <1>7, <1>1 DEF SendRaises, PollDone, PollError, AckTimeout, CommandDone,
                    Succeed, Fail, Return
<1>8. CASE Vision
  <2>1. CASE VisionCorrect
    BY <2>1 DEF VisionCorrect, InBudget, net
  <2>2. CASE ~VisionCorrect
    BY <1>8, <2>2, <1>1 DEF Vision, VisionTimeout, VisionMiss, VisionSatisfied,
                            VisionNoCommand, VisionExhausted, Succeed, Fail, Return, net
  <2> QED
    BY <2>1, <2>2
<1>9. CASE BoardsNext \/ Tick \/ UNCHANGED vars
  BY <1>9, <1>1 DEF BoardsNext, Accept, Disconnect, Receive, BoardStarts, BoardEnds,
                    Tick, vars, worker, net
<1> QED
  BY <1>2, <1>3, <1>4, <1>5, <1>6, <1>7, <1>8, <1>9
     DEF Next, Worker, User, Run, Send

-----------------------------------------------------------------------------
(* The theorems.                                                           *)

LEMMA InitInv == Init => IInv
<1> SUFFICES ASSUME Init
             PROVE  IInv
  OBVIOUS
<1>1. TypeOK
  BY InitType
<1>2. CtlInv
  BY ZeroNotAction DEF Init, CtlInv, DepsFinished, VerdictExplained, Busy
<1>3. CmdInv
  BY DEF Init, CmdInv
<1>4. BudgetInv
  BY DEF Init, BudgetInv, CorrectionsBounded
<1> QED
  BY <1>1, <1>2, <1>3, <1>4 DEF IInv

LEMMA NextInv == IInv /\ [Next]_vars => IInv'
  BY NextType, NextCtl, NextCmd, NextBudget, CtlImpliesCurOK DEF IInv

\* The inductive invariant holds of every reachable state.
THEOREM Invariance == Spec => []IInv
  BY InitInv, NextInv, PTL DEF Spec

\* The worker never moves on while a board still executes one of its commands,
\* unless that command's action has failed.
THEOREM NoOverlapHolds == Spec => []NoOverlap
<1>1. IInv => NoOverlap
  BY DEF IInv, CmdInv, NoOverlap
<1> QED
  BY <1>1, Invariance, PTL

\* No action is started before everything it depends on is done.
THEOREM DepsFinishedHolds == Spec => []DepsFinished
<1>1. IInv => DepsFinished
  BY DEF IInv, CtlInv
<1> QED
  BY <1>1, Invariance, PTL

\* The return code is justified by the fate of the actions.
THEOREM VerdictExplainedHolds == Spec => []VerdictExplained
<1>1. IInv => VerdictExplained
  BY DEF IInv, CtlInv
<1> QED
  BY <1>1, Invariance, PTL

\* A checkpoint never sends more corrections than its max_iters.
THEOREM CorrectionsBoundedHolds == Spec => []CorrectionsBounded
<1>1. IInv => CorrectionsBounded
  BY DEF IInv, BudgetInv
<1> QED
  BY <1>1, Invariance, PTL

\* No answer to a command that was sent is ever dropped from messages_by_cmd.
THEOREM AckKeptHolds == Spec => AckKept
<1>1. IInv /\ [Next]_vars => [\A m \in inbox : m \notin inbox' => m[1] \notin sent]_vars
  <2> SUFFICES ASSUME IInv, Next
               PROVE  \A m \in inbox : m \notin inbox' => m[1] \notin sent
    BY DEF vars
  <2>1. CASE ResetAcks
    <3>1. curCmd \notin sent
      BY <2>1 DEF ResetAcks, IInv, CmdInv, CtlInv, TypeOK, Busy, curCmd
    <3> QED
      BY <2>1, <3>1 DEF ResetAcks
  <2>2. CASE ~ResetAcks
    <3>1. inbox \subseteq inbox'
      BY <2>2 DEF Next, Worker, User, Select, Run, Send, Vision, BoardsNext,
           BoardsConnected, Confirm, Cancel, SelectAction, AllDone, NoneReady,
           RunSend, RunWait, RunLocal, RunWarning, RunCheckpoint, CheckpointRaises, PumpEnds, PumpQuit,
           SendCmd, SendRaises, PollDone, PollError, AckTimeout, VisionTimeout,
           VisionMiss, VisionSatisfied, VisionNoCommand, VisionCorrect, VisionExhausted,
           Accept, Disconnect, Receive, BoardStarts, BoardEnds, Tick, net
    <3> QED
      BY <3>1
  <2> QED
    BY <2>1, <2>2
<1> QED
  BY <1>1, Invariance, PTL DEF Spec, AckKept

\* A command a board has finished with is never given to it again.
THEOREM NotRepeatedHolds == Spec => NotRepeated
<1>1. IInv /\ [Next]_vars => [\A c \in sent : c \notin active => c \notin active']_vars
  <2> SUFFICES ASSUME IInv, Next
               PROVE  \A c \in sent : c \notin active => c \notin active'
    BY DEF vars
  <2>1. CASE SendCmd
    <3>1. curCmd \notin sent
      BY <2>1 DEF SendCmd, IInv, CmdInv, CtlInv, TypeOK, Busy, curCmd
    <3> QED
      BY <2>1, <3>1 DEF SendCmd
  <2>2. CASE ~SendCmd
    <3>1. active' \subseteq active
      BY <2>2 DEF Next, Worker, User, Select, Run, Send, Vision, BoardsNext,
           BoardsConnected, Confirm, Cancel, SelectAction, AllDone, NoneReady,
           RunSend, RunWait, RunLocal, RunWarning, RunCheckpoint, CheckpointRaises, PumpEnds, PumpQuit,
           ResetAcks, SendRaises, PollDone, PollError, AckTimeout, VisionTimeout,
           VisionMiss, VisionSatisfied, VisionNoCommand, VisionCorrect, VisionExhausted,
           Accept, Disconnect, Receive, BoardStarts, BoardEnds, Tick, net
    <3> QED
      BY <3>1
  <2> QED
    BY <2>1, <2>2
<1> QED
  BY <1>1, Invariance, PTL DEF Spec, NotRepeated

-----------------------------------------------------------------------------
(* Refinement: each step of the worker is a step of the abstract timeline  *)
(* or leaves it alone.                                                     *)

statusBar == [a \in Actions |-> StatusOf(a)]

LEMMA InitRefines == Init => T!Init
<1> SUFFICES ASSUME Init
             PROVE  T!Init
  OBVIOUS
<1>1. plan.deps \in [Actions -> SUBSET Actions]
  BY SchedulerAssumption DEF Init, PlanType
<1>2. Tolerant \in SUBSET Actions
  BY DEF Tolerant
<1>3. statusBar = [a \in Actions |-> "waiting"]
  BY ZeroNotAction DEF Init, statusBar, StatusOf
<1>4. VerdictOf = "none"
  BY DEF Init, VerdictOf
<1> QED
  BY <1>1, <1>2, <1>3, <1>4 DEF T!Init, statusBar

\* The abstract view of a state, in the words of the abstract module.
LEMMA FinishedIsDone == IInv => T!Finished = done
<1> SUFFICES ASSUME IInv
             PROVE  T!Finished = done
  OBVIOUS
<1> USE DEF IInv, TypeOK, CtlInv, VerdictExplained
<1>1. ASSUME NEW a \in Actions
      PROVE  a \in done <=> \/ statusBar[a] = "ok"
                            \/ statusBar[a] = "failed" /\ a \in Tolerant
  BY <1>1 DEF statusBar, StatusOf, DepsFinished
<1> QED
  BY <1>1 DEF T!Finished, statusBar

LEMMA RunningIsCur == IInv => T!Running = (IF cur = 0 THEN {} ELSE {cur})
<1> SUFFICES ASSUME IInv
             PROVE  T!Running = (IF cur = 0 THEN {} ELSE {cur})
  OBVIOUS
<1>1. ASSUME NEW a \in Actions
      PROVE  statusBar[a] = "running" <=> a = cur
  BY <1>1, ZeroNotAction DEF statusBar, StatusOf, IInv, CtlInv
<1> QED
  BY <1>1, ZeroNotAction DEF T!Running, statusBar, IInv, TypeOK

LEMMA ReadyAgrees == IInv /\ pc = "select" => T!Ready = Ready
<1> SUFFICES ASSUME IInv, pc = "select"
             PROVE  T!Ready = Ready
  OBVIOUS
<1>1. cur = 0 /\ pending = Actions \ done /\ failed \subseteq done
  BY DEF IInv, CtlInv, VerdictExplained
<1>2. ASSUME NEW a \in Actions
      PROVE  statusBar[a] = "waiting" <=> a \in pending
  BY <1>1, <1>2, ZeroNotAction DEF statusBar, StatusOf
<1> QED
  BY <1>1, <1>2, FinishedIsDone DEF T!Ready, Ready, statusBar

\* The two ends of an action are the abstract Succeed and Fail.
LEMMA SucceedRefines ==
  ASSUME IInv, pc \in Busy, Succeed, UNCHANGED plan
  PROVE  T!Succeed(cur)
<1>1. cur \in Actions /\ cur \notin failed /\ cur \notin done /\ result = "none"
  BY DEF IInv, TypeOK, CtlInv, Busy
<1>2. statusBar[cur] = "running" /\ VerdictOf = "none"
  BY <1>1 DEF statusBar, StatusOf, VerdictOf
<1>3. statusBar' = [statusBar EXCEPT ![cur] = "ok"]
  BY <1>1, ZeroNotAction DEF Succeed, statusBar, StatusOf
<1>4. VerdictOf' = VerdictOf /\ Tolerant' = Tolerant /\ plan.deps' = plan.deps
  BY DEF Succeed, VerdictOf, Tolerant
<1> QED
  BY <1>1, <1>2, <1>3, <1>4 DEF T!Succeed, statusBar

LEMMA FailRefines ==
  ASSUME IInv, pc \in Busy, Fail, UNCHANGED plan
  PROVE  T!Fail(cur)
<1>1. cur \in Actions /\ cur \notin failed /\ cur \notin done /\ result = "none"
  BY DEF IInv, TypeOK, CtlInv, Busy
<1>2. statusBar[cur] = "running" /\ VerdictOf = "none"
  BY <1>1 DEF statusBar, StatusOf, VerdictOf
<1>3. statusBar' = [statusBar EXCEPT ![cur] = "failed"]
  BY <1>1, ZeroNotAction DEF Fail, statusBar, StatusOf
<1>4. VerdictOf' = (IF cur \in Tolerant THEN "none" ELSE "stopped")
  BY <1>1 DEF Fail, Return, VerdictOf
<1>5. Tolerant' = Tolerant /\ plan.deps' = plan.deps
  BY DEF Tolerant
<1> QED
  BY <1>1, <1>2, <1>3, <1>4, <1>5 DEF T!Fail, statusBar

LEMMA StepRefines == IInv /\ [Next]_vars => [T!Next]_(T!vars)
<1> SUFFICES ASSUME IInv, [Next]_vars
             PROVE  T!Next \/ UNCHANGED T!vars
  OBVIOUS
<1> USE DEF T!vars
<1>1. ASSUME UNCHANGED <<plan, cur, done, failed, result>>
      PROVE  UNCHANGED T!vars
  BY <1>1 DEF StatusOf, VerdictOf, Tolerant
<1>2. ASSUME pc \in Busy, Succeed \/ Fail, UNCHANGED plan
      PROVE  T!Next
  <2>1. cur \in Actions
    BY <1>2 DEF IInv, TypeOK, CtlInv, Busy
  <2> QED
    BY <1>2, <2>1, SucceedRefines, FailRefines DEF T!Next
<1>3. CASE SelectAction
  <2>1. PICK a \in Ready : cur' = a
    BY <1>3 DEF SelectAction
  <2>2. /\ cur = 0 /\ a \in Actions /\ a \notin done /\ a \notin failed
        /\ result = "none" /\ pc = "select"
        /\ UNCHANGED <<plan, done, failed, result>>
    BY <1>3, <2>1 DEF SelectAction, Ready, IInv, TypeOK, CtlInv, VerdictExplained
  <2>3. statusBar' = [statusBar EXCEPT ![a] = "running"]
    BY <2>1, <2>2, ZeroNotAction DEF statusBar, StatusOf
  <2>4. T!Running = {} /\ a \in T!Ready
    BY <2>1, <2>2, RunningIsCur, ReadyAgrees
  <2>5. VerdictOf = "none" /\ VerdictOf' = "none" /\ Tolerant' = Tolerant
    BY <2>2 DEF VerdictOf, Tolerant
  <2>6. T!Begin(a)
    BY <2>2, <2>3, <2>4, <2>5 DEF T!Begin, statusBar
  <2> QED
    BY <2>2, <2>6 DEF T!Next
<1>4. ASSUME UNCHANGED <<plan, cur, done, failed>>, result = "none"
      PROVE  statusBar' = statusBar /\ Tolerant' = Tolerant /\ VerdictOf = "none"
  BY <1>4 DEF statusBar, StatusOf, Tolerant, VerdictOf
<1>5. CASE AllDone
  <2>1. T!Finished = Actions
    BY <1>5, FinishedIsDone DEF AllDone, IInv, TypeOK, CtlInv
  <2>2. VerdictOf' = "completed" /\ result = "none" /\ UNCHANGED <<plan, cur, done, failed>>
    BY <1>5 DEF AllDone, Return, VerdictOf, IInv, CtlInv
  <2> QED
    BY <2>1, <2>2, <1>4 DEF T!Next, T!Complete, statusBar
<1>6. CASE NoneReady
  <2>1. T!Finished # Actions /\ T!Running = {} /\ T!Ready = {}
    BY <1>6, FinishedIsDone, RunningIsCur, ReadyAgrees DEF NoneReady, IInv, TypeOK, CtlInv
  <2>2. VerdictOf' = "stuck" /\ result = "none" /\ UNCHANGED <<plan, cur, done, failed>>
    BY <1>6 DEF NoneReady, Return, VerdictOf, IInv, CtlInv
  <2> QED
    BY <2>1, <2>2, <1>4 DEF T!Next, T!Stick, statusBar
<1>7. CASE Cancel \/ SendRaises \/ CheckpointRaises
  <2>1. VerdictOf' = "aborted" /\ result = "none" /\ UNCHANGED <<plan, cur, done, failed>>
    BY <1>7 DEF Cancel, SendRaises, CheckpointRaises, Return, VerdictOf, IInv, CtlInv
  <2> QED
    BY <2>1, <1>4 DEF T!Next, T!Abort, statusBar
<1>8. CASE Run
  BY <1>8, <1>1, <1>2 DEF Run, RunSend, RunWait, RunLocal, RunWarning, RunCheckpoint, Busy
<1>9. CASE PumpEnds \/ PumpQuit
  BY <1>9, <1>2 DEF PumpEnds, PumpQuit, Busy
<1>10. CASE ResetAcks \/ SendCmd \/ PollDone \/ PollError \/ AckTimeout
  BY <1>10, <1>1, <1>2 DEF ResetAcks, SendCmd, PollDone, PollError, AckTimeout, CommandDone, Busy
<1>11. CASE Vision
  BY <1>11, <1>1, <1>2
     DEF Vision, VisionTimeout, VisionMiss, VisionSatisfied, VisionNoCommand,
         VisionCorrect, VisionExhausted, Busy
<1>12. CASE BoardsConnected \/ Confirm \/ BoardsNext \/ Tick \/ UNCHANGED vars
  BY <1>12, <1>1 DEF BoardsConnected, Confirm, BoardsNext, Accept, Disconnect, Receive,
                     BoardStarts, BoardEnds, Tick, vars, worker
<1> QED
  BY <1>3, <1>5, <1>6, <1>7, <1>8, <1>9, <1>10, <1>11, <1>12
     DEF Next, Worker, User, Select, Send

\* The scheduler implements the abstract timeline: order, failure policy and
\* verdict are those of module Timeline.
THEOREM ImplementsTimeline == Spec => Timeline_Spec
  BY InitRefines, StepRefines, Invariance, PTL DEF Spec, Timeline_Spec, T!Spec

-----------------------------------------------------------------------------
(* Adding up durations.  Total is the last entry of a table of partial     *)
(* sums; what it does is shown by induction along the table.               *)

\* Every nonempty set of naturals has a least element.
LEMMA LeastNat ==
  ASSUME NEW S, S \subseteq Nat, S # {}
  PROVE  \E n \in S : \A m \in S : n <= m
<1> DEFINE R == OpToRel(<, Nat)
<1>1. IsWellFoundedOn(R, Nat)
  BY NatLessThanWellFounded, Zenon
<1>2. PICK n \in S : \A m \in S : ~(<<m, n>> \in R)
  BY <1>1, WFMin, Zenon
<1>3. \A m \in S : ~(m < n)
  BY <1>2 DEF OpToRel
<1> QED BY <1>3

\* Induction along 0..n, for membership in a set.
LEMMA Along ==
  ASSUME NEW n \in Nat, NEW S, 0 \in S, \A i \in 1..n : i - 1 \in S => i \in S
  PROVE  0..n \subseteq S
<1> SUFFICES ASSUME (0..n) \ S # {} PROVE FALSE
  OBVIOUS
<1> DEFINE U == (0..n) \ S
<1>0. U \subseteq Nat /\ U # {}
  OBVIOUS
<1> HIDE DEF U
<1>1. PICK i \in U : \A j \in U : i <= j
  BY <1>0, LeastNat
<1> QED BY <1>1 DEF U

\* s is the table of the partial sums of d, up to n.
Table(d, n, s) == s = [i \in 0..n |-> IF i = 0 THEN 0 ELSE s[i - 1] + d[i]]

LEMMA TableEntries ==
  ASSUME NEW d, NEW n \in Nat, NEW s, Table(d, n, s)
  PROVE  s[0] = 0 /\ \A i \in 1..n : s[i] = s[i - 1] + d[i]
<1>1. \A i \in 0..n : s[i] = IF i = 0 THEN 0 ELSE s[i - 1] + d[i]
  BY DEF Table
<1> QED BY <1>1

LEMMA TableExists ==
  ASSUME NEW d \in [Actions -> Nat]
  PROVE  \E s : Table(d, NumActions, s)
<1> DEFINE S == {n \in 0..NumActions : \E s : Table(d, n, s)}
<1>0. NumActions \in Nat
  BY SchedulerAssumption
<1>1. 0 \in S
  <2> DEFINE s == [i \in 0..0 |-> 0]
  <2>1. Table(d, 0, s)
    BY DEF Table
  <2> QED BY <1>0, <2>1
<1>2. ASSUME NEW n \in 1..NumActions, n - 1 \in S
      PROVE  n \in S
  <2>1. PICK s : Table(d, n - 1, s)
    BY <1>2
  <2> DEFINE t == [i \in 0..n |-> IF i = n THEN s[n - 1] + d[n] ELSE s[i]]
  <2>2. s[0] = 0 /\ \A i \in 1..(n - 1) : s[i] = s[i - 1] + d[i]
    BY <2>1, TableEntries
  <2>3. ASSUME NEW i \in 0..n
        PROVE  t[i] = IF i = 0 THEN 0 ELSE t[i - 1] + d[i]
    <3>1. CASE i = 0
      BY <2>2, <3>1
    <3>2. CASE i = n
      <4>1. n - 1 \in 0..n /\ n - 1 # n
        OBVIOUS
      <4> QED BY <3>2, <4>1
    <3>3. CASE i # 0 /\ i # n
      <4>1. i \in 1..(n - 1) /\ i - 1 \in 0..n /\ i - 1 # n
        BY <3>3
      <4> QED BY <2>2, <3>3, <4>1
    <3> QED BY <3>1, <3>2, <3>3
  <2> HIDE DEF t
  <2>4. t = [i \in 0..n |-> t[i]]
    BY DEF t
  <2>5. Table(d, n, t)
    BY <2>3, <2>4 DEF Table
  <2> QED BY <1>0, <2>5
<1>3. 0..NumActions \subseteq S
  BY <1>0, <1>1, <1>2, Along
<1> QED BY <1>0, <1>3

LEMMA TotalIsLast ==
  ASSUME NEW d \in [Actions -> Nat]
  PROVE  \E s : Table(d, NumActions, s) /\ Total(d) = s[NumActions]
  BY TableExists, Zenon DEF Total, Table

\* More for every action is more in total, and a total is a natural number.
LEMMA TotalMonotone ==
  ASSUME NEW d \in [Actions -> Nat], NEW e \in [Actions -> Nat],
         \A a \in Actions : d[a] <= e[a]
  PROVE  Total(d) \in Nat /\ Total(e) \in Nat /\ Total(d) <= Total(e)
<1>0. NumActions \in Nat
  BY SchedulerAssumption
<1>1. PICK s : Table(d, NumActions, s) /\ Total(d) = s[NumActions]
  BY TotalIsLast
<1>2. PICK t : Table(e, NumActions, t) /\ Total(e) = t[NumActions]
  BY TotalIsLast
<1> DEFINE S == {i \in 0..NumActions : s[i] \in Nat /\ t[i] \in Nat /\ s[i] <= t[i]}
<1>3. s[0] = 0 /\ \A i \in 1..NumActions : s[i] = s[i - 1] + d[i]
  BY <1>0, <1>1, TableEntries
<1>4. t[0] = 0 /\ \A i \in 1..NumActions : t[i] = t[i - 1] + e[i]
  BY <1>0, <1>2, TableEntries
<1>5. 0 \in S
  BY <1>0, <1>3, <1>4
<1>6. ASSUME NEW i \in 1..NumActions, i - 1 \in S
      PROVE  i \in S
  <2>1. d[i] \in Nat /\ e[i] \in Nat /\ d[i] <= e[i]
    BY DEF Actions
  <2> QED BY <1>0, <1>3, <1>4, <1>6, <2>1
<1>7. NumActions \in S
  <2> HIDE DEF S
  <2>1. 0..NumActions \subseteq S
    BY <1>0, <1>5, <1>6, Along
  <2> QED BY <1>0, <2>1
<1> QED BY <1>1, <1>2, <1>7

LEMMA TotalOfNothing == Total([a \in Actions |-> 0]) = 0
<1> DEFINE d == [a \in Actions |-> 0]
<1>0. NumActions \in Nat /\ d \in [Actions -> Nat]
  BY SchedulerAssumption
<1>1. PICK s : Table(d, NumActions, s) /\ Total(d) = s[NumActions]
  BY <1>0, TotalIsLast
<1> DEFINE S == {i \in 0..NumActions : s[i] = 0}
<1>2. s[0] = 0 /\ \A i \in 1..NumActions : s[i] = s[i - 1] + d[i]
  BY <1>0, <1>1, TableEntries
<1>3. 0 \in S
  BY <1>0, <1>2
<1>4. ASSUME NEW i \in 1..NumActions, i - 1 \in S
      PROVE  i \in S
  BY <1>0, <1>2, <1>4 DEF Actions
<1>5. NumActions \in S
  <2> HIDE DEF S
  <2>1. 0..NumActions \subseteq S
    BY <1>0, <1>3, <1>4, Along
  <2> QED BY <1>0, <2>1
<1> QED BY <1>1, <1>5

\* What one action takes longer is what the total grows by.
LEMMA TotalGrows ==
  ASSUME NEW d \in [Actions -> Nat], NEW e \in [Actions -> Nat],
         NEW a \in Actions, NEW k \in Nat, e[a] = d[a] + k,
         \A b \in Actions \ {a} : e[b] = d[b]
  PROVE  Total(e) = Total(d) + k
<1>0. NumActions \in Nat
  BY SchedulerAssumption
<1>1. PICK s : Table(d, NumActions, s) /\ Total(d) = s[NumActions]
  BY TotalIsLast
<1>2. PICK t : Table(e, NumActions, t) /\ Total(e) = t[NumActions]
  BY TotalIsLast
<1> DEFINE S == {i \in 0..NumActions :
                   /\ s[i] \in Nat
                   /\ i < a => t[i] = s[i]
                   /\ i >= a => t[i] = s[i] + k}
<1>3. s[0] = 0 /\ \A i \in 1..NumActions : s[i] = s[i - 1] + d[i]
  BY <1>0, <1>1, TableEntries
<1>4. t[0] = 0 /\ \A i \in 1..NumActions : t[i] = t[i - 1] + e[i]
  BY <1>0, <1>2, TableEntries
<1>5. 0 \in S
  BY <1>0, <1>3, <1>4 DEF Actions
<1>6. ASSUME NEW i \in 1..NumActions, i - 1 \in S
      PROVE  i \in S
  <2>1. d[i] \in Nat /\ a \in 1..NumActions /\ i \in Actions
    BY DEF Actions
  <2>2. s[i] = s[i - 1] + d[i] /\ t[i] = t[i - 1] + e[i]
    BY <1>3, <1>4
  <2>3. CASE i = a
    BY <1>0, <1>6, <2>1, <2>2, <2>3
  <2>4. CASE i # a
    <3>1. e[i] = d[i]
      BY <2>1, <2>4
    <3> QED BY <1>0, <1>6, <2>1, <2>2, <2>4, <3>1
  <2> QED BY <2>3, <2>4
<1>7. NumActions \in S
  <2> HIDE DEF S
  <2>1. 0..NumActions \subseteq S
    BY <1>0, <1>5, <1>6, Along
  <2> QED BY <1>0, <2>1
<1>8. NumActions >= a
  BY <1>0 DEF Actions
<1> QED BY <1>1, <1>2, <1>7, <1>8

\* The durations of a set of actions.
LEMMA DurationsMonotone ==
  ASSUME NEW p \in PlanType, NEW S, NEW U, S \subseteq U
  PROVE  /\ Durations(p, S) \in Nat /\ Durations(p, U) \in Nat
         /\ Durations(p, S) <= Durations(p, U)
<1> DEFINE d(V) == [a \in Actions |-> IF a \in V /\ p.kind[a] = "wait" THEN p.limit[a] ELSE 0]
<1>1. \A a \in Actions : p.limit[a] \in Nat
  BY DEF PlanType
<1>2. d(S) \in [Actions -> Nat] /\ d(U) \in [Actions -> Nat]
  BY <1>1
<1>3. \A a \in Actions : d(S)[a] <= d(U)[a]
  BY <1>1
<1> HIDE DEF d
<1>4. Total(d(S)) \in Nat /\ Total(d(U)) \in Nat /\ Total(d(S)) <= Total(d(U))
  BY <1>2, <1>3, TotalMonotone
<1> QED BY <1>4 DEF Durations, d

LEMMA DurationsOfNone ==
  ASSUME NEW p
  PROVE  Durations(p, {}) = 0
<1>1. [a \in Actions |-> IF a \in {} /\ p.kind[a] = "wait" THEN p.limit[a] ELSE 0]
        = [a \in Actions |-> 0]
  OBVIOUS
<1> QED BY <1>1, TotalOfNothing DEF Durations

LEMMA DurationsGrow ==
  ASSUME NEW p \in PlanType, NEW S, NEW a \in Actions \ S
  PROVE  Durations(p, S \cup {a}) =
           Durations(p, S) + (IF p.kind[a] = "wait" THEN p.limit[a] ELSE 0)
<1> DEFINE d(V) == [b \in Actions |-> IF b \in V /\ p.kind[b] = "wait" THEN p.limit[b] ELSE 0]
           k == IF p.kind[a] = "wait" THEN p.limit[a] ELSE 0
<1>1. \A b \in Actions : p.limit[b] \in Nat
  BY DEF PlanType
<1>2. d(S) \in [Actions -> Nat] /\ d(S \cup {a}) \in [Actions -> Nat] /\ k \in Nat
  BY <1>1
<1>3. d(S \cup {a})[a] = d(S)[a] + k
  BY <1>1
<1>4. \A b \in Actions \ {a} : d(S \cup {a})[b] = d(S)[b]
  OBVIOUS
<1> HIDE DEF d, k
<1>5. Total(d(S \cup {a})) = Total(d(S)) + k
  <2>1. PICK f \in [Actions -> Nat] : f = d(S)
    BY <1>2
  <2>2. PICK g \in [Actions -> Nat] : g = d(S \cup {a})
    BY <1>2
  <2>3. g[a] = f[a] + k /\ \A b \in Actions \ {a} : g[b] = f[b]
    BY <1>3, <1>4, <2>1, <2>2
  <2>4. Total(g) = Total(f) + k
    BY <1>2, <2>3, TotalGrows
  <2> QED BY <2>1, <2>2, <2>4
<1> QED BY <1>5 DEF Durations, d, k

-----------------------------------------------------------------------------
(* The time the waits have taken.                                          *)

\* What the pump of the current wait has spent so far.
Spent == IF pc = "pump" THEN plan.limit[cur] - left ELSE 0

\* Where the worker blocks tells what kind of action it runs, and the clock has
\* counted the waits that are over and the part of the current one that is.
WaitInv ==
  /\ plan \in Plans
  /\ pc = "pump" => plan.kind[cur] = "wait" /\ left <= plan.limit[cur]
  /\ pc \in {"reset", "send", "await"} => plan.kind[cur] \in {"send", "checkpoint"}
  /\ pc = "vision" => plan.kind[cur] = "checkpoint"
  /\ HasDisplay => clock >= Durations(plan, done \ failed) + Spent

\* The durations of the waits that are over are a natural number.
LEMMA OverIsNat ==
  ASSUME TypeOK
  PROVE  Durations(plan, done \ failed) \in Nat
  BY DurationsMonotone DEF TypeOK

\* An action that ends adds its duration if it is a wait that succeeds.
LEMMA SucceedWaits ==
  ASSUME TypeOK, CtlInv, WaitInv, pc \in Busy, Succeed, UNCHANGED <<plan, clock>>,
         plan.kind[cur] = "wait" /\ HasDisplay =>
           plan.limit[cur] = 0 \/ (pc = "pump" /\ left = 0)
  PROVE  WaitInv'
<1>1. cur \in Actions \ (done \ failed) /\ cur \notin failed /\ plan \in PlanType
  BY DEF TypeOK, CtlInv, Busy
<1>2. done' \ failed' = (done \ failed) \cup {cur} /\ pc' = "select"
  BY <1>1 DEF Succeed
<1>3. Durations(plan, (done \ failed) \cup {cur}) =
        Durations(plan, done \ failed) + (IF plan.kind[cur] = "wait" THEN plan.limit[cur] ELSE 0)
  BY <1>1, DurationsGrow
<1>4. plan.limit[cur] \in Nat /\ left \in Nat /\ clock \in Nat
  BY <1>1 DEF TypeOK, PlanType
<1>5. HasDisplay' = HasDisplay /\ Spent' = 0
  BY <1>2 DEF HasDisplay, HasCheckpoint, Spent
<1>6. ASSUME HasDisplay
      PROVE  clock >= Durations(plan, (done \ failed) \cup {cur})
  <2>1. Durations(plan, done \ failed) \in Nat
    BY OverIsNat
  <2>2. clock >= Durations(plan, done \ failed) + Spent
    BY <1>6 DEF WaitInv
  <2>3. Spent \in Nat /\ (pc = "pump" /\ left = 0 => Spent = plan.limit[cur])
    BY <1>4 DEF Spent, WaitInv
  <2> QED BY <1>3, <1>4, <1>6, <2>1, <2>2, <2>3
<1>7. clock' >= Durations(plan', done' \ failed') + Spent' \/ ~HasDisplay'
  BY <1>2, <1>4, <1>5, <1>6, <1>3, OverIsNat
<1> QED BY <1>2, <1>7 DEF WaitInv

LEMMA FailWaits ==
  ASSUME TypeOK, CtlInv, WaitInv, pc \in Busy, Fail, UNCHANGED <<plan, clock>>
  PROVE  WaitInv'
<1>1. cur \in Actions \ done /\ plan \in PlanType
  BY DEF TypeOK, CtlInv, Busy
<1>2. done' \ failed' = done \ failed /\ pc' \in {"select", "returned"}
  BY <1>1 DEF Fail, Return
<1>3. HasDisplay' = HasDisplay /\ Spent' = 0
  BY <1>2 DEF HasDisplay, HasCheckpoint, Spent
<1>4. Durations(plan, done \ failed) \in Nat /\ Spent \in Nat /\ clock \in Nat
  BY <1>1, OverIsNat DEF Spent, WaitInv, TypeOK, PlanType
<1>5. HasDisplay => clock >= Durations(plan, done \ failed)
  BY <1>4 DEF WaitInv
<1>6. HasDisplay' => clock' >= Durations(plan', done' \ failed') + Spent'
  BY <1>2, <1>3, <1>4, <1>5
<1> QED BY <1>2, <1>6 DEF WaitInv

\* A step that ends no action and neither enters the pump nor turns the clock back.
LEMMA StayWaits ==
  ASSUME TypeOK, CtlInv, WaitInv, UNCHANGED <<plan, done, failed>>, pc' # "pump",
         clock' \in Nat, clock' >= clock
  PROVE  HasDisplay' => clock' >= Durations(plan', done' \ failed') + Spent'
<1>1. HasDisplay' = HasDisplay /\ Spent' = 0
  BY DEF HasDisplay, HasCheckpoint, Spent
<1>2. Durations(plan, done \ failed) \in Nat /\ clock \in Nat
  BY OverIsNat DEF TypeOK, PlanType
<1>3. HasDisplay => Spent \in Nat
  <2>1. pc = "pump" => cur \in Actions
    BY DEF TypeOK, CtlInv, Busy
  <2>2. plan.limit \in [Actions -> Nat] /\ left \in Nat
    BY DEF TypeOK, PlanType
  <2> QED BY <2>1, <2>2 DEF Spent, WaitInv
<1> QED BY <1>1, <1>2, <1>3 DEF WaitInv

\* A step that leaves the worker and the clock alone, or moves it between two
\* places of an action that is not a wait.
LEMMA MoveWaits ==
  ASSUME TypeOK, CtlInv, WaitInv, UNCHANGED <<plan, done, failed, clock>>,
         \/ UNCHANGED <<pc, cur, left>>
         \/ /\ pc' # "pump"
            /\ pc' \in {"reset", "send", "await"} => plan.kind[cur'] \in {"send", "checkpoint"}
            /\ pc' = "vision" => plan.kind[cur'] = "checkpoint"
  PROVE  WaitInv'
<1>1. CASE UNCHANGED <<pc, cur, left>>
  BY <1>1 DEF WaitInv, Spent, HasDisplay, HasCheckpoint
<1>2. CASE ~UNCHANGED <<pc, cur, left>>
  <2>1. clock \in Nat
    BY DEF TypeOK, PlanType
  <2>2. HasDisplay' => clock' >= Durations(plan', done' \ failed') + Spent'
    BY <1>2, <2>1, StayWaits
  <2> QED BY <1>2, <2>2 DEF WaitInv
<1> QED BY <1>1, <1>2

LEMMA InitWaits == Init => WaitInv
<1> SUFFICES ASSUME Init PROVE WaitInv
  OBVIOUS
<1>1. Durations(plan, done \ failed) = 0
  <2>1. done \ failed = {}
    BY DEF Init
  <2> QED BY <2>1, DurationsOfNone
<1> QED BY <1>1 DEF Init, WaitInv, Spent

LEMMA RunWaits ==
  ASSUME TypeOK, CtlInv, WaitInv, Run
  PROVE  WaitInv'
<1>0. pc \in Busy /\ UNCHANGED <<plan, clock>> /\ cur \in Actions
  BY DEF Run, RunSend, RunWait, RunLocal, RunWarning, RunCheckpoint, Busy, TypeOK, CtlInv
<1>1. CASE RunWait /\ pc' = "pump"
  <2>1. /\ plan.kind[cur] = "wait" /\ left' = plan.limit[cur] /\ pc = "run"
        /\ UNCHANGED <<plan, cur, done, failed, clock>>
    BY <1>1 DEF RunWait, Succeed
  <2>2. left' \in Nat /\ clock \in Nat
    BY <1>0, <2>1 DEF TypeOK, PlanType
  <2>3. Spent' = 0 /\ Spent = 0 /\ HasDisplay' = HasDisplay
    BY <1>1, <2>1, <2>2 DEF Spent, HasDisplay, HasCheckpoint
  <2> QED BY <1>1, <2>1, <2>2, <2>3 DEF WaitInv
<1>2. CASE RunWait /\ Succeed
  <2>1. HasDisplay => plan.limit[cur] = 0
    BY <1>2 DEF RunWait, Succeed
  <2> QED BY <1>0, <1>2, <2>1, SucceedWaits
<1>3. CASE RunSend \/ RunLocal
  <2>1. plan.kind[cur] \in {"send", "local"} /\ plan.kind[cur] # "wait"
    BY <1>3 DEF RunSend, RunLocal
  <2>2. CASE Succeed
    BY <1>0, <2>1, <2>2, SucceedWaits
  <2>3. CASE ~Succeed
    BY <1>3, <2>3, MoveWaits DEF RunSend, RunLocal
  <2> QED BY <2>2, <2>3
<1>4. CASE RunWarning
  BY <1>0, <1>4, FailWaits DEF RunWarning
<1>5. CASE RunCheckpoint
  BY <1>5, MoveWaits DEF RunCheckpoint
<1> QED BY <1>1, <1>2, <1>3, <1>4, <1>5 DEF Run, RunWait

LEMMA SendWaits ==
  ASSUME TypeOK, CtlInv, WaitInv, Send
  PROVE  WaitInv'
<1>0. pc \in {"reset", "send", "await"} /\ UNCHANGED <<plan, clock>>
  BY DEF Send, ResetAcks, SendCmd, SendRaises, PollDone, PollError, AckTimeout
<1>1. plan.kind[cur] \in {"send", "checkpoint"} /\ plan.kind[cur] # "wait" /\ pc \in Busy
  BY <1>0 DEF WaitInv, Busy
<1>2. CASE ResetAcks \/ SendCmd \/ SendRaises
  BY <1>1, <1>2, MoveWaits DEF ResetAcks, SendCmd, SendRaises, Return
<1>3. CASE PollDone
  <2>1. CASE plan.kind[cur] # "checkpoint"
    BY <1>0, <1>1, <1>3, <2>1, SucceedWaits DEF PollDone, CommandDone
  <2>2. CASE plan.kind[cur] = "checkpoint"
    BY <1>3, <2>2, MoveWaits DEF PollDone, CommandDone
  <2> QED BY <2>1, <2>2
<1>4. CASE PollError \/ AckTimeout
  BY <1>0, <1>1, <1>4, FailWaits DEF PollError, AckTimeout
<1> QED BY <1>2, <1>3, <1>4 DEF Send

LEMMA VisionWaits ==
  ASSUME TypeOK, CtlInv, WaitInv, Vision
  PROVE  WaitInv'
<1>0. pc = "vision" /\ UNCHANGED <<plan, clock>>
  BY DEF Vision, VisionTimeout, VisionMiss, VisionSatisfied, VisionNoCommand,
         VisionCorrect, VisionExhausted
<1>1. plan.kind[cur] = "checkpoint" /\ plan.kind[cur] # "wait" /\ pc \in Busy
  BY <1>0 DEF WaitInv, Busy
<1>2. CASE VisionMiss \/ VisionCorrect
  BY <1>1, <1>2, MoveWaits DEF VisionMiss, VisionCorrect, net
<1>3. CASE Succeed
  BY <1>0, <1>1, <1>3, SucceedWaits
<1>4. CASE Fail
  BY <1>0, <1>1, <1>4, FailWaits
<1> QED
  BY <1>2, <1>3, <1>4
     DEF Vision, VisionTimeout, VisionSatisfied, VisionNoCommand, VisionExhausted

\* Of a wait of n with l to go, a tick that leaves m to go has spent one more at most.
LEMMA OneMore ==
  ASSUME NEW n \in Nat, NEW l \in Nat, NEW m \in Nat, l <= n, m = l \/ m = l - 1
  PROVE  n - l \in Nat /\ n - m \in Nat /\ n - m <= (n - l) + 1
  OBVIOUS

\* While a pump runs on at the clock's end, the clock has already counted every
\* wait of the plan.
LEMMA TickWaits ==
  ASSUME TypeOK, CtlInv, WaitInv, LongEnough, Tick
  PROVE  WaitInv'
<1>0. /\ plan \in PlanType /\ clock \in Nat /\ plan.horizon \in Nat /\ clock <= plan.horizon
      /\ left \in Nat /\ UNCHANGED <<plan, pc, cur, done, failed>>
  BY DEF TypeOK, PlanType, Tick
<1>1. Durations(plan, done \ failed) \in Nat
  BY OverIsNat
<1>2. CASE pc # "pump"
  <2>1. clock' \in Nat /\ clock' >= clock
    BY <1>0 DEF Tick
  <2>2. HasDisplay' => clock' >= Durations(plan', done' \ failed') + Spent'
    BY <1>0, <1>2, <2>1, StayWaits
  <2> QED BY <1>0, <1>2, <2>2 DEF WaitInv
<1>3. CASE pc = "pump"
  <2>1. cur \in Actions \ (done \ failed) /\ plan.kind[cur] = "wait" /\ plan.limit[cur] \in Nat
        /\ left <= plan.limit[cur]
    BY <1>0, <1>3 DEF WaitInv, TypeOK, CtlInv, Busy, PlanType
  <2>2. left' \in Nat /\ left' <= plan.limit[cur] /\ (left' = left \/ left' = left - 1)
    <3>1. left' = IF left > 0 THEN left - 1 ELSE left
      BY DEF Tick
    <3> QED BY <1>0, <2>1, <3>1
  <2>3. Spent = plan.limit[cur] - left /\ Spent' = plan.limit[cur] - left'
    BY <1>0, <1>3 DEF Spent
  <2>4. HasDisplay' = HasDisplay
    BY <1>0 DEF HasDisplay, HasCheckpoint
  <2>5. Spent \in Nat /\ Spent' \in Nat /\ Spent' <= Spent + 1
    BY <1>0, <2>1, <2>2, <2>3, OneMore, Zenon
  <2>6. ASSUME HasDisplay
        PROVE  clock' >= Durations(plan, done \ failed) + Spent'
    <3>1. clock >= Durations(plan, done \ failed) + Spent
      BY <2>6 DEF WaitInv
    <3>2. CASE clock < plan.horizon
      <4>1. clock' = clock + 1
        BY <3>2 DEF Tick
      <4> QED BY <1>0, <1>1, <2>5, <3>1, <4>1
    <3>3. CASE ~(clock < plan.horizon)
      <4>1. clock' = plan.horizon
        BY <1>0, <3>3 DEF Tick
      <4>2. Durations(plan, (done \ failed) \cup {cur}) =
              Durations(plan, done \ failed) + plan.limit[cur]
        BY <1>0, <2>1, DurationsGrow
      <4>3. /\ Durations(plan, (done \ failed) \cup {cur}) <= Durations(plan, Actions)
            /\ Durations(plan, Actions) \in Nat
        <5>1. (done \ failed) \cup {cur} \subseteq Actions
          BY <2>1 DEF TypeOK
        <5> QED BY <1>0, <5>1, DurationsMonotone
      <4>4. Durations(plan, Actions) <= plan.horizon
        BY DEF LongEnough, WaitInv
      <4> QED BY <1>0, <1>1, <2>1, <2>2, <2>3, <4>1, <4>2, <4>3, <4>4
    <3> QED BY <3>2, <3>3
  <2> QED BY <1>0, <1>3, <2>1, <2>2, <2>4, <2>6 DEF WaitInv
<1> QED BY <1>2, <1>3

LEMMA NextWaits == LongEnough /\ IInv /\ WaitInv /\ [Next]_vars => WaitInv'
<1> SUFFICES ASSUME LongEnough, TypeOK, CtlInv, WaitInv, [Next]_vars
             PROVE  WaitInv'
  BY DEF IInv
<1>1. CASE BoardsConnected \/ Confirm \/ Cancel
  BY <1>1, MoveWaits DEF BoardsConnected, Confirm, Cancel, Return
<1>2. CASE Select
  BY <1>2, MoveWaits DEF Select, SelectAction, AllDone, NoneReady, Return
<1>3. CASE Run
  BY <1>3, RunWaits
<1>4. CASE PumpEnds
  BY <1>4, SucceedWaits DEF PumpEnds, Busy
<1>5. CASE PumpQuit
  BY <1>5, FailWaits DEF PumpQuit, Busy
<1>6. CASE Send
  BY <1>6, SendWaits
<1>7. CASE Vision
  BY <1>7, VisionWaits
<1>8. CASE BoardsNext \/ UNCHANGED vars
  <2>1. UNCHANGED <<plan, clock, worker>>
    BY <1>8 DEF BoardsNext, Accept, Disconnect, Receive, BoardStarts, BoardEnds, vars
  <2> QED BY <2>1, MoveWaits DEF worker
<1>9. CASE Tick
  BY <1>9, TickWaits
<1>10. CASE CheckpointRaises
  BY <1>10, MoveWaits DEF CheckpointRaises, Return
<1> QED
  BY <1>1, <1>2, <1>3, <1>4, <1>5, <1>6, <1>7, <1>8, <1>9, <1>10 DEF Next, Worker, User

\* With a display, the waits that have succeeded took at least the sum of their
\* durations, whatever their order, provided the clock counts far enough.
THEOREM WaitsElapsedHolds == LongEnough /\ Spec => []WaitsElapsed
<1>1. ASSUME LongEnough
      PROVE  Spec => []WaitInv
  <2>1. IInv /\ WaitInv /\ [Next]_vars => WaitInv'
    BY <1>1, NextWaits
  <2> QED BY <2>1, InitWaits, Invariance, PTL DEF Spec
<1>2. IInv /\ WaitInv => WaitsElapsed
  <2> SUFFICES ASSUME IInv, WaitInv, HasDisplay
               PROVE  clock >= Durations(plan, done \ failed)
    BY DEF WaitsElapsed
  <2>1. Durations(plan, done \ failed) \in Nat /\ clock \in Nat
    BY OverIsNat DEF IInv, TypeOK, PlanType
  <2>2. Spent \in Nat
    BY DEF IInv, TypeOK, PlanType, CtlInv, Busy, Spent, WaitInv
  <2> QED BY <2>1, <2>2 DEF WaitInv
<1>3. ASSUME LongEnough
      PROVE  Spec => []WaitsElapsed
  BY <1>1, <1>2, <1>3, Invariance, PTL
<1> QED BY <1>3
=============================================================================
