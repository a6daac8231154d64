----------------------- MODULE SchedulerThreads_proofs -----------------------
(***************************************************************************)
(* Theorems about SchedulerThreads, for every number of calls and of key   *)
(* presses and any set of boards: what run() returns is explained by what  *)
(* the threads did, nothing is sent once it has returned, unless it was    *)
(* left while the worker was opening its endpoints, and no checkpoint      *)
(* looks at an old picture unless a q was taken.                           *)
(***************************************************************************)
EXTENDS SchedulerThreads, TLAPS

\* What run() has decided on and its two threads have done, step by step.  The
\* result in the holder is the worker's own or the 130 of a q taken by the main
\* thread; a worker leaves a result or an exception when it dies; and from the
\* decision on, ret agrees with the holder, which can change afterwards only by
\* a worker that was still alive, after a 130.
HolderOK ==
  /\ holder \in [result : {NoResult, 0, 2, 3, 130}, exc : BOOLEAN]
  /\ holder.result = 130 => "main" \in quit
  /\ holder.exc => worker = "dead" /\ holder.result \in {NoResult, 130}
  /\ holder.result \in {0, 2, 3} => worker = "dead"
  /\ worker = "dead" => holder.result # NoResult \/ holder.exc

MainOK ==
  /\ main \in {"precheck", "warmup", "check", "tick", "join", "decide", "pump", "close",
              "closing", "over"}
  /\ worker \in {"idle", "boards", "enter", "next", "ack", "pump", "look", "dead"}
  /\ main \in {"precheck", "warmup"} => worker = "idle"
  /\ worker = "idle" =>
       main \in {"precheck", "warmup", "over"} /\ \A b \in Boards : sock[b] = "none"
  /\ main \in {"precheck", "warmup", "check", "tick", "join", "decide"} => ret = NoResult
  /\ main \in {"join", "decide"} => worker = "dead" \/ holder.result = 130
  /\ ret \in {NoResult, 0, 2, 3, 130, Raise}
  \* The finally block meets a worker that is still opening its endpoints only
  \* after a q.
  /\ hasty => "main" \in quit
  /\ main \notin {"closing", "over"} => ~hasty
  /\ main = "closing" /\ ~hasty => snap = Boards /\ worker \notin {"idle", "boards"}
  /\ worker \notin {"idle", "boards"} => up = Boards
  /\ \A b \in up : sock[b] \in {"connected", "closed"}
  /\ sock \in [Boards -> {"none", "made", "opening", "listening", "connected", "closed"}]
  /\ up \subseteq Boards
  /\ main \in {"pump", "close"} => worker = "dead" \/ "main" \in quit

Inv == HolderOK /\ MainOK /\ ResultExplained

\* Once the worker is past the boards every endpoint is made.
LEMMA AllMade == Inv /\ worker \notin {"idle", "boards"} => made = Boards
  BY DEF Inv, MainOK, made

LEMMA InitInv == Init => Inv
<1> SUFFICES ASSUME Init PROVE Inv
  OBVIOUS
<1>1. ~hasty
  BY DEF Init
<1> QED BY <1>1 DEF Init, Inv, HolderOK, MainOK, ResultExplained, NoResult, Raise

\* A worker that dies of an exception leaves it in the holder.
LEMMA RaisesInv == ASSUME Inv, worker \in {"enter", "next"}, WorkerRaises PROVE Inv'
<1>0. holder \in [result : {NoResult, 0, 2, 3, 130}, exc : BOOLEAN]
  BY DEF Inv, HolderOK
<1>1. /\ holder' = [holder EXCEPT !.exc = TRUE] /\ worker' = "dead"
      /\ main' = main /\ ret' = ret /\ quit' = quit
      /\ sock' = sock /\ up' = up /\ snap' = snap /\ hasty' = hasty
  BY DEF WorkerRaises, mainVars, displayVars, link, closeVars, preVars
<1>2. holder' = [result |-> holder.result, exc |-> TRUE]
  BY <1>0, <1>1
<1> USE DEF Inv, HolderOK, MainOK, ResultExplained, NoResult, Raise
<1>3. holder'.result = holder.result /\ holder'.exc
  BY <1>2
<1>4. holder.result \in {NoResult, 130}
  OBVIOUS
<1>5. holder' \in [result : {NoResult, 0, 2, 3, 130}, exc : BOOLEAN]
  BY <1>2
<1>6. ret \notin {0, 2, 3} /\ (ret = Raise => hasty /\ "main" \in quit) /\ worker # "idle"
  OBVIOUS
<1>7. HolderOK'
  BY <1>1, <1>3, <1>4, <1>5
<1>8. MainOK'
  BY <1>1, <1>3
<1>9. ResultExplained'
  BY <1>1, <1>6
<1> QED BY <1>7, <1>8, <1>9

LEMMA NextInv == Inv /\ [Next]_vars => Inv'
<1> SUFFICES ASSUME Inv, [Next]_vars PROVE Inv'
  OBVIOUS
<1>0. worker \notin {"idle", "boards"} => made = Boards
  BY AllMade
<1> USE DEF Inv, HolderOK, MainOK, ResultExplained, NoResult, Raise, mainVars, workerVars,
            displayVars, link, closeVars, preVars
<1>1. CASE UNCHANGED vars BY <1>1 DEF vars
<1>2. CASE PressQ BY <1>2 DEF PressQ
<1>3. CASE Capture BY <1>3 DEF Capture
<1>4. CASE AcceptStep
  <2> SUFFICES ASSUME NEW b \in Boards, Listen(b) \/ Connect(b) PROVE Inv'
    BY <1>4 DEF AcceptStep
  <2>1. CASE Listen(b) BY <2>1 DEF Listen
  <2>2. CASE Connect(b) BY <2>2 DEF Connect
  <2> QED BY <2>1, <2>2
<1>5. CASE MainStep
  <2>0. CASE PrecheckStep
    BY <2>0 DEF PrecheckStep, PrecheckFinds, PrecheckFails, PrecheckDone, DisplayFails
  <2>1. CASE WarmUp BY <2>1 DEF WarmUp, Tick
  <2>2. CASE CheckAlive BY <2>2 DEF CheckAlive
  <2>3. CASE MainTick BY <2>3 DEF MainTick, Tick
  <2>4. CASE JoinTimeout BY <2>4 DEF JoinTimeout
  <2>5. CASE Join BY <2>5 DEF Join
  <2>6. CASE Decide BY <2>6 DEF Decide
  <2>7. CASE FinalPump
    <3>1. /\ main = "pump" /\ main' \in {"pump", "close"} /\ quit \subseteq quit'
          /\ UNCHANGED <<ret, worker, holder, sock, up, snap, hasty>>
      BY <2>7 DEF FinalPump, Tick
    <3>2. HolderOK'
      BY <3>1
    <3>3. MainOK'
      BY <3>1
    <3>4. ResultExplained'
      BY <3>1
    <3> QED BY <3>2, <3>3, <3>4
  <2>8. CASE BeginClose
    <3>1. /\ worker # "idle" /\ main = "close" /\ main' = "closing" /\ snap' = made
          /\ UNCHANGED <<worker, ret, holder, sock, up, quit>>
      BY <2>8 DEF BeginClose
    <3>2. hasty' = (worker = "boards")
      BY <2>8 DEF BeginClose
    <3>3. CASE worker = "boards"
      <4>1. hasty' = TRUE BY <3>2, <3>3
      <4> QED BY <3>1, <3>3, <4>1
    <3>4. CASE worker # "boards"
      <4>1. ~hasty' BY <3>2, <3>4
      <4>3. worker \notin {"idle", "boards"}
        BY <3>1, <3>4
      <4>7. made = Boards
        BY <4>3, AllMade
      <4>2. snap' = Boards BY <3>1, <4>7
      <4>4. HolderOK' BY <3>1
      <4>5. ResultExplained' BY <3>1, <4>1
      <4>6. MainOK' BY <3>1, <4>1, <4>2, <4>3
      <4> QED BY <4>4, <4>5, <4>6
    <3> QED BY <3>3, <3>4
  <2>9. CASE CloseNext
    <3>1. PICK b \in snap \ shut :
            \/ sock[b] \in {"opening", "listening", "connected"}
               /\ sock' = [sock EXCEPT ![b] = "closed"]
            \/ UNCHANGED sock
      BY <2>9 DEF CloseNext
    <3>2. /\ main = "closing"
          /\ UNCHANGED <<main, ret, worker, holder, up, snap, hasty, quit>>
      BY <2>9 DEF CloseNext
    <3>3. HolderOK' /\ ResultExplained'
      BY <3>2
    <3>4. /\ sock' \in [Boards -> {"none", "made", "opening", "listening", "connected", "closed"}]
          /\ \A c \in up : sock'[c] \in {"connected", "closed"}
      BY <3>1
    <3>5. MainOK'
      BY <3>2, <3>4
    <3> QED BY <3>3, <3>5
  <2>10. CASE CloseRaises
    <3>1. hasty
      BY <2>10, <1>0 DEF CloseRaises
    <3> QED BY <2>10, <3>1 DEF CloseRaises
  <2>11. CASE CloseEnds BY <2>11 DEF CloseEnds
  <2> QED BY <1>5, <2>0, <2>1, <2>2, <2>3, <2>4, <2>5, <2>6, <2>7, <2>8, <2>9, <2>10, <2>11
          DEF MainStep
<1>6. CASE WorkerStep
  <2>1. ASSUME NEW b \in Boards, MakeEndpoint(b) PROVE Inv' BY <2>1 DEF MakeEndpoint
  <2>2. ASSUME NEW b \in Boards, StartEndpoint(b) PROVE Inv' BY <2>2 DEF StartEndpoint
  <2>3. ASSUME NEW b \in Boards, Send(b) PROVE Inv' BY <2>3 DEF Send
  <2>4. ASSUME NEW b \in Boards, SendRaises(b) PROVE Inv'
    BY <2>4, RaisesInv DEF SendRaises
  <2>5. CASE BoardsConnected BY <2>5 DEF BoardsConnected
  <2>6. CASE StartConfirmed BY <2>6 DEF StartConfirmed
  <2>7. CASE StartCancelled BY <2>7, RaisesInv DEF StartCancelled
  <2>8. CASE BeginPump BY <2>8 DEF BeginPump
  <2>9. CASE BeginLook BY <2>9 DEF BeginLook
  <2>10. CASE CallSucceeds BY <2>10 DEF CallSucceeds
  <2>11. CASE CallFails BY <2>11 DEF CallFails, WorkerReturns
  <2>12. CASE WorkerPump BY <2>12 DEF WorkerPump, WorkerReturns, Tick
  <2>13. CASE TimelineEnds BY <2>13 DEF TimelineEnds, WorkerReturns
  <2> QED BY <1>6, <2>1, <2>2, <2>3, <2>4, <2>5, <2>6, <2>7, <2>8, <2>9, <2>10, <2>11,
             <2>12, <2>13 DEF WorkerStep, StartStep
<1>7. CASE BoardStep BY <1>7 DEF BoardStep, FindServer, LeaveServer
<1> QED BY <1>1, <1>2, <1>3, <1>4, <1>5, <1>6, <1>7 DEF Next

\* Inv holds of every reachable state.
LEMMA Invariance == Spec => []Inv
<1>1. Init => Inv BY InitInv
<1>2. Inv /\ [Next]_vars => Inv' BY NextInv
<1> QED BY <1>1, <1>2, PTL DEF Spec

LEMMA InitType == Init => TypeOK
<1> SUFFICES ASSUME Init PROVE TypeOK
  OBVIOUS
<1>1. calls = 0 /\ MaxCalls \in Nat /\ MaxKeys \in Nat /\ Len(Checked) \in Nat
  BY ThreadsAssumption DEF Init
<1>2. held \in BOOLEAN /\ capture \in BOOLEAN
  BY DEF Init
<1>3. {hasty, running, capture, frame, key} \subseteq BOOLEAN
  BY <1>2 DEF Init
<1>4. calls \in 0..MaxCalls /\ sent \in [Boards -> 0..calls] /\ keys \in 0..MaxKeys
  BY <1>1 DEF Init
<1> QED BY <1>1, <1>2, <1>3, <1>4 DEF Init, TypeOK, made, NoResult, Threads

LEMMA NextType == Inv /\ TypeOK /\ [Next]_vars => TypeOK'
<1> SUFFICES ASSUME Inv, TypeOK, [Next]_vars PROVE TypeOK'
  OBVIOUS
<1>0. MaxCalls \in Nat /\ MaxKeys \in Nat /\ Len(Checked) \in Nat
  BY ThreadsAssumption
<1>h. /\ holder \in [result : {NoResult, 0, 2, 3, 130}, exc : BOOLEAN]
      /\ [holder EXCEPT !.result = 130] \in [result : {NoResult, 0, 2, 3, 130}, exc : BOOLEAN]
      /\ [holder EXCEPT !.exc = TRUE] \in [result : {NoResult, 0, 2, 3, 130}, exc : BOOLEAN]
      /\ \A code \in {0, 2, 3} : [holder EXCEPT !.result = code]
                                   \in [result : {NoResult, 0, 2, 3, 130}, exc : BOOLEAN]
  BY DEF TypeOK
<1>t. ASSUME NEW t \in Threads, Tick(t)
      PROVE  key' \in BOOLEAN /\ running' \in BOOLEAN /\ quit' \subseteq Threads
  <2>1. /\ key' = FALSE /\ running' = (running /\ ~key)
        /\ quit' = IF key THEN quit \cup {t} ELSE quit
    BY <1>t DEF Tick
  <2>2. running' \in BOOLEAN
    BY <2>1
  <2>3. quit' \subseteq Threads
    BY <2>1 DEF TypeOK
  <2> QED BY <2>1, <2>2, <2>3
<1> USE <1>0 DEF TypeOK, made, mainVars, workerVars, displayVars, link, closeVars, preVars
<1>1. CASE UNCHANGED vars BY <1>1 DEF vars
<1>2. CASE PressQ BY <1>2 DEF PressQ
<1>3. CASE Capture
  <2>1. capture' \in BOOLEAN /\ frame' \in BOOLEAN
    BY <1>3 DEF Capture
  <2> QED BY <1>3, <2>1 DEF Capture
<1>4. CASE AcceptStep
  <2> SUFFICES ASSUME NEW b \in Boards, Listen(b) \/ Connect(b) PROVE TypeOK'
    BY <1>4 DEF AcceptStep
  <2>1. CASE Listen(b) BY <2>1 DEF Listen
  <2>2. CASE Connect(b) BY <2>2 DEF Connect
  <2> QED BY <2>1, <2>2
<1>5. CASE MainStep
  <2>p. CASE PrecheckFinds
    <3>1. seen' \in 0..Len(Checked)
      BY <2>p DEF PrecheckFinds
    <3> QED BY <2>p, <3>1 DEF PrecheckFinds
  <2>q. CASE PrecheckFails BY <2>q DEF PrecheckFails
  <2>r. CASE PrecheckDone BY <2>r DEF PrecheckDone
  <2>s. CASE DisplayFails BY <2>s DEF DisplayFails
  <2>0. CASE PrecheckStep
    BY <2>0, <2>p, <2>q, <2>r, <2>s DEF PrecheckStep
  <2>1. CASE WarmUp BY <2>1, <1>t DEF WarmUp, Threads
  <2>2. CASE CheckAlive BY <2>2 DEF CheckAlive
  <2>3. CASE MainTick BY <2>3, <1>t, <1>h DEF MainTick, Threads
  <2>4. CASE JoinTimeout \/ Join BY <2>4 DEF JoinTimeout, Join
  <2>5. CASE Decide
    <3>1. ret' \in {NoResult, 0, 2, 3, 130, Raise}
      <4>1. CASE holder.exc
        BY <2>5, <4>1 DEF Decide
      <4>2. CASE ~holder.exc
        <5>1. holder.result \in {0, 2, 3, 130}
          BY <2>5, <4>2 DEF Decide, Inv, HolderOK, MainOK, NoResult
        <5> QED BY <2>5, <4>2, <5>1 DEF Decide, NoResult
      <4> QED BY <4>1, <4>2
    <3> QED BY <2>5, <3>1 DEF Decide
  <2>6. CASE FinalPump BY <2>6, <1>t DEF FinalPump, Threads
  <2>7. CASE BeginClose BY <2>7 DEF BeginClose
  <2>8. CASE CloseNext BY <2>8 DEF CloseNext
  <2>9. CASE CloseRaises BY <2>9 DEF CloseRaises
  <2>10. CASE CloseEnds
    <3>1. /\ main' = "over" /\ running' = FALSE
          /\ UNCHANGED <<ret, workerVars, holder, link, key, quit, capture, frame, keys>>
      BY <2>10 DEF CloseEnds
    <3>2. {hasty', running', capture', frame', key'} \subseteq BOOLEAN
      BY <3>1
    <3> QED BY <3>1, <3>2
  <2> QED BY <1>5, <2>0, <2>1, <2>2, <2>3, <2>4, <2>5, <2>6, <2>7, <2>8, <2>9, <2>10
          DEF MainStep
<1>6. CASE WorkerStep
  <2>1. CASE StartStep
    BY <2>1 DEF StartStep, BoardsConnected, MakeEndpoint, StartEndpoint
  <2>2. ASSUME NEW b \in Boards, Send(b) PROVE TypeOK'
    <3>1. calls' = calls + 1 /\ calls' \in 0..MaxCalls /\ sent[b] + 1 \in 0..calls'
      BY <2>2 DEF Send
    <3>2. sent' \in [Boards -> 0..calls']
      BY <2>2, <3>1 DEF Send
    <3> QED BY <2>2, <3>1, <3>2 DEF Send
  <2>3. CASE (\E b \in Boards : SendRaises(b)) \/ StartCancelled
    <3>1. WorkerRaises
      BY <2>3 DEF SendRaises, StartCancelled
    <3> QED BY <3>1, <1>h DEF WorkerRaises
  <2>4. CASE StartConfirmed \/ CallSucceeds
    BY <2>4 DEF StartConfirmed, CallSucceeds
  <2>5. CASE BeginPump \/ BeginLook
    <3>1. calls' = calls + 1 /\ calls' \in 0..MaxCalls /\ sent' = sent
      BY <2>5 DEF BeginPump, BeginLook
    <3>2. sent' \in [Boards -> 0..calls']
      BY <3>1
    <3> QED BY <2>5, <3>1, <3>2 DEF BeginPump, BeginLook
  <2>6. CASE CallFails \/ TimelineEnds
    BY <2>6, <1>h DEF CallFails, TimelineEnds, WorkerReturns
  <2>7. CASE WorkerPump BY <2>7, <1>h, <1>t DEF WorkerPump, WorkerReturns, Threads
  <2> QED BY <1>6, <2>1, <2>2, <2>3, <2>4, <2>5, <2>6, <2>7 DEF WorkerStep
<1>7. CASE BoardStep BY <1>7 DEF BoardStep, FindServer, LeaveServer
<1> QED BY <1>1, <1>2, <1>3, <1>4, <1>5, <1>6, <1>7 DEF Next

\* Every reachable state is well typed.
THEOREM ThreadsTypeCorrect == Spec => []TypeOK
<1> QED BY InitType, NextType, Invariance, PTL DEF Spec

\* What run() returns is what happened, in every order of its threads.
THEOREM ResultExplainedHolds == Spec => []ResultExplained
<1>1. Inv => ResultExplained BY DEF Inv
<1> QED BY <1>1, Invariance, PTL

\* Unless the finally block came too early, it has closed every endpoint when
\* run() is over.
Shut ==
  /\ ~hasty /\ main \in {"closing", "over"} => worker # "boards"
  /\ ~hasty /\ main = "closing" => shut \subseteq Boards /\ \A b \in shut : sock[b] = "closed"
  /\ ~hasty /\ main = "over" => \A b \in Boards : sock[b] \in {"closed", "none"}
  /\ main \notin {"closing", "over"} => shut = {}

LEMMA NextShut == Inv /\ Shut /\ [Next]_vars => Shut'
<1> SUFFICES ASSUME Inv, Shut, [Next]_vars PROVE Shut'
  OBVIOUS
<1>0. /\ sock \in [Boards -> {"none", "made", "opening", "listening", "connected", "closed"}]
      /\ worker \notin {"idle", "boards"} => \A b \in Boards : sock[b] \in {"connected", "closed"}
      /\ main \in {"precheck", "warmup", "check", "tick", "join", "decide", "pump", "close",
                  "closing", "over"}
      /\ worker \in {"idle", "boards", "enter", "next", "ack", "pump", "look", "dead"}
      /\ main = "closing" => worker # "idle"
      /\ main = "precheck" => worker = "idle"
      /\ worker = "idle" => \A b \in Boards : sock[b] = "none"
      /\ main = "closing" /\ ~hasty => snap = Boards
      /\ made = {b \in Boards : sock[b] # "none"}
  <2>1. worker \notin {"idle", "boards"} => \A b \in Boards : sock[b] \in {"connected", "closed"}
    BY DEF Inv, MainOK
  <2> QED BY <2>1 DEF Inv, MainOK, made
<1> USE <1>0 DEF Shut, mainVars, workerVars, displayVars, link, closeVars, preVars
<1>1. CASE UNCHANGED vars BY <1>1 DEF vars
<1>2. CASE PressQ \/ Capture BY <1>2 DEF PressQ, Capture
<1>3. CASE AcceptStep BY <1>3 DEF AcceptStep, Listen, Connect
<1>4. CASE MainStep
  <2>0. CASE PrecheckStep
    BY <2>0 DEF PrecheckStep, PrecheckFinds, PrecheckFails, PrecheckDone, DisplayFails
  <2>1. CASE WarmUp \/ CheckAlive \/ MainTick \/ JoinTimeout \/ Join \/ Decide \/ FinalPump
    BY <2>1 DEF WarmUp, CheckAlive, MainTick, JoinTimeout, Join, Decide, FinalPump, Tick
  <2>2. CASE BeginClose
    <3>1. hasty' = (worker = "boards") BY <2>2 DEF BeginClose
    <3>2. CASE worker = "boards" BY <2>2, <3>1, <3>2 DEF BeginClose
    <3>3. CASE worker # "boards" BY <2>2, <3>1, <3>3 DEF BeginClose
    <3> QED BY <3>2, <3>3
  <2>3. CASE CloseNext
    <3>0. main = "closing" /\ main' = main /\ worker' = worker /\ hasty' = hasty
      BY <2>3 DEF CloseNext
    <3>1. CASE hasty BY <3>0, <3>1
    <3>2. CASE ~hasty
      <4>0. snap = Boards /\ \A b \in Boards : sock[b] \in {"connected", "closed"}
        BY <3>0, <3>2
      <4>1. PICK b \in snap \ shut :
              /\ shut' = shut \cup {b}
              /\ \/ /\ sock[b] \in {"opening", "listening", "connected"}
                    /\ sock' = [sock EXCEPT ![b] = "closed"]
                 \/ sock[b] \in {"made", "opening", "closed"} /\ sock' = sock
        BY ONLY <2>3, SMT DEF CloseNext
      <4>2. shut' \subseteq Boards /\ \A c \in shut' : sock'[c] = "closed"
        BY <3>0, <3>2, <4>0, <4>1
      <4> QED BY <3>0, <3>2, <4>2
    <3> QED BY <3>1, <3>2
  <2>4. CASE CloseRaises \/ CloseEnds BY <2>4 DEF CloseRaises, CloseEnds
  <2> QED BY <1>4, <2>0, <2>1, <2>2, <2>3, <2>4 DEF MainStep
<1>5. CASE WorkerStep
  BY <1>5 DEF WorkerStep, StartStep, MakeEndpoint, StartEndpoint, Send, SendRaises, BoardsConnected,
         StartConfirmed, StartCancelled, BeginPump, BeginLook, CallSucceeds, CallFails,
         WorkerPump, TimelineEnds, WorkerRaises, WorkerReturns, Tick
<1>6. CASE BoardStep BY <1>6 DEF BoardStep, FindServer, LeaveServer
<1> QED BY <1>1, <1>2, <1>3, <1>4, <1>5, <1>6 DEF Next

\* Once run() is over its endpoints are closed, so that nothing is sent any more.
THEOREM NoSendAfterReturnHolds == Spec => NoSendAfterReturn
<1>1. Init => Shut
  BY DEF Init, Shut
<1>2. Inv /\ Shut /\ [Next]_vars => [sent' # sent => main # "over" \/ hasty]_vars
  <2> SUFFICES ASSUME Inv, Shut, Next, sent' # sent PROVE main # "over" \/ hasty
    OBVIOUS
  <2>1. PICK b \in Boards : Send(b)
    BY DEF Next, vars, mainVars, workerVars, displayVars, link, closeVars, preVars, PressQ, Capture,
           AcceptStep, Listen, Connect, BoardStep, FindServer, LeaveServer, MainStep,
           PrecheckStep, PrecheckFinds, PrecheckFails, PrecheckDone, DisplayFails, WarmUp, CheckAlive, MainTick, JoinTimeout,
           Join, Decide, FinalPump, BeginClose, CloseNext, CloseRaises, CloseEnds,
           WorkerStep, StartStep, MakeEndpoint, StartEndpoint, BoardsConnected,
           StartConfirmed, StartCancelled, SendRaises, BeginPump, BeginLook, CallSucceeds, CallFails,
           WorkerPump, TimelineEnds, WorkerRaises, WorkerReturns
  <2>2. sock[b] = "connected"
    BY <2>1 DEF Send
  <2> QED BY <2>2 DEF Shut
<1> QED BY <1>1, <1>2, NextShut, Invariance, PTL DEF Spec, NoSendAfterReturn

\* As long as no q was taken the camera is read, and the main thread does not end
\* the run before the worker has ended.
Watched ==
  /\ running \/ quit # {} \/ main = "over"
  /\ capture \/ quit # {} \/ main \in {"precheck", "over"}
  /\ main \in {"closing", "over"} => worker \in {"idle", "dead"} \/ quit # {}

LEMMA TickWatches ==
  ASSUME Watched, NEW t \in Threads, Tick(t)
  PROVE  (quit # {} => quit' # {}) /\ (running' \/ quit' # {} \/ main = "over")
<1>1. CASE key BY <1>1 DEF Tick
<1>2. CASE ~key BY <1>2 DEF Tick, Watched
<1> QED BY <1>1, <1>2

LEMMA NextWatched == Inv /\ Watched /\ [Next]_vars => Watched'
<1> SUFFICES ASSUME Inv, Watched, [Next]_vars PROVE Watched'
  OBVIOUS
<1>0. /\ main \in {"pump", "close"} => worker = "dead" \/ quit # {}
      /\ main \in {"precheck", "warmup"} => worker = "idle"
  BY DEF Inv, MainOK
<1> USE DEF Watched, mainVars, workerVars, displayVars, link, closeVars, preVars
<1>1. CASE UNCHANGED vars BY <1>1 DEF vars
<1>2. CASE PressQ \/ Capture BY <1>2 DEF PressQ, Capture
<1>3. CASE AcceptStep \/ BoardStep
  BY <1>3 DEF AcceptStep, Listen, Connect, BoardStep, FindServer, LeaveServer
<1>4. CASE MainStep
  <2>1. CASE PrecheckStep
    BY <1>0, <2>1 DEF PrecheckStep, PrecheckFinds, PrecheckFails, PrecheckDone, DisplayFails
  <2>2. CASE WarmUp
    BY <2>2, TickWatches DEF WarmUp, Threads
  <2>3. CASE MainTick
    BY <2>3, TickWatches DEF MainTick, Threads
  <2>4. CASE FinalPump
    BY <2>4, TickWatches DEF FinalPump, Threads
  <2>5. CASE CheckAlive \/ JoinTimeout \/ Join \/ Decide
    BY <2>5 DEF CheckAlive, JoinTimeout, Join, Decide
  <2>6. CASE BeginClose
    BY <1>0, <2>6 DEF BeginClose
  <2>7. CASE CloseNext \/ CloseRaises \/ CloseEnds
    BY <2>7 DEF CloseNext, CloseRaises, CloseEnds
  <2> QED BY <1>4, <2>1, <2>2, <2>3, <2>4, <2>5, <2>6, <2>7 DEF MainStep
<1>5. CASE WorkerStep
  <2>1. CASE WorkerPump
    BY <2>1, TickWatches DEF WorkerPump, WorkerReturns, Threads
  <2>2. CASE ~WorkerPump
    <3>1. /\ UNCHANGED <<main, running, capture, quit>>
          /\ worker # "idle" \/ worker' = worker
          /\ worker \notin {"idle", "dead"} \/ worker' = worker
      BY <1>5, <2>2 DEF WorkerStep, StartStep, MakeEndpoint, StartEndpoint, Send, SendRaises,
             BoardsConnected, StartConfirmed, StartCancelled, BeginPump, BeginLook, CallSucceeds,
             CallFails, TimelineEnds, WorkerRaises, WorkerReturns
    <3> QED BY <3>1
  <2> QED BY <2>1, <2>2
<1> QED BY <1>1, <1>2, <1>3, <1>4, <1>5 DEF Next

\* A checkpoint looks at a picture of a camera nobody reads any more only after a q,
\* in every order of the three threads and for any number of calls.
THEOREM LooksAreLiveHolds == Spec => LooksAreLive
<1>1. Init => Watched
  BY DEF Init, Watched
<1>2. Inv /\ Watched /\ [Next]_vars => [worker' = "look" /\ worker # "look" => capture \/ quit # {}]_vars
  <2> SUFFICES ASSUME Inv, Watched, Next, worker' = "look", worker # "look" PROVE capture \/ quit # {}
    OBVIOUS
  <2>1. BeginLook
    BY DEF Next, vars, mainVars, workerVars, displayVars, link, closeVars, preVars, PressQ, Capture,
           AcceptStep, Listen, Connect, BoardStep, FindServer, LeaveServer, MainStep,
           PrecheckStep, PrecheckFinds, PrecheckFails, PrecheckDone, DisplayFails, WarmUp, CheckAlive, MainTick, JoinTimeout,
           Join, Decide, FinalPump, BeginClose, CloseNext, CloseRaises, CloseEnds,
           WorkerStep, StartStep, MakeEndpoint, StartEndpoint, BoardsConnected,
           StartConfirmed, StartCancelled, Send, SendRaises, BeginPump, CallSucceeds, CallFails,
           WorkerPump, TimelineEnds, WorkerRaises, WorkerReturns
  <2>2. worker = "next"
    BY <2>1 DEF BeginLook
  <2> QED BY <2>2 DEF Watched, Inv, MainOK
<1> QED BY <1>1, <1>2, NextWatched, Invariance, PTL DEF Spec, LooksAreLive
=============================================================================
