--------------------------- MODULE SchedulerThreads ---------------------------
(***************************************************************************)
(* The threads of TimelineScheduler.run with show_window: the main thread  *)
(* renders the window, a worker executes the timeline, a capture thread of *)
(* DualCameraDisplay reads the camera.  They share result_holder,          *)
(* display.running, the key queue of the window and the endpoints.         *)
(*                                                                         *)
(* What the worker executes is a sequence of at most MaxCalls blocking     *)
(* calls: "send" (_send_and_wait), "pump" (the wait of a wait action) and  *)
(* "look" (one detection of a checkpoint); TimelineScheduler.tla says which*)
(* ones, in what order, and how they fail.  Every endpoint has an accept   *)
(* thread of its own.  Closing a listening socket ends its accept, as it   *)
(* does on Windows, which the code is written for (CAP_DSHOW, app.py).     *)
(*                                                                         *)
(* app.py may have looked for the boards before (--device-precheck): its   *)
(* controllers' servers then listen on the same ports, until the process   *)
(* ends, and a board that is connected to one of them stays there.         *)
(***************************************************************************)
EXTENDS Integers, Sequences

CONSTANTS
  Boards,   \* the required boards that have a port
  Checked,  \* the boards in the order the precheck waits for them
  MaxCalls, \* blocking calls of the worker
  MaxKeys   \* presses of q

ASSUME ThreadsAssumption ==
  MaxCalls \in Nat /\ MaxKeys \in Nat /\ Checked \in Seq(Boards)

VARIABLES
  main,    \* "precheck", "warmup", "check", "tick", "join", "decide", "pump", "close",
           \* "closing", "over"
  worker,  \* "idle", "boards", "enter", "next", "ack", "pump", "look", "dead"
  calls,   \* blocking calls begun
  holder,  \* result_holder; result -1 is None
  ret,     \* the outcome of run: -1 none yet, a code, or "raise" as 999
  sock,    \* per board: "none", "made" (in the dictionary endpoints), "opening"
           \* (its accept thread was started), "listening", "connected", "closed"
  up,      \* the boards whose connected_event is set
  snap,    \* the keys when the finally block began to iterate over endpoints
  shut,    \* the boards whose close() it has called
  hasty,   \* it began before the worker had all its boards
  held,    \* the precheck's servers are up
  pre,     \* the boards that are connected to one of them
  seen,    \* how many boards the precheck has found
  sent,    \* commands written, per board
  running, \* display.running
  capture, \* the capture thread is alive
  frame,   \* display.latest_frame is not None
  keys,    \* presses of q not made yet
  key,     \* a q is in the window's queue
  quit     \* the threads that have taken a q from it

vars == <<main, worker, calls, holder, ret, sock, up, snap, shut, hasty, held, pre, seen, sent,
          running, capture, frame, keys, key, quit>>

Threads  == {"main", "worker"}
Raise    == 999
NoResult == -1

mainVars    == <<main, ret>>
workerVars  == <<worker, calls, sent>>
closeVars   == <<snap, shut, hasty>>
preVars     == <<held, pre, seen>>
link        == <<sock, up, closeVars, preVars>>
displayVars == <<running, key, quit>>

made == {b \in Boards : sock[b] # "none"}

Init ==
  /\ main \in {"precheck", "warmup"} /\ held = (main = "precheck")
  /\ pre = {} /\ seen = 0
  /\ worker = "idle" /\ calls = 0
  /\ holder = [result |-> NoResult, exc |-> FALSE] /\ ret = NoResult
  /\ sock = [b \in Boards |-> "none"] /\ up = {} /\ sent = [b \in Boards |-> 0]
  /\ snap = {} /\ shut = {} /\ hasty = FALSE
  /\ running = TRUE /\ capture = ~held /\ frame = FALSE
  /\ keys = MaxKeys /\ key = FALSE /\ quit = {}

-----------------------------------------------------------------------------
(* The window and the camera.                                              *)

PressQ ==
  /\ keys > 0 /\ main \notin {"precheck", "over"}
  /\ keys' = keys - 1 /\ key' = TRUE
  /\ UNCHANGED <<mainVars, workerVars, holder, link, running, capture, frame, quit>>

\* DualCameraDisplay.tick by thread t: render, then take a key; q ends the
\* capture as well.
Tick(t) ==
  /\ key' = FALSE
  /\ running' = (running /\ ~key)
  /\ quit' = IF key THEN quit \cup {t} ELSE quit

\* BUG: a read without a picture ends the capture thread.
Capture_EndsAtMiss ==
  /\ capture
  /\ IF running THEN \/ frame' = TRUE /\ UNCHANGED capture
                     \/ capture' = FALSE /\ UNCHANGED frame
                ELSE capture' = FALSE /\ UNCHANGED frame
  /\ UNCHANGED <<mainVars, workerVars, holder, link, displayVars, keys>>

\* _capture_loop: one picture, until display.running is taken back.
Capture ==
  /\ capture
  /\ IF running THEN frame' = TRUE /\ UNCHANGED capture
                ELSE capture' = FALSE /\ UNCHANGED frame
  /\ UNCHANGED <<mainVars, workerVars, holder, link, displayVars, keys>>

-----------------------------------------------------------------------------
(* app.py before the prompt, with --device-precheck.                       *)

\* A board connects to the server of the controllers.
FindServer(b) ==
  /\ held /\ main # "over" /\ b \notin pre /\ sock[b] # "connected"
  /\ pre' = pre \cup {b}
  /\ UNCHANGED <<mainVars, workerVars, holder, sock, up, closeVars, held, seen,
                 displayVars, capture, frame, keys>>

LeaveServer(b) ==
  /\ b \in pre
  /\ pre' = pre \ {b}
  /\ UNCHANGED <<mainVars, workerVars, holder, sock, up, closeVars, held, seen,
                 displayVars, capture, frame, keys>>

\* wait_for_client of one controller after the other.
PrecheckFinds ==
  /\ main = "precheck" /\ seen < Len(Checked) /\ Checked[seen + 1] \in pre
  /\ seen' = seen + 1
  /\ UNCHANGED <<mainVars, workerVars, holder, sock, up, closeVars, held, pre,
                 displayVars, capture, frame, keys>>

\* "ESP32-S3 did not connect during startup precheck": the program ends.
PrecheckFails ==
  /\ main = "precheck" /\ seen < Len(Checked) /\ Checked[seen + 1] \notin pre
  /\ main' = "over"
  /\ UNCHANGED <<ret, workerVars, holder, link, displayVars, capture, frame, keys>>

\* The plan is made and confirmed (PlanAgent.tla); run() starts the display.
PrecheckDone ==
  /\ main = "precheck" /\ seen = Len(Checked)
  /\ main' = "warmup" /\ capture' = TRUE
  /\ UNCHANGED <<ret, workerVars, holder, link, displayVars, frame, keys>>

\* "Cannot open camera index": display.start raises before there are threads.
DisplayFails ==
  /\ main = "precheck" /\ seen = Len(Checked)
  /\ main' = "over" /\ ret' = Raise
  /\ UNCHANGED <<workerVars, holder, link, displayVars, capture, frame, keys>>

-----------------------------------------------------------------------------
(* The main thread.                                                        *)

\* display.start renders until there is a frame or three seconds are over; what
\* tick returns is not looked at.  Then the worker is started.
WarmUp ==
  /\ main = "warmup"
  /\ Tick("main")
  /\ \/ main' = "check" /\ worker' = "boards"
     \/ ~frame /\ UNCHANGED <<main, worker>>
  /\ UNCHANGED <<calls, holder, ret, link, sent, capture, frame, keys>>

\* while worker_thread.is_alive()
CheckAlive ==
  /\ main = "check"
  /\ main' = IF worker = "dead" THEN "join" ELSE "tick"
  /\ UNCHANGED <<ret, workerVars, holder, link, displayVars, capture, frame, keys>>

MainTick ==
  /\ main = "tick"
  /\ Tick("main")
  /\ IF key THEN main' = "join" /\ holder' = [holder EXCEPT !.result = 130]
            ELSE main' = "check" /\ UNCHANGED holder
  /\ UNCHANGED <<ret, workerVars, link, capture, frame, keys>>

\* BUG: join() has no timeout.
JoinTimeout_Never ==
  /\ FALSE
  /\ UNCHANGED vars

\* join(timeout=1.0) gives up on a worker that is in a call.
JoinTimeout ==
  /\ main = "join" /\ worker # "dead"
  /\ main' = "decide"
  /\ UNCHANGED <<ret, workerVars, holder, link, displayVars, capture, frame, keys>>

Join ==
  /\ main = "join" /\ worker = "dead"
  /\ main' = "decide"
  /\ UNCHANGED <<ret, workerVars, holder, link, displayVars, capture, frame, keys>>

\* BUG: the result is looked at before the exception.
Decide_ResultFirst ==
  /\ main = "decide"
  /\ IF holder.exc /\ holder.result = NoResult THEN ret' = Raise /\ main' = "close"
     ELSE ret' = (IF holder.result = NoResult THEN 1 ELSE holder.result) /\ main' = "pump"
  /\ UNCHANGED <<workerVars, holder, link, displayVars, capture, frame, keys>>

\* The exception of the worker first; a worker that left nothing counts as 1.
Decide ==
  /\ main = "decide"
  /\ IF holder.exc THEN ret' = Raise /\ main' = "close"
     ELSE ret' = (IF holder.result = NoResult THEN 1 ELSE holder.result) /\ main' = "pump"
  /\ UNCHANGED <<workerVars, holder, link, displayVars, capture, frame, keys>>

\* display.pump(2.0): ends early at a q.
FinalPump ==
  /\ main = "pump"
  /\ Tick("main")
  /\ main' \in (IF key THEN {"close"} ELSE {"pump", "close"})
  /\ UNCHANGED <<ret, workerVars, holder, link, capture, frame, keys>>

\* The finally block iterates over endpoints.values().
BeginClose ==
  /\ main = "close"
  /\ main' = "closing" /\ snap' = made /\ hasty' = (worker = "boards")
  /\ UNCHANGED <<ret, workerVars, holder, sock, up, shut, preVars, displayVars, capture, frame, keys>>

\* BUG: the endpoints stay as they are.
CloseNext_KeepsEndpoints ==
  /\ main = "closing" /\ made = snap
  /\ \E b \in snap \ shut : shut' = shut \cup {b}
  /\ UNCHANGED <<mainVars, workerVars, holder, sock, up, snap, hasty, preVars, displayVars,
                 capture, frame, keys>>

\* TcpEndpoint.close: an accept thread that has not created its socket yet is
\* missed, and goes on to listen.
CloseNext ==
  /\ main = "closing" /\ made = snap
  /\ \E b \in snap \ shut :
       /\ shut' = shut \cup {b}
       /\ \/ sock[b] \in {"opening", "listening", "connected"}
             /\ sock' = [sock EXCEPT ![b] = "closed"]
          \/ sock[b] \in {"made", "opening", "closed"} /\ UNCHANGED sock
  /\ UNCHANGED <<mainVars, workerVars, holder, up, snap, hasty, preVars, displayVars,
                 capture, frame, keys>>

\* The worker has inserted an endpoint: "dictionary changed size during
\* iteration".  The rest of the block, display.stop() included, is skipped.
CloseRaises ==
  /\ main = "closing" /\ made # snap
  /\ main' = "over" /\ ret' = Raise
  /\ UNCHANGED <<workerVars, holder, link, displayVars, capture, frame, keys>>

\* Every endpoint is closed; display.stop().
CloseEnds ==
  /\ main = "closing" /\ made = snap /\ snap \subseteq shut
  /\ main' = "over" /\ running' = FALSE
  /\ UNCHANGED <<ret, workerVars, holder, link, key, quit, capture, frame, keys>>

-----------------------------------------------------------------------------
(* The worker.                                                             *)

\* _start_required_endpoints: into the dictionary first, then start().
MakeEndpoint(b) ==
  /\ worker = "boards" /\ sock[b] = "none"
  /\ \A c \in Boards : sock[c] # "made"
  /\ sock' = [sock EXCEPT ![b] = "made"]
  /\ UNCHANGED <<mainVars, workerVars, holder, up, closeVars, preVars, displayVars,
                 capture, frame, keys>>

StartEndpoint(b) ==
  /\ worker = "boards" /\ sock[b] = "made"
  /\ sock' = [sock EXCEPT ![b] = "opening"]
  /\ UNCHANGED <<mainVars, workerVars, holder, up, closeVars, preVars, displayVars,
                 capture, frame, keys>>

\* The accept thread: bind and listen, or an exception that ends it, as when the
\* port is taken; then accept.
Listen(b) ==
  /\ sock[b] = "opening"
  /\ sock' \in {[sock EXCEPT ![b] = "listening"], [sock EXCEPT ![b] = "closed"]}
  /\ UNCHANGED <<mainVars, workerVars, holder, up, closeVars, preVars, displayVars,
                 capture, frame, keys>>

\* BUG: connected_event is not set.
Connect_NoEvent(b) ==
  /\ sock[b] = "listening" /\ b \notin pre
  /\ sock' = [sock EXCEPT ![b] = "connected"]
  /\ UNCHANGED <<mainVars, workerVars, holder, up, closeVars, preVars, displayVars,
                 capture, frame, keys>>

\* A board that is not with the precheck's server.
Connect(b) ==
  /\ sock[b] = "listening" /\ b \notin pre
  /\ sock' = [sock EXCEPT ![b] = "connected"] /\ up' = up \cup {b}
  /\ UNCHANGED <<mainVars, workerVars, holder, closeVars, preVars, displayVars,
                 capture, frame, keys>>

\* The worker waits for the boards without a limit.
BoardsConnected ==
  /\ worker = "boards" /\ up = Boards
  /\ worker' = "enter"
  /\ UNCHANGED <<mainVars, calls, sent, holder, link, displayVars, capture, frame, keys>>

\* BUG: the thread dies of its exception.
WorkerRaises_Lost ==
  /\ worker' = "dead"
  /\ UNCHANGED <<mainVars, calls, sent, holder, link, displayVars, capture, frame, keys>>

\* An exception of the worker is kept in result_holder.
WorkerRaises ==
  /\ worker' = "dead"
  /\ holder' = [holder EXCEPT !.exc = TRUE]
  /\ UNCHANGED <<mainVars, calls, sent, link, displayVars, capture, frame, keys>>

WorkerReturns(code) ==
  /\ worker' = "dead"
  /\ holder' = [holder EXCEPT !.result = code]
  /\ UNCHANGED <<mainVars, calls, sent, link, capture, frame, keys>>

\* ENTER starts, q cancels by an exception.
StartConfirmed ==
  /\ worker = "enter"
  /\ worker' = "next"
  /\ UNCHANGED <<mainVars, calls, sent, holder, link, displayVars, capture, frame, keys>>

StartCancelled == worker = "enter" /\ WorkerRaises

\* send_cmd; writing to a closed socket raises.
Send(b) ==
  /\ worker = "next" /\ calls < MaxCalls /\ sock[b] = "connected"
  /\ calls' = calls + 1 /\ sent' = [sent EXCEPT ![b] = @ + 1] /\ worker' = "ack"
  /\ UNCHANGED <<mainVars, holder, link, displayVars, capture, frame, keys>>

SendRaises(b) == worker = "next" /\ calls < MaxCalls /\ sock[b] = "closed" /\ WorkerRaises

BeginPump ==
  /\ worker = "next" /\ calls < MaxCalls
  /\ calls' = calls + 1 /\ worker' = "pump"
  /\ UNCHANGED <<mainVars, sent, holder, link, displayVars, capture, frame, keys>>

\* get_frame; without a frame the checkpoint tries again.
BeginLook ==
  /\ worker = "next" /\ calls < MaxCalls
  /\ calls' = calls + 1
  /\ worker' = IF frame THEN "look" ELSE "next"
  /\ UNCHANGED <<mainVars, sent, holder, link, displayVars, capture, frame, keys>>

CallSucceeds ==
  /\ worker \in {"ack", "look"}
  /\ worker' = "next"
  /\ UNCHANGED <<mainVars, calls, sent, holder, link, displayVars, capture, frame, keys>>

\* A failed call ends the timeline with 3, or the action has on_fail=continue.
CallFails ==
  /\ worker \in {"ack", "look"}
  /\ WorkerReturns(3) /\ UNCHANGED displayVars

\* One tick of pump: a q makes the wait fail, otherwise it goes on or is over.
WorkerPump ==
  /\ worker = "pump"
  /\ Tick("worker")
  /\ IF key THEN \/ WorkerReturns(3)
                 \/ worker' = "next" /\ UNCHANGED <<mainVars, calls, sent, holder, link, capture, frame, keys>>
     ELSE /\ worker' \in {"pump", "next"}
          /\ UNCHANGED <<mainVars, calls, sent, holder, link, capture, frame, keys>>

\* Every action done, or none ready.
TimelineEnds ==
  /\ worker = "next"
  /\ \E code \in {0, 2} : WorkerReturns(code)
  /\ UNCHANGED displayVars

-----------------------------------------------------------------------------
PrecheckStep == PrecheckFinds \/ PrecheckFails \/ PrecheckDone \/ DisplayFails

MainStep ==
  \/ PrecheckStep \/ WarmUp \/ CheckAlive \/ MainTick \/ JoinTimeout \/ Join \/ Decide
  \/ FinalPump \/ BeginClose \/ CloseNext \/ CloseRaises \/ CloseEnds

StartStep == BoardsConnected \/ \E b \in Boards : MakeEndpoint(b) \/ StartEndpoint(b)

WorkerStep ==
  \/ StartStep
  \/ \E b \in Boards : Send(b) \/ SendRaises(b)
  \/ StartConfirmed \/ StartCancelled
  \/ BeginPump \/ BeginLook \/ CallSucceeds \/ CallFails \/ WorkerPump \/ TimelineEnds

AcceptStep == \E b \in Boards : Listen(b) \/ Connect(b)

BoardStep == \E b \in Boards : FindServer(b) \/ LeaveServer(b)

Next == PressQ \/ Capture \/ AcceptStep \/ BoardStep \/ MainStep \/ WorkerStep

Spec == Init /\ [][Next]_vars

\* The main thread is scheduled and its warm-up and its last pump have deadlines.
\* Nothing is assumed of the worker, the boards, the operator or the camera.
PumpEnds == FinalPump /\ main' = "close"
WarmEnds == WarmUp /\ main' = "check"

FairSpec == Spec /\ WF_vars(MainStep) /\ WF_vars(PumpEnds) /\ WF_vars(WarmEnds)

\* Moreover the worker opens its endpoints, and a board that finds a listening
\* endpoint connects to it.
StartFairness == /\ WF_vars(StartStep)
                 /\ \A b \in Boards : WF_vars(Listen(b)) /\ WF_vars(Connect(b))

StartSpec == FairSpec /\ StartFairness

-----------------------------------------------------------------------------
(* Properties.                                                             *)

TypeOK ==
  /\ main \in {"precheck", "warmup", "check", "tick", "join", "decide", "pump", "close",
              "closing", "over"}
  /\ worker \in {"idle", "boards", "enter", "next", "ack", "pump", "look", "dead"}
  /\ calls \in 0..MaxCalls /\ sent \in [Boards -> 0..calls]
  /\ holder \in [result : {NoResult, 0, 2, 3, 130}, exc : BOOLEAN]
  /\ ret \in {NoResult, 0, 2, 3, 130, Raise}
  /\ sock \in [Boards -> {"none", "made", "opening", "listening", "connected", "closed"}]
  /\ up \subseteq Boards /\ shut \subseteq snap /\ snap \subseteq made
  /\ pre \subseteq Boards /\ seen \in 0..Len(Checked) /\ held \in BOOLEAN
  /\ {hasty, running, capture, frame, key} \subseteq BOOLEAN
  /\ keys \in 0..MaxKeys
  /\ quit \subseteq Threads

\* What run() returns is what happened, in every order of the two threads: a code
\* of the timeline only when the worker has ended with it, 130 only when the main
\* thread has taken a q, and never the code 1 of a worker that left nothing.  It
\* raises what the worker has raised, or, after a q during the start-up, what the
\* iteration of the finally block raises, or, before there is a worker, what the
\* start of the display raises.  A q that the worker overtakes by ending inside
\* join is answered with the worker's code.
ResultExplained ==
  /\ ret # 1
  /\ ret \in {0, 2, 3} => worker = "dead" /\ holder.result = ret /\ ~holder.exc
  /\ ret = 130 => "main" \in quit
  /\ ret = Raise => \/ worker = "dead" /\ holder.exc
                    \/ hasty /\ "main" \in quit
                    \/ worker = "idle"

\* An exception the worker has raised before the main thread has decided is what
\* run() ends with, even when a q is taken between the two.
WorkerErrorRaised ==
  (holder.exc /\ main \in {"check", "tick", "join", "decide"}) ~> ret = Raise

\* When run() is over nothing is sent any more, though the worker lives on; unless
\* the finally block began while the worker was still opening its endpoints, some
\* of which it then misses.
NoSendAfterReturn == [][sent' # sent => main # "over" \/ hasty]_vars

\* A checkpoint looks at an old picture, of a camera nobody reads any more, only
\* after a q: one that the warm-up passed over, one that the worker's own pump
\* took, or one after which the main thread is on its way out.
LooksAreLive == [][worker' = "look" /\ worker # "look" => capture \/ quit # {}]_vars

\* run() ends after a q that the main thread takes in its loop, whatever call the
\* worker is blocked in, and after the end of the worker.
QuitEnds == (main = "join" \/ worker = "dead") ~> main = "over"

-----------------------------------------------------------------------------
(* The wait for the boards, which has no time limit.                       *)

Waiting == worker = "boards" /\ main # "over"
Met     == worker # "boards" \/ main = "over" \/ \E b \in Boards : sock[b] = "closed"

\* Without the precheck the wait for the boards comes to an end, if the boards try
\* and the ports are free.
BoardsMeet == StartFairness => (Waiting /\ ~held ~> Met)

\* app.py:159-161: the controllers of the precheck are kept so that their servers
\* stay there for the executor that is used after /confirm.  With or without the
\* precheck, the boards are then met.
PrecheckServes == Waiting ~> Met
=============================================================================
