--------------------------- MODULE ProjectTCPServer ---------------------------
(***************************************************************************)
(* runtime/tcp_server.py: the PC-side server a board connects to.  Its     *)
(* threads: the accept thread, one receive thread per accepted client      *)
(* (which looks up client_socket again on every turn, so it may end up     *)
(* reading its successor's socket), and the caller of the public methods   *)
(* (the controllers, one thread).  The boards are the environment: a board *)
(* may connect again while its old connection still looks alive.           *)
(*                                                                         *)
(* A connection is a number, in the order of connecting.  A line is what   *)
(* the board wrote, travelling as two chunks: recv may return any number   *)
(* of chunks, and a line whose halves do not meet in one buffer is not     *)
(* JSON and ignored.                                                       *)
(***************************************************************************)
EXTENDS Integers, Sequences

CONSTANTS
  MaxConns,     \* connections the boards make
  MaxCmds,      \* commands the caller sends
  HistorySize   \* maxlen of payload_history

Conns == 1..MaxConns
Cmds  == 1..MaxCmds
None  == 0

ASSUME ServerAssumption == /\ MaxConns \in Nat /\ MaxCmds \in Nat
                           /\ HistorySize \in Nat \ {0}

\* cmd = 0 in the line a board says first.
Lines == [from : Conns, kind : {"ready"}, cmd : {0}]
         \cup [from : Conns, kind : {"ok", "refused"}, cmd : Cmds]
NoLine == [from |-> None, kind |-> "none", cmd |-> 0]
Chunks == Lines \X {1, 2}

VARIABLES
  running,   \* is_running
  client,    \* client_socket, None if there is none
  sock,      \* per connection, the PC's end: "new", "queued", "open", "closed"
  peer,      \* per connection, the board's end: TRUE while open
  stream,    \* per connection: chunks on their way to the PC
  todo,      \* per connection: commands the board has not answered
  acc,       \* accept thread: "off", "accept", "install", "clear", "spawn"
  accConn,   \* the connection it is installing
  recv,      \* per connection, the receive thread spawned for it: "off", "top",
             \* "read", "handle", "clear", "gone"
  hold,      \* the socket that thread reads
  buffer,    \* what it has received and not cut into lines
  last,      \* last_response, NoLine for None
  history,   \* payload_history
  caller,    \* "idle", "send", "ack", "payload", "stop", "stopped"
  outcome,   \* how its last call ended
  cmd,       \* commands sent or tried so far
  handled,   \* history: lines that were parsed and filed
  before     \* history: those filed when the current call began

server == <<running, client, sock>>
board  == <<peer, stream, todo>>
accept == <<acc, accConn>>
recvs  == <<recv, hold, buffer>>
filed  == <<last, history>>
calls  == <<caller, outcome, cmd, before>>
vars   == <<server, board, accept, recvs, filed, calls, handled>>

TypeOK ==
  /\ running \in BOOLEAN
  /\ client \in Conns \cup {None}
  /\ sock \in [Conns -> {"new", "queued", "open", "closed"}]
  /\ peer \in [Conns -> BOOLEAN]
  /\ stream \in [Conns -> Seq(Chunks)] /\ buffer \in [Conns -> Seq(Chunks)]
  /\ todo \in [Conns -> SUBSET Cmds]
  /\ acc \in {"off", "accept", "install", "clear", "spawn"}
  /\ accConn \in Conns \cup {None}
  /\ recv \in [Conns -> {"off", "top", "read", "handle", "clear", "gone"}]
  /\ hold \in [Conns -> Conns \cup {None}]
  /\ last \in Lines \cup {NoLine}
  /\ history \in Seq(Lines) /\ Len(history) <= HistorySize
  /\ caller \in {"idle", "send", "ack", "payload", "stop", "stopped"}
  /\ outcome \in {"none", "sent", "error", "ok", "timeout", "ready", "missed"}
  /\ cmd \in 0..MaxCmds
  /\ handled \subseteq Lines /\ before \subseteq Lines

\* start() has been called by the controllers' connect().  A server that cannot
\* bind its port does not run.
Init ==
  /\ running \in BOOLEAN /\ client = None
  /\ sock = [c \in Conns |-> "new"]
  /\ peer = [c \in Conns |-> FALSE]
  /\ stream = [c \in Conns |-> <<>>]
  /\ todo = [c \in Conns |-> {}]
  /\ acc = (IF running THEN "accept" ELSE "off") /\ accConn = None
  /\ recv = [c \in Conns |-> "off"]
  /\ hold = [c \in Conns |-> None]
  /\ buffer = [c \in Conns |-> <<>>]
  /\ last = NoLine /\ history = <<>>
  /\ caller = "idle" /\ outcome = "none" /\ cmd = 0
  /\ handled = {} /\ before = {}

Written(l) == << <<l, 1>>, <<l, 2>> >>

-----------------------------------------------------------------------------
(* The accept thread.                                                      *)

AcceptClient ==
  /\ acc = "accept" /\ running
  /\ \E c \in Conns : /\ sock[c] = "queued"
                      /\ \A d \in Conns : sock[d] = "queued" => c <= d
                      /\ accConn' = c
  /\ acc' = "install"
  /\ UNCHANGED <<server, board, recvs, filed, calls, handled>>

AcceptEnds ==
  /\ acc = "accept" /\ ~running
  /\ acc' = "off"
  /\ UNCHANGED <<server, board, accConn, recvs, filed, calls, handled>>

\* BUG: the previous client's socket is left open.
InstallClient_LeavesOld ==
  /\ acc = "install"
  /\ sock' = [sock EXCEPT ![accConn] = "open"]
  /\ client' = accConn
  /\ acc' = "clear"
  /\ UNCHANGED <<running, board, accConn, recvs, filed, calls, handled>>

\* The new client replaces the old one, whose socket is closed.
InstallClient ==
  /\ acc = "install"
  /\ sock' = [c \in Conns |-> IF c = accConn THEN "open"
                              ELSE IF c = client THEN "closed" ELSE sock[c]]
  /\ client' = accConn
  /\ acc' = "clear"
  /\ UNCHANGED <<running, board, accConn, recvs, filed, calls, handled>>

ForgetOldClient ==
  /\ acc = "clear"
  /\ last' = NoLine /\ history' = <<>>
  /\ acc' = "spawn"
  /\ UNCHANGED <<server, board, accConn, recvs, calls, handled>>

SpawnReceiver ==
  /\ acc = "spawn"
  /\ recv' = [recv EXCEPT ![accConn] = "top"]
  /\ acc' = "accept"
  /\ UNCHANGED <<server, board, accConn, hold, buffer, filed, calls, handled>>

-----------------------------------------------------------------------------
(* The receive thread r.                                                   *)

ReceiverGoes(r) ==
  /\ recv[r] = "top" /\ (~running \/ client = None)
  /\ recv' = [recv EXCEPT ![r] = "gone"]
  /\ UNCHANGED <<server, board, accept, hold, buffer, filed, calls, handled>>

\* The lock is released before recv is called on what was read.
ReceiverLooksUp(r) ==
  /\ recv[r] = "top" /\ running /\ client # None
  /\ hold' = [hold EXCEPT ![r] = client]
  /\ recv' = [recv EXCEPT ![r] = "read"]
  /\ UNCHANGED <<server, board, accept, buffer, filed, calls, handled>>

ReceiveData(r) ==
  /\ recv[r] = "read" /\ sock[hold[r]] = "open" /\ stream[hold[r]] # <<>>
  /\ \E n \in 1..Len(stream[hold[r]]) :
       /\ buffer' = [buffer EXCEPT ![r] = @ \o SubSeq(stream[hold[r]], 1, n)]
       /\ stream' = [stream EXCEPT ![hold[r]] = SubSeq(@, n + 1, Len(@))]
  /\ recv' = [recv EXCEPT ![r] = "handle"]
  /\ UNCHANGED <<server, peer, todo, accept, hold, filed, calls, handled>>

\* One second without data, or the socket was closed under recv.
ReceiveTimeout(r) ==
  /\ recv[r] = "read" /\ (stream[hold[r]] = <<>> \/ sock[hold[r]] = "closed")
  /\ recv' = [recv EXCEPT ![r] = "top"]
  /\ UNCHANGED <<server, board, accept, hold, buffer, filed, calls, handled>>

\* BUG: the thread ends on a lost connection and leaves client_socket set.
ReceiveFails_NoClear(r) ==
  /\ recv[r] = "read"
  /\ sock[hold[r]] = "closed" \/ ~peer[hold[r]]
  /\ recv' = [recv EXCEPT ![r] = "gone"]
  /\ UNCHANGED <<server, board, accept, hold, buffer, filed, calls, handled>>

\* End of stream, reset by the peer, or a socket that was closed here.
ReceiveFails(r) ==
  /\ recv[r] = "read"
  /\ sock[hold[r]] = "closed" \/ ~peer[hold[r]]
  /\ recv' = [recv EXCEPT ![r] = "clear"]
  /\ UNCHANGED <<server, board, accept, hold, buffer, filed, calls, handled>>

\* BUG: whatever client there is, it is cleared.
ClearClient_Any(r) ==
  /\ recv[r] = "clear"
  /\ client' = None
  /\ sock' = [c \in Conns |-> IF c = client THEN "closed" ELSE sock[c]]
  /\ recv' = [recv EXCEPT ![r] = "gone"]
  /\ UNCHANGED <<running, board, accept, hold, buffer, filed, calls, handled>>

\* _clear_client(sock): only if it still is the client.
ClearClient(r) ==
  /\ recv[r] = "clear"
  /\ \/ client = hold[r] /\ client' = None /\ sock' = [sock EXCEPT ![client] = "closed"]
     \/ client # hold[r] /\ UNCHANGED <<client, sock>>
  /\ recv' = [recv EXCEPT ![r] = "gone"]
  /\ UNCHANGED <<running, board, accept, hold, buffer, filed, calls, handled>>

\* deque(maxlen): the oldest entry gives way.
Pushed(h, l) == IF Len(h) < HistorySize THEN Append(h, l) ELSE Append(Tail(h), l)

EndsLine(b) == {k \in DOMAIN b : b[k][2] = 2}

\* _handle_line on the first whole line of the buffer: filed if it is JSON.
HandleLine(r) ==
  /\ recv[r] = "handle"
  /\ \E n \in EndsLine(buffer[r]) :
       LET b == buffer[r]
           l == b[n][1]
       IN  /\ \A k \in EndsLine(b) : n <= k
           /\ buffer' = [buffer EXCEPT ![r] = SubSeq(b, n + 1, Len(b))]
           /\ \/ /\ SubSeq(b, 1, n) = Written(l)
                 /\ last' = l
                 /\ history' = Pushed(history, l)
                 /\ handled' = handled \cup {l}
              \/ /\ SubSeq(b, 1, n) # Written(l)
                 /\ UNCHANGED <<filed, handled>>
  /\ UNCHANGED <<server, board, accept, recv, hold, calls>>

NoMoreLines(r) ==
  /\ recv[r] = "handle" /\ EndsLine(buffer[r]) = {}
  /\ recv' = [recv EXCEPT ![r] = "top"]
  /\ UNCHANGED <<server, board, accept, hold, buffer, filed, calls, handled>>

-----------------------------------------------------------------------------
(* The caller.                                                             *)

\* The board of the client gets the command while its end is open.
Deliver == todo' = [c \in Conns |-> IF c = client /\ peer[c] THEN todo[c] \cup {cmd'} ELSE todo[c]]

\* send_text under the lock; a failing sendall clears the client: the connection
\* is broken, or one second was not enough for a board that is still there.
SendText ==
  \/ /\ client # None /\ running
     /\ Deliver /\ UNCHANGED <<client, sock>>
     /\ outcome' = "sent"
  \/ /\ client = None \/ ~running
     /\ UNCHANGED <<client, sock, todo>>
     /\ outcome' = "error"
  \/ /\ client # None /\ running
     /\ client' = None /\ sock' = [sock EXCEPT ![client] = "closed"]
     /\ UNCHANGED todo
     /\ outcome' = "error"

\* send_json without waiting for an answer.
SendJson ==
  /\ caller = "idle" /\ cmd < MaxCmds
  /\ cmd' = cmd + 1
  /\ SendText
  /\ UNCHANGED <<running, peer, stream, accept, recvs, filed, caller, before, handled>>

\* BUG: send_json_and_wait_ack does not forget what it has.
BeginCommand_KeepsLast ==
  /\ caller = "idle" /\ cmd < MaxCmds
  /\ caller' = "send" /\ cmd' = cmd + 1 /\ before' = handled
  /\ UNCHANGED <<server, board, accept, recvs, filed, outcome, handled>>

BeginCommand ==
  /\ caller = "idle" /\ cmd < MaxCmds
  /\ last' = NoLine /\ history' = <<>>
  /\ caller' = "send" /\ cmd' = cmd + 1 /\ before' = handled
  /\ UNCHANGED <<server, board, accept, recvs, outcome, handled>>

SendCommand ==
  /\ caller = "send"
  /\ UNCHANGED cmd
  /\ SendText
  /\ caller' = IF outcome' = "sent" THEN "ack" ELSE "idle"
  /\ UNCHANGED <<running, peer, stream, accept, recvs, filed, before, handled>>

\* Whatever came first is the answer.
Answered ==
  /\ caller = "ack" /\ last # NoLine
  /\ outcome' = IF last.kind = "ok" THEN "ok" ELSE "error"
  /\ caller' = "idle"
  /\ UNCHANGED <<server, board, accept, recvs, filed, cmd, before, handled>>

AckTimeout ==
  /\ caller = "ack" /\ last = NoLine
  /\ outcome' = "timeout" /\ caller' = "idle"
  /\ UNCHANGED <<server, board, accept, recvs, filed, cmd, before, handled>>

\* wait_for_payload for the board's ready line.
BeginWait ==
  /\ caller = "idle"
  /\ caller' = "payload" /\ before' = handled
  /\ UNCHANGED <<server, board, accept, recvs, filed, outcome, cmd, handled>>

IsReady(l) == l.kind = "ready"

WaitMatches ==
  /\ caller = "payload" /\ \E k \in DOMAIN history : IsReady(history[k])
  /\ outcome' = "ready" /\ caller' = "idle"
  /\ UNCHANGED <<server, board, accept, recvs, filed, cmd, before, handled>>

WaitTimeout ==
  /\ caller = "payload" /\ \A k \in DOMAIN history : ~IsReady(history[k])
  /\ outcome' = "missed" /\ caller' = "idle"
  /\ UNCHANGED <<server, board, accept, recvs, filed, cmd, before, handled>>

\* stop(): the flag first, then, under the lock, the sockets.
Stop ==
  /\ running /\ caller = "idle"
  /\ running' = FALSE /\ caller' = "stop"
  /\ UNCHANGED <<client, sock, board, accept, recvs, filed, outcome, cmd, before, handled>>

StopCloses ==
  /\ caller = "stop"
  /\ client' = None
  /\ sock' = [c \in Conns |-> IF c = client THEN "closed" ELSE sock[c]]
  /\ caller' = "stopped"
  /\ UNCHANGED <<running, board, accept, recvs, filed, outcome, cmd, before, handled>>

-----------------------------------------------------------------------------
(* The boards.                                                             *)

\* A board connects, and says so; its previous connection may look alive.
Connect(c) ==
  /\ running /\ sock[c] = "new" /\ \A d \in Conns : sock[d] = "new" => c <= d
  /\ sock' = [sock EXCEPT ![c] = "queued"]
  /\ peer' = [peer EXCEPT ![c] = TRUE]
  /\ stream' = [stream EXCEPT ![c] = Written([from |-> c, kind |-> "ready", cmd |-> 0])]
  /\ UNCHANGED <<running, client, todo, accept, recvs, filed, calls, handled>>

Reply(c) ==
  /\ peer[c]
  /\ \E n \in todo[c], k \in {"ok", "refused"} :
       /\ todo' = [todo EXCEPT ![c] = @ \ {n}]
       /\ stream' = [stream EXCEPT ![c] = @ \o Written([from |-> c, kind |-> k, cmd |-> n])]
  /\ UNCHANGED <<server, peer, accept, recvs, filed, calls, handled>>

Leave(c) ==
  /\ peer[c]
  /\ peer' = [peer EXCEPT ![c] = FALSE]
  /\ UNCHANGED <<server, stream, todo, accept, recvs, filed, calls, handled>>

-----------------------------------------------------------------------------
AcceptThread == \/ AcceptClient \/ AcceptEnds \/ InstallClient
                \/ ForgetOldClient \/ SpawnReceiver

Receiver(r) == \/ ReceiverGoes(r) \/ ReceiverLooksUp(r) \/ ReceiveData(r)
               \/ ReceiveTimeout(r) \/ ReceiveFails(r) \/ ClearClient(r)
               \/ HandleLine(r) \/ NoMoreLines(r)

Caller == \/ SendJson \/ BeginCommand \/ SendCommand \/ Answered \/ AckTimeout
          \/ BeginWait \/ WaitMatches \/ WaitTimeout \/ Stop \/ StopCloses

BoardsNext == \E c \in Conns : Connect(c) \/ Reply(c) \/ Leave(c)

Next == AcceptThread \/ (\E r \in Conns : Receiver(r)) \/ Caller \/ BoardsNext

Spec == Init /\ [][Next]_vars

-----------------------------------------------------------------------------
(* Properties.                                                             *)

\* The current client is never a socket that this side has closed, and at most
\* one accepted connection is open here.
OneOpenClient ==
  \A c \in Conns : sock[c] = "open" <=> c = client

\* A client is given up only when its own connection has broken, when the next
\* client replaces it, on stop(), or by the caller whose command it did not take in
\* time and who is told so: a receive thread that fails late on a replaced socket
\* does not take the new client down with it.
ClientKept ==
  [][\A c \in Conns : client = c /\ client' # c =>
        \/ ~peer[c] \/ client' # None \/ ~running
        \/ recv' = recv /\ outcome' = "error"]_vars

\* While a client is connected, some receive thread reads, or is about to read,
\* its socket: none of the ways in which receive threads end leaves a connected
\* board unheard.
Served ==
  running /\ client # None /\ acc \notin {"clear", "spawn"} =>
    \E r \in Conns : \/ recv[r] \in {"top", "handle"}
                     \/ recv[r] \in {"read", "clear"} /\ hold[r] = client

\* The answer a caller acts on was filed after its call began.
FreshAnswer == caller = "ack" => last \notin before
=============================================================================
