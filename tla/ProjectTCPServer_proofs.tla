---------------------- MODULE ProjectTCPServer_proofs ----------------------
(***************************************************************************)
(* Theorems about ProjectTCPServer, for any number of connections, commands*)
(* and remembered lines: in every interleaving of its threads there is one *)
(* open client, it is the current one, some thread listens to it, it is    *)
(* given up only for a reason of its own, and what a caller takes for an   *)
(* answer was not there before it asked.                                   *)
(***************************************************************************)
EXTENDS ProjectTCPServer, SequenceTheorems, TLAPS

\* The threads and the sockets they work on.
ThreadsOK ==
  /\ client \in Conns \cup {None}
  /\ sock \in [Conns -> {"new", "queued", "open", "closed"}]
  /\ peer \in [Conns -> BOOLEAN]
  /\ recv \in [Conns -> {"off", "top", "read", "handle", "clear", "gone"}]
  /\ hold \in [Conns -> Conns \cup {None}]
  /\ acc = "install" => accConn \in Conns /\ sock[accConn] = "queued"
  /\ acc \in {"clear", "spawn"} => accConn \in Conns
  /\ caller = "stop" => ~running

\* A receive thread reads a socket that was a client's; it means to clear one that is
\* closed or whose board has left, and neither is ever undone.
ReadersOK ==
  \A r \in Conns :
    /\ recv[r] \in {"read", "clear"} =>
         hold[r] \in Conns /\ sock[hold[r]] \in {"open", "closed"}
    /\ recv[r] = "clear" => sock[hold[r]] = "closed" \/ ~peer[hold[r]]

IInv == ThreadsOK /\ OneOpenClient /\ ReadersOK /\ Served

LEMMA NoneIsNoConn == None \notin Conns
  BY DEF None, Conns

LEMMA InitIInv == Init => IInv
<1> SUFFICES ASSUME Init PROVE IInv
  OBVIOUS
<1>1. ThreadsOK
  BY DEF Init, ThreadsOK
<1>2. OneOpenClient
  BY NoneIsNoConn DEF Init, OneOpenClient
<1>3. ReadersOK /\ Served
  BY DEF Init, ReadersOK, Served
<1> QED BY <1>1, <1>2, <1>3 DEF IInv

LEMMA AcceptIInv == ASSUME IInv, AcceptThread PROVE IInv'
<1> USE NoneIsNoConn DEF IInv, ThreadsOK, ReadersOK, server, board, accept, recvs, filed, calls
<1>1. CASE AcceptClient
  <2>1. ThreadsOK' BY <1>1 DEF AcceptClient
  <2>2. OneOpenClient' BY <1>1 DEF AcceptClient, OneOpenClient
  <2>3. ReadersOK' BY <1>1 DEF AcceptClient
  <2>4. Served' BY <1>1 DEF AcceptClient, Served
  <2> QED BY <2>1, <2>2, <2>3, <2>4
<1>2. CASE AcceptEnds
  BY <1>2 DEF AcceptEnds, OneOpenClient, Served
<1>3. CASE InstallClient
  <2>1. /\ accConn \in Conns /\ sock[accConn] = "queued" /\ client' = accConn
        /\ sock' = [c \in Conns |-> IF c = accConn THEN "open"
                                    ELSE IF c = client THEN "closed" ELSE sock[c]]
        /\ acc' = "clear"
        /\ UNCHANGED <<running, peer, accConn, recv, hold, caller>>
    BY <1>3 DEF InstallClient
  <2>2. ThreadsOK' BY <2>1
  <2>3. OneOpenClient' BY <2>1 DEF OneOpenClient
  <2>4. \A c \in Conns : /\ sock[c] = "closed" => sock'[c] = "closed"
                         /\ sock[c] \in {"open", "closed"} => sock'[c] \in {"open", "closed"}
    BY <2>1 DEF OneOpenClient
  <2>5. ReadersOK' BY <2>1, <2>4
  <2>6. Served' BY <2>1 DEF Served
  <2> QED BY <2>2, <2>3, <2>5, <2>6
<1>4. CASE ForgetOldClient
  BY <1>4 DEF ForgetOldClient, OneOpenClient, Served
<1>5. CASE SpawnReceiver
  <2>1. ThreadsOK' BY <1>5 DEF SpawnReceiver
  <2>2. OneOpenClient' BY <1>5 DEF SpawnReceiver, OneOpenClient
  <2>3. ReadersOK' BY <1>5 DEF SpawnReceiver
  <2>4. accConn \in Conns /\ recv'[accConn] = "top" BY <1>5 DEF SpawnReceiver
  <2>5. Served' BY <2>4 DEF Served
  <2> QED BY <2>1, <2>2, <2>3, <2>5
<1> QED BY <1>1, <1>2, <1>3, <1>4, <1>5 DEF AcceptThread

LEMMA ReceiverIInv == ASSUME IInv, NEW r \in Conns, Receiver(r) PROVE IInv'
<1> USE NoneIsNoConn DEF IInv, ThreadsOK, server, board, accept, recvs, filed, calls
<1>1. CASE ReceiverGoes(r)
  BY <1>1 DEF ReceiverGoes, OneOpenClient, ReadersOK, Served
<1>2. CASE ReceiverLooksUp(r)
  <2>1. ThreadsOK' /\ OneOpenClient' BY <1>2 DEF ReceiverLooksUp, OneOpenClient
  <2>2. ReadersOK' BY <1>2 DEF ReceiverLooksUp, OneOpenClient, ReadersOK
  <2>3. recv'[r] = "read" /\ hold'[r] = client' BY <1>2 DEF ReceiverLooksUp
  <2>4. Served' BY <2>3 DEF Served
  <2> QED BY <2>1, <2>2, <2>4
<1>3. CASE ReceiveData(r) \/ ReceiveTimeout(r) \/ NoMoreLines(r)
  <2>1. /\ recv' \in {[recv EXCEPT ![r] = "handle"], [recv EXCEPT ![r] = "top"]}
        /\ UNCHANGED <<server, peer, accept, hold, caller>>
    BY <1>3 DEF ReceiveData, ReceiveTimeout, NoMoreLines
  <2>2. ThreadsOK' /\ OneOpenClient' BY <2>1 DEF OneOpenClient
  <2>3. ReadersOK' BY <2>1 DEF ReadersOK
  <2>4. recv'[r] \in {"top", "handle"} BY <2>1
  <2>5. Served' BY <2>4 DEF Served
  <2> QED BY <2>2, <2>3, <2>5
<1>4. CASE ReceiveFails(r)
  <2>1. ThreadsOK' /\ OneOpenClient' BY <1>4 DEF ReceiveFails, OneOpenClient
  <2>2. ReadersOK' BY <1>4 DEF ReceiveFails, ReadersOK
  <2>3. Served' BY <1>4 DEF ReceiveFails, Served
  <2> QED BY <2>1, <2>2, <2>3
<1>5. CASE ClearClient(r)
  <2>1. /\ recv[r] = "clear" /\ recv' = [recv EXCEPT ![r] = "gone"] /\ hold[r] \in Conns
        /\ UNCHANGED <<running, peer, accept, hold, caller>>
    BY <1>5 DEF ClearClient, ReadersOK
  <2>2. CASE client = hold[r] /\ client' = None /\ sock' = [sock EXCEPT ![client] = "closed"]
    <3>1. ThreadsOK' BY <2>1, <2>2 DEF OneOpenClient
    <3>2. OneOpenClient' BY <2>1, <2>2 DEF OneOpenClient
    <3>3. ReadersOK' BY <2>1, <2>2 DEF ReadersOK
    <3>4. Served' BY <2>2 DEF Served
    <3> QED BY <3>1, <3>2, <3>3, <3>4
  <2>3. CASE client # hold[r] /\ UNCHANGED <<client, sock>>
    <3>1. ThreadsOK' /\ OneOpenClient' BY <2>1, <2>3 DEF OneOpenClient
    <3>2. ReadersOK' BY <2>1, <2>3 DEF ReadersOK
    <3>3. Served' BY <2>1, <2>3 DEF Served
    <3> QED BY <3>1, <3>2, <3>3
  <2> QED BY <1>5, <2>2, <2>3 DEF ClearClient
<1>6. CASE HandleLine(r)
  <2>1. UNCHANGED <<server, board, accept, recv, hold, calls>>
    BY <1>6 DEF HandleLine
  <2> QED BY <2>1 DEF OneOpenClient, ReadersOK, Served
<1> QED BY <1>1, <1>2, <1>3, <1>4, <1>5, <1>6 DEF Receiver

\* The client is given up by closing its socket.
LEMMA ClosedIInv ==
  ASSUME IInv, client' = None, 
         client \in Conns \cup {None},
         \A c \in Conns : sock'[c] = IF c = client THEN "closed" ELSE sock[c],
         sock' \in [Conns -> {"new", "queued", "open", "closed"}],
         UNCHANGED <<running, peer, accept, recv, hold>>,
         caller' = "stop" => ~running
  PROVE  IInv'
<1> USE NoneIsNoConn DEF IInv, ThreadsOK, accept
<1>1. ThreadsOK' BY DEF OneOpenClient
<1>2. OneOpenClient' BY DEF OneOpenClient
<1>3. ReadersOK' BY DEF ReadersOK
<1>4. Served' BY DEF Served
<1> QED BY <1>1, <1>2, <1>3, <1>4

LEMMA CallerIInv == ASSUME IInv, Caller PROVE IInv'
<1> USE NoneIsNoConn DEF server, board, accept, recvs, filed, calls
<1>1. CASE BeginCommand \/ Answered \/ AckTimeout \/ BeginWait \/ WaitMatches \/ WaitTimeout
  <2>1. UNCHANGED <<server, peer, accept, recv, hold>> /\ caller' # "stop"
    BY <1>1 DEF BeginCommand, Answered, AckTimeout, BeginWait, WaitMatches, WaitTimeout
  <2> QED BY <2>1 DEF IInv, ThreadsOK, OneOpenClient, ReadersOK, Served
<1>2. CASE SendJson \/ SendCommand
  <2>1. /\ SendText /\ caller' # "stop"
        /\ UNCHANGED <<running, peer, accept, recv, hold>>
    BY <1>2 DEF SendJson, SendCommand
  <2>2. CASE UNCHANGED <<client, sock>>
    BY <2>1, <2>2 DEF IInv, ThreadsOK, OneOpenClient, ReadersOK, Served
  <2>3. CASE client # None /\ client' = None /\ sock' = [sock EXCEPT ![client] = "closed"]
    <3>1. client \in Conns /\ sock \in [Conns -> {"new", "queued", "open", "closed"}]
      BY <2>3 DEF IInv, ThreadsOK
    <3>2. /\ \A c \in Conns : sock'[c] = IF c = client THEN "closed" ELSE sock[c]
          /\ sock' \in [Conns -> {"new", "queued", "open", "closed"}]
      BY <2>3, <3>1
    <3> QED BY <2>1, <2>3, <3>1, <3>2, ClosedIInv
  <2> QED BY <2>1, <2>2, <2>3 DEF SendText
<1>3. CASE Stop
  BY <1>3 DEF Stop, IInv, ThreadsOK, OneOpenClient, ReadersOK, Served
<1>4. CASE StopCloses
  <2>1. /\ client' = None /\ caller' # "stop"
        /\ sock' = [c \in Conns |-> IF c = client THEN "closed" ELSE sock[c]]
        /\ UNCHANGED <<running, peer, accept, recv, hold>>
    BY <1>4 DEF StopCloses
  <2>2. /\ client \in Conns \cup {None}
        /\ sock \in [Conns -> {"new", "queued", "open", "closed"}]
    BY DEF IInv, ThreadsOK
  <2>3. /\ \A c \in Conns : sock'[c] = IF c = client THEN "closed" ELSE sock[c]
        /\ sock' \in [Conns -> {"new", "queued", "open", "closed"}]
    BY <2>1, <2>2
  <2> QED BY <2>1, <2>2, <2>3, ClosedIInv
<1> QED BY <1>1, <1>2, <1>3, <1>4 DEF Caller

LEMMA BoardsIInv == ASSUME IInv, BoardsNext PROVE IInv'
<1> USE NoneIsNoConn DEF IInv, ThreadsOK, server, accept, recvs, filed, calls
<1> SUFFICES ASSUME NEW c \in Conns, Connect(c) \/ Reply(c) \/ Leave(c) PROVE IInv'
  BY DEF BoardsNext
<1>1. CASE Connect(c)
  <2>1. ThreadsOK' BY <1>1 DEF Connect
  <2>2. OneOpenClient' BY <1>1 DEF Connect, OneOpenClient
  <2>3. ReadersOK' BY <1>1 DEF Connect, ReadersOK
  <2>4. Served' BY <1>1 DEF Connect, Served
  <2> QED BY <2>1, <2>2, <2>3, <2>4
<1>2. CASE Reply(c)
  BY <1>2 DEF Reply, OneOpenClient, ReadersOK, Served
<1>3. CASE Leave(c)
  BY <1>3 DEF Leave, OneOpenClient, ReadersOK, Served
<1> QED BY <1>1, <1>2, <1>3

LEMMA NextIInv == IInv /\ [Next]_vars => IInv'
<1> SUFFICES ASSUME IInv, [Next]_vars PROVE IInv'
  OBVIOUS
<1>1. CASE UNCHANGED vars
  BY <1>1 DEF vars, server, board, accept, recvs, calls, IInv, ThreadsOK, OneOpenClient,
              ReadersOK, Served
<1> QED BY <1>1, AcceptIInv, ReceiverIInv, CallerIInv, BoardsIInv DEF Next

LEMMA Invariance == Spec => []IInv
<1> QED BY InitIInv, NextIInv, PTL DEF Spec

\* At most one accepted connection is open, and it is the client, in every
\* interleaving.
THEOREM OneOpenClientHolds == Spec => []OneOpenClient
<1>1. IInv => OneOpenClient BY DEF IInv
<1> QED BY <1>1, Invariance, PTL

\* A connected board is always listened to.
THEOREM ServedHolds == Spec => []Served
<1>1. IInv => Served BY DEF IInv
<1> QED BY <1>1, Invariance, PTL

\* A step gives the client up only for a broken connection, a successor, stop() or a
\* command that could not be sent.
LEMMA KeptStep ==
  ASSUME IInv, Next, NEW c \in Conns, client = c, client' # c
  PROVE  \/ ~peer[c] \/ client' # None \/ ~running
         \/ recv' = recv /\ outcome' = "error"
<1> USE NoneIsNoConn DEF server, board, accept, recvs, filed, calls
<1>1. CASE AcceptThread
  <2>1. CASE InstallClient
    BY <2>1 DEF InstallClient, IInv, ThreadsOK
  <2> QED BY <1>1, <2>1 DEF AcceptThread, AcceptClient, AcceptEnds, ForgetOldClient, SpawnReceiver
<1>2. ASSUME NEW r \in Conns, Receiver(r) PROVE ~peer[c] \/ client' # None \/ ~running
  <2>1. CASE ClearClient(r)
    <3>1. recv[r] = "clear" /\ client = hold[r]
      BY <2>1 DEF ClearClient
    <3>2. sock[hold[r]] = "closed" \/ ~peer[hold[r]]
      BY <3>1 DEF IInv, ReadersOK
    <3>3. sock[c] = "open"
      BY DEF IInv, OneOpenClient
    <3> QED BY <3>1, <3>2, <3>3
  <2>2. ~ClearClient(r) => client' = client
    BY <1>2 DEF Receiver, ReceiverGoes, ReceiverLooksUp, ReceiveData, ReceiveTimeout,
                ReceiveFails, HandleLine, NoMoreLines
  <2> QED BY <2>1, <2>2
<1>3. CASE Caller
  <2>1. CASE SendJson \/ SendCommand
    BY <2>1 DEF SendJson, SendCommand, SendText
  <2>2. CASE StopCloses
    BY <2>2 DEF StopCloses, IInv, ThreadsOK
  <2>3. CASE BeginCommand \/ Answered \/ AckTimeout \/ BeginWait \/ WaitMatches \/ WaitTimeout \/ Stop
    BY <2>3 DEF BeginCommand, Answered, AckTimeout, BeginWait, WaitMatches, WaitTimeout, Stop
  <2> QED BY <1>3, <2>1, <2>2, <2>3 DEF Caller
<1>4. CASE BoardsNext
  BY <1>4 DEF BoardsNext, Connect, Reply, Leave
<1> QED BY <1>1, <1>2, <1>3, <1>4 DEF Next

\* No thread that fails late takes a new client down.
THEOREM ClientKeptHolds == Spec => ClientKept
<1>1. IInv /\ [Next]_vars =>
        [\A c \in Conns : client = c /\ client' # c =>
           \/ ~peer[c] \/ client' # None \/ ~running
           \/ recv' = recv /\ outcome' = "error"]_vars
  BY KeptStep DEF vars
<1> QED BY <1>1, Invariance, PTL DEF Spec, ClientKept

-----------------------------------------------------------------------------
(* Types.                                                                  *)

LEMMA WrittenType == ASSUME NEW l \in Lines PROVE Written(l) \in Seq(Chunks)
<1>1. <<l, 1>> \in Chunks /\ <<l, 2>> \in Chunks
  BY DEF Chunks
<1> QED BY <1>1 DEF Written

LEMMA PushedType ==
  ASSUME NEW h \in Seq(Lines), Len(h) <= HistorySize, NEW l \in Lines
  PROVE  Pushed(h, l) \in Seq(Lines) /\ Len(Pushed(h, l)) <= HistorySize
<1>0. HistorySize \in Nat \ {0} /\ Len(h) \in Nat
  BY ServerAssumption, LenProperties DEF ServerAssumption
<1>1. CASE Len(h) < HistorySize
  BY <1>0, <1>1, AppendProperties DEF Pushed
<1>2. CASE ~(Len(h) < HistorySize)
  <2>1. h # <<>>
    BY <1>0, <1>2
  <2>2. Tail(h) \in Seq(Lines) /\ Len(Tail(h)) = Len(h) - 1
    BY <2>1, HeadTailProperties
  <2>3. /\ Append(Tail(h), l) \in Seq(Lines)
        /\ Len(Append(Tail(h), l)) = Len(Tail(h)) + 1
    BY <2>2, AppendProperties
  <2>4. Pushed(h, l) = Append(Tail(h), l)
    BY <1>2 DEF Pushed
  <2> QED BY <1>0, <2>2, <2>3, <2>4
<1> QED BY <1>1, <1>2

\* A part of a sequence that stays inside it.
LEMMA PartType ==
  ASSUME NEW S, NEW s \in Seq(S), NEW i \in Int, NEW n \in Int, 1 <= i, n <= Len(s)
  PROVE  SubSeq(s, i, n) \in Seq(S)
<1>1. Len(s) \in Nat /\ s \in [1..Len(s) -> S]
  BY LenProperties
<1>2. \A k \in i..n : s[k] \in S
  BY <1>1
<1> QED BY <1>2, SubSeqProperties

LEMMA InitType == Init => TypeOK
<1> SUFFICES ASSUME Init PROVE TypeOK
  OBVIOUS
<1>1. MaxCmds \in Nat /\ HistorySize \in Nat
  BY ServerAssumption DEF ServerAssumption
<1>2. /\ history \in Seq(Lines) /\ Len(history) = 0
      /\ stream \in [Conns -> Seq(Chunks)] /\ buffer \in [Conns -> Seq(Chunks)]
  BY DEF Init
<1> QED BY <1>1, <1>2 DEF Init, TypeOK

LEMMA AcceptType == ASSUME TypeOK, IInv, AcceptThread PROVE TypeOK'
<1> USE DEF TypeOK, server, board, accept, recvs, filed, calls
<1>1. CASE AcceptClient
  BY <1>1 DEF AcceptClient
<1>2. CASE AcceptEnds
  BY <1>2 DEF AcceptEnds
<1>3. CASE InstallClient
  <2>1. accConn \in Conns
    BY <1>3 DEF InstallClient, IInv, ThreadsOK
  <2> QED BY <1>3, <2>1 DEF InstallClient
<1>4. CASE ForgetOldClient
  <2>1. history' \in Seq(Lines) /\ Len(history') = 0 /\ last' = NoLine
    BY <1>4 DEF ForgetOldClient
  <2>2. HistorySize \in Nat
    BY ServerAssumption DEF ServerAssumption
  <2> QED BY <1>4, <2>1, <2>2 DEF ForgetOldClient
<1>5. CASE SpawnReceiver
  <2>1. recv' \in [Conns -> {"off", "top", "read", "handle", "clear", "gone"}]
    BY <1>5 DEF SpawnReceiver
  <2>2. acc' = "accept" /\ UNCHANGED <<server, board, accConn, hold, buffer, filed, calls, handled>>
    BY <1>5 DEF SpawnReceiver
  <2> HIDE DEF IInv
  <2> QED BY <2>1, <2>2
<1> QED BY <1>1, <1>2, <1>3, <1>4, <1>5 DEF AcceptThread

LEMMA ReceiverType == ASSUME TypeOK, IInv, NEW r \in Conns, Receiver(r) PROVE TypeOK'
<1> USE DEF TypeOK, server, board, accept, recvs, filed, calls
<1>1. CASE ReceiverGoes(r)
  BY <1>1 DEF ReceiverGoes
<1>2. CASE ReceiverLooksUp(r)
  BY <1>2 DEF ReceiverLooksUp
<1>3. CASE ReceiveData(r)
  <2>1. buffer' \in [Conns -> Seq(Chunks)] /\ stream' \in [Conns -> Seq(Chunks)]
    <3> DEFINE st == stream[hold[r]]
    <3>1. hold[r] \in Conns
      BY <1>3 DEF ReceiveData, IInv, ReadersOK
    <3>2. PICK n \in 1..Len(st) : /\ buffer' = [buffer EXCEPT ![r] = @ \o SubSeq(st, 1, n)]
                                  /\ stream' = [stream EXCEPT ![hold[r]] = SubSeq(@, n + 1, Len(@))]
      BY <1>3 DEF ReceiveData
    <3>3. buffer \in [Conns -> Seq(Chunks)] /\ stream \in [Conns -> Seq(Chunks)]
      OBVIOUS
    <3>4. stream' = [stream EXCEPT ![hold[r]] = SubSeq(st, n + 1, Len(st))]
      BY <3>2
    <3>5. st \in Seq(Chunks) /\ buffer[r] \in Seq(Chunks)
      BY <3>1, <3>3
    <3> HIDE DEF st, TypeOK, server, board, accept, recvs, filed, calls
    <3>6. Len(st) \in Nat
      BY <3>5, LenProperties
    <3>7. SubSeq(st, 1, n) \in Seq(Chunks) /\ SubSeq(st, n + 1, Len(st)) \in Seq(Chunks)
      BY <3>5, <3>6, PartType
    <3>8. buffer[r] \o SubSeq(st, 1, n) \in Seq(Chunks)
      BY <3>5, <3>7, ConcatProperties
    <3> QED BY <3>2, <3>3, <3>4, <3>7, <3>8
  <2>2. recv' \in [Conns -> {"off", "top", "read", "handle", "clear", "gone"}]
    BY <1>3 DEF ReceiveData
  <2>3. UNCHANGED <<server, peer, todo, accept, hold, filed, calls, handled>>
    BY <1>3 DEF ReceiveData
  <2>4. UNCHANGED <<running, client, sock, peer, todo, acc, accConn, hold, last, history,
                    caller, outcome, cmd, before, handled>>
    BY <2>3
  <2>5. /\ last' \in Lines \cup {NoLine} /\ history' \in Seq(Lines) /\ Len(history') <= HistorySize
        /\ handled' \subseteq Lines /\ before' \subseteq Lines
    BY <2>4
  <2>6. /\ running' \in BOOLEAN /\ client' \in Conns \cup {None} /\ accConn' \in Conns \cup {None}
        /\ sock' \in [Conns -> {"new", "queued", "open", "closed"}] /\ peer' \in [Conns -> BOOLEAN]
        /\ todo' \in [Conns -> SUBSET Cmds] /\ hold' \in [Conns -> Conns \cup {None}]
    BY <2>4
  <2>7. /\ acc' \in {"off", "accept", "install", "clear", "spawn"}
        /\ caller' \in {"idle", "send", "ack", "payload", "stop", "stopped"}
        /\ outcome' \in {"none", "sent", "error", "ok", "timeout", "ready", "missed"}
        /\ cmd' \in 0..MaxCmds
    BY <2>4
  <2> QED BY <2>1, <2>2, <2>5, <2>6, <2>7
<1>4. CASE ReceiveTimeout(r) \/ NoMoreLines(r) \/ ReceiveFails(r)
  <2>1. /\ recv' \in {[recv EXCEPT ![r] = "top"], [recv EXCEPT ![r] = "clear"]}
        /\ UNCHANGED <<server, board, accept, hold, buffer, filed, calls, handled>>
    BY <1>4 DEF ReceiveTimeout, NoMoreLines, ReceiveFails
  <2>2. recv' \in [Conns -> {"off", "top", "read", "handle", "clear", "gone"}]
    BY <2>1
  <2>3. UNCHANGED <<server, board, accept, hold, buffer, filed, calls, handled>>
    BY <2>1
  <2> QED BY <2>2, <2>3, SMTT(20)
<1>5. CASE ClearClient(r)
  BY <1>5 DEF ClearClient
<1>6. CASE HandleLine(r)
  <2> DEFINE b == buffer[r]
  <2>1. PICK n \in EndsLine(b) :
          /\ buffer' = [buffer EXCEPT ![r] = SubSeq(b, n + 1, Len(b))]
          /\ \/ /\ last' = b[n][1] /\ history' = Pushed(history, b[n][1])
                /\ handled' = handled \cup {b[n][1]}
             \/ UNCHANGED <<filed, handled>>
    BY <1>6 DEF HandleLine
  <2>2. b \in Seq(Chunks)
    OBVIOUS
  <2> HIDE DEF b
  <2>3. Len(b) \in Nat /\ n \in 1..Len(b) /\ b[n] \in Chunks
    BY <2>2, LenProperties DEF EndsLine
  <2>4. b[n][1] \in Lines
    BY <2>3 DEF Chunks
  <2>5. SubSeq(b, n + 1, Len(b)) \in Seq(Chunks)
    BY <2>2, <2>3, PartType
  <2>6. buffer' \in [Conns -> Seq(Chunks)]
    BY <2>1, <2>5
  <2>7. Pushed(history, b[n][1]) \in Seq(Lines) /\ Len(Pushed(history, b[n][1])) <= HistorySize
    BY <2>4, PushedType
  <2>8. UNCHANGED <<server, board, accept, recv, hold, calls>>
    BY <1>6 DEF HandleLine
  <2>9. CASE UNCHANGED <<filed, handled>>
    BY <2>6, <2>8, <2>9
  <2>10. CASE /\ last' = b[n][1] /\ history' = Pushed(history, b[n][1])
              /\ handled' = handled \cup {b[n][1]}
    <3>1. handled' \subseteq Lines /\ last' \in Lines
      BY <2>4, <2>10
    <3> QED BY <2>6, <2>7, <2>8, <2>10, <3>1, SMTT(20)
  <2> QED BY <2>1, <2>9, <2>10
<1> QED BY <1>1, <1>2, <1>3, <1>4, <1>5, <1>6 DEF Receiver

\* A command that is being sent has its number.
Begun == caller = "send" => cmd # 0

LEMMA NextBegun == TypeOK /\ Begun /\ [Next]_vars => Begun'
<1> SUFFICES ASSUME TypeOK, Begun, [Next]_vars PROVE Begun'
  OBVIOUS
<1> USE DEF Begun, server, board, accept, recvs, filed, calls
<1>1. CASE UNCHANGED vars
  BY <1>1 DEF vars
<1>2. CASE AcceptThread
  BY <1>2 DEF AcceptThread, AcceptClient, AcceptEnds, InstallClient, ForgetOldClient, SpawnReceiver
<1>3. ASSUME NEW r \in Conns, Receiver(r) PROVE Begun'
  BY <1>3 DEF Receiver, ReceiverGoes, ReceiverLooksUp, ReceiveData, ReceiveTimeout,
              ReceiveFails, ClearClient, HandleLine, NoMoreLines
<1>4. CASE Caller
  <2>1. CASE SendJson
    BY <2>1 DEF SendJson
  <2>2. CASE BeginCommand
    <3>1. cmd \in Nat
      BY DEF TypeOK
    <3> QED BY <2>2, <3>1 DEF BeginCommand
  <2>3. CASE SendCommand \/ Answered \/ AckTimeout \/ BeginWait \/ WaitMatches \/ WaitTimeout
             \/ Stop \/ StopCloses
    BY <2>3 DEF SendCommand, Answered, AckTimeout, BeginWait, WaitMatches, WaitTimeout, Stop, StopCloses
  <2> QED BY <1>4, <2>1, <2>2, <2>3 DEF Caller
<1>5. CASE BoardsNext
  BY <1>5 DEF BoardsNext, Connect, Reply, Leave
<1> QED BY <1>1, <1>2, <1>3, <1>4, <1>5 DEF Next

LEMMA CallerType == ASSUME TypeOK, Begun, Caller PROVE TypeOK'
<1> USE DEF TypeOK, server, board, accept, recvs, filed, calls
<1>0. MaxCmds \in Nat /\ HistorySize \in Nat
  BY ServerAssumption DEF ServerAssumption
<1>1. CASE SendJson \/ SendCommand
  <2>1. /\ SendText /\ cmd' \in 0..MaxCmds
        /\ caller' \in {"idle", "ack"}
        /\ UNCHANGED <<running, peer, stream, accept, recvs, filed, before, handled>>
    BY <1>0, <1>1 DEF SendJson, SendCommand
  <2>2. cmd' \in Cmds
    BY <1>0, <1>1 DEF Begun, Cmds, SendJson, SendCommand
  <2>3. todo' \in [Conns -> SUBSET Cmds]
    <3>1. \/ UNCHANGED todo
          \/ todo' = [c \in Conns |-> IF c = client /\ peer[c] THEN todo[c] \cup {cmd'} ELSE todo[c]]
      BY <2>1 DEF SendText, Deliver
    <3>2. todo \in [Conns -> SUBSET Cmds]
      OBVIOUS
    <3>3. \A c \in Conns : todo[c] \cup {cmd'} \in SUBSET Cmds
      BY <2>2, <3>2
    <3> QED BY <3>1, <3>2, <3>3
  <2>4. /\ client' \in Conns \cup {None} /\ outcome' \in {"sent", "error"}
        /\ sock' \in [Conns -> {"new", "queued", "open", "closed"}]
    BY <2>1 DEF SendText
  <2> QED BY <2>1, <2>3, <2>4
<1>2. CASE BeginCommand
  <2>1. history' \in Seq(Lines) /\ Len(history') = 0 /\ last' = NoLine /\ cmd' \in 0..MaxCmds
    BY <1>0, <1>2 DEF BeginCommand
  <2> QED BY <1>0, <1>2, <2>1 DEF BeginCommand
<1>3. CASE Answered \/ AckTimeout \/ BeginWait \/ WaitMatches \/ WaitTimeout
  BY <1>3 DEF Answered, AckTimeout, BeginWait, WaitMatches, WaitTimeout
<1>4. CASE Stop \/ StopCloses
  BY <1>4 DEF Stop, StopCloses
<1> QED BY <1>1, <1>2, <1>3, <1>4 DEF Caller

LEMMA BoardsType == ASSUME TypeOK, BoardsNext PROVE TypeOK'
<1> USE DEF TypeOK, server, board, accept, recvs, filed, calls
<1> SUFFICES ASSUME NEW c \in Conns, Connect(c) \/ Reply(c) \/ Leave(c) PROVE TypeOK'
  BY DEF BoardsNext
<1>1. CASE Connect(c)
  <2>1. Written([from |-> c, kind |-> "ready", cmd |-> 0]) \in Seq(Chunks)
    BY WrittenType DEF Lines
  <2> QED BY <1>1, <2>1 DEF Connect
<1>2. CASE Reply(c)
  <2>1. PICK n \in todo[c], k \in {"ok", "refused"} :
          /\ todo' = [todo EXCEPT ![c] = @ \ {n}]
          /\ stream' = [stream EXCEPT ![c] = @ \o Written([from |-> c, kind |-> k, cmd |-> n])]
    BY <1>2 DEF Reply
  <2>2. [from |-> c, kind |-> k, cmd |-> n] \in Lines
    BY DEF Lines
  <2>3. Written([from |-> c, kind |-> k, cmd |-> n]) \in Seq(Chunks)
    BY <2>2, WrittenType
  <2>4. stream[c] \o Written([from |-> c, kind |-> k, cmd |-> n]) \in Seq(Chunks)
    BY <2>3, ConcatProperties
  <2>5. stream' \in [Conns -> Seq(Chunks)] /\ todo' \in [Conns -> SUBSET Cmds]
    BY <2>1, <2>4
  <2> QED BY <1>2, <2>5 DEF Reply
<1>3. CASE Leave(c)
  BY <1>3 DEF Leave
<1> QED BY <1>1, <1>2, <1>3

TInv == TypeOK /\ Begun /\ IInv

LEMMA NextTInv == TInv /\ [Next]_vars => TInv'
<1> SUFFICES ASSUME TInv, [Next]_vars PROVE TInv'
  OBVIOUS
<1>1. IInv' /\ Begun'
  BY NextIInv, NextBegun DEF TInv
<1>2. TypeOK'
  <2>1. CASE UNCHANGED vars
    BY <2>1 DEF vars, server, board, accept, recvs, filed, calls, TInv, TypeOK
  <2> QED BY <2>1, AcceptType, ReceiverType, CallerType, BoardsType DEF Next, TInv
<1> QED BY <1>1, <1>2 DEF TInv

\* Type correctness: in particular the history stays within its limit, and what is
\* left of a stream or a buffer is always a part of what the boards wrote.
THEOREM ServerTypeCorrect == Spec => []TypeOK
<1>1. Init => TInv
  <2>1. Init => Begun
    BY DEF Init, Begun
  <2> QED BY <2>1, InitType, InitIInv DEF TInv
<1>2. TInv => TypeOK BY DEF TInv
<1> QED BY <1>1, <1>2, NextTInv, PTL DEF Spec

-----------------------------------------------------------------------------
(* A line is filed once: where its last chunk can be.                      *)

\* The lines whose last chunk is in s; each is there once.
Ends(s) == {s[k][1] : k \in EndsLine(s)}
Once(s) == \A j, k \in EndsLine(s) : s[j][1] = s[k][1] => j = k

Ready(c)       == [from |-> c, kind |-> "ready", cmd |-> 0]
Answer(c, k, n) == [from |-> c, kind |-> k, cmd |-> n]

\* A line of which the end is nowhere.
Unheard(l) ==
  l \notin handled /\ \A c \in Conns : l \notin Ends(stream[c]) /\ l \notin Ends(buffer[c])

\* The end of a line is in one place only.
Single ==
  /\ \A c \in Conns : Once(stream[c]) /\ Once(buffer[c])
  /\ \A c \in Conns : \A l \in Ends(stream[c]) : l.from = c
  /\ \A r, c \in Conns : r # c => Ends(buffer[r]) \cap Ends(buffer[c]) = {}
  /\ \A r, c \in Conns : Ends(buffer[r]) \cap Ends(stream[c]) = {}
  /\ \A c \in Conns : handled \cap Ends(stream[c]) = {} /\ handled \cap Ends(buffer[c]) = {}

\* A command that may still reach a board, and what has not been said yet.
Unsent(n) == n > cmd \/ (n = cmd /\ caller = "send")

ToCome ==
  /\ \A c \in Conns : sock[c] = "new" => Unheard(Ready(c))
  /\ \A c \in Conns, n \in Cmds : n \in todo[c] => ~Unsent(n)
  /\ \A c \in Conns, n \in Cmds, k \in {"ok", "refused"} :
       n \in todo[c] \/ Unsent(n) => Unheard(Answer(c, k, n))

\* What is remembered was filed, and a caller has nothing that it did not wait for.
Filed ==
  /\ last \in handled \cup {NoLine}
  /\ before \subseteq handled
  /\ caller \in {"send", "ack"} => last \notin before

FInv == Single /\ ToCome /\ Filed

LEMMA InEnds ==
  ASSUME NEW s \in Seq(Chunks)
  PROVE  /\ EndsLine(s) = {k \in 1..Len(s) : s[k][2] = 2}
         /\ \A l : l \in Ends(s) <=> \E k \in 1..Len(s) : s[k][2] = 2 /\ s[k][1] = l
<1>1. DOMAIN s = 1..Len(s)
  BY LenProperties
<1>2. EndsLine(s) = {k \in 1..Len(s) : s[k][2] = 2}
  BY <1>1 DEF EndsLine
<1> QED BY <1>2 DEF Ends

\* What a sequence of chunks holds when it is put together from two.
LEMMA ConcatEnds ==
  ASSUME NEW s \in Seq(Chunks), NEW t \in Seq(Chunks)
  PROVE  /\ s \o t \in Seq(Chunks)
         /\ Ends(s \o t) = Ends(s) \cup Ends(t)
         /\ Once(s) /\ Once(t) /\ Ends(s) \cap Ends(t) = {} => Once(s \o t)
         /\ Once(s \o t) => Once(s) /\ Once(t) /\ Ends(s) \cap Ends(t) = {}
<1> DEFINE st == s \o t
           m == Len(s)
           n == Len(t)
<1>1. /\ st \in Seq(Chunks) /\ m \in Nat /\ n \in Nat /\ Len(st) = m + n
      /\ \A k \in 1..m : st[k] = s[k]
      /\ \A k \in (m + 1)..(m + n) : st[k] = t[k - m]
  BY ConcatProperties, LenProperties
<1>2. \A k \in 1..n : k + m \in (m + 1)..(m + n) /\ st[k + m] = t[k]
  BY <1>1
<1>3. \A k \in 1..(m + n) : k \in 1..m \/ (k \in (m + 1)..(m + n) /\ k - m \in 1..n)
  BY <1>1
<1>a. /\ EndsLine(s) = {k \in 1..m : s[k][2] = 2}
      /\ \A l : l \in Ends(s) <=> \E k \in 1..m : s[k][2] = 2 /\ s[k][1] = l
  BY InEnds
<1>b. /\ EndsLine(t) = {k \in 1..n : t[k][2] = 2}
      /\ \A l : l \in Ends(t) <=> \E k \in 1..n : t[k][2] = 2 /\ t[k][1] = l
  BY InEnds
<1>c. /\ EndsLine(st) = {k \in 1..(m + n) : st[k][2] = 2}
      /\ \A l : l \in Ends(st) <=> \E k \in 1..(m + n) : st[k][2] = 2 /\ st[k][1] = l
  <2> HIDE DEF st, m, n
  <2>1. Len(st) = m + n /\ st \in Seq(Chunks)
    BY <1>1
  <2> QED BY <2>1, InEnds
<1>w. /\ \A k \in 1..m : k \in 1..(m + n)
      /\ \A k \in 1..n : k + m \in 1..(m + n)
      /\ \A j \in 1..m, k \in 1..n : j # k + m
  BY <1>1
<1> HIDE DEF st, m, n
<1>4. Ends(st) \subseteq Ends(s) \cup Ends(t)
  <2> SUFFICES ASSUME NEW l \in Ends(st) PROVE l \in Ends(s) \cup Ends(t)
    OBVIOUS
  <2>1. PICK k \in 1..(m + n) : st[k][2] = 2 /\ st[k][1] = l
    BY <1>a, <1>b, <1>c
  <2>2. CASE k \in 1..m BY <2>1, <2>2, <1>1, <1>a, <1>b, <1>c
  <2>3. CASE k \in (m + 1)..(m + n) /\ k - m \in 1..n
    <3>1. t[k - m] = st[k]
      BY <2>3, <1>1
    <3>2. l \in Ends(t)
      BY <2>1, <2>3, <3>1, <1>b
    <3> QED BY <3>2
  <2> QED BY <2>2, <2>3, <1>3
<1>5. Ends(s) \subseteq Ends(st)
  <2> SUFFICES ASSUME NEW l \in Ends(s) PROVE l \in Ends(st)
    OBVIOUS
  <2>1. PICK k \in 1..m : s[k][2] = 2 /\ s[k][1] = l
    BY <1>a
  <2>2. k \in 1..(m + n) /\ st[k] = s[k]
    BY <1>1, <1>w
  <2> QED BY <2>1, <2>2, <1>c
<1>6. Ends(t) \subseteq Ends(st)
  <2> SUFFICES ASSUME NEW l \in Ends(t) PROVE l \in Ends(st)
    OBVIOUS
  <2>1. PICK k \in 1..n : t[k][2] = 2 /\ t[k][1] = l
    BY <1>b
  <2>2. k + m \in 1..(m + n) /\ st[k + m] = t[k]
    BY <1>2, <1>w
  <2> QED BY <2>1, <2>2, <1>c
<1>7. ASSUME Once(s), Once(t), Ends(s) \cap Ends(t) = {} PROVE Once(st)
  <2> SUFFICES ASSUME NEW j \in EndsLine(st), NEW k \in EndsLine(st), st[j][1] = st[k][1] PROVE j = k
    BY DEF Once
  <2>0. j \in 1..(m + n) /\ k \in 1..(m + n) /\ st[j][2] = 2 /\ st[k][2] = 2
    BY <1>a, <1>b, <1>c
  <2>1. CASE j \in 1..m /\ k \in 1..m
    <3>1. st[j] = s[j] /\ st[k] = s[k]
      BY <1>1, <2>1
    <3>2. j \in EndsLine(s) /\ k \in EndsLine(s) /\ s[j][1] = s[k][1]
      BY <1>a, <2>0, <2>1, <3>1
    <3> QED BY <3>2, <1>7 DEF Once
  <2>2. CASE j \in (m + 1)..(m + n) /\ j - m \in 1..n /\ k \in (m + 1)..(m + n) /\ k - m \in 1..n
    <3>1. j - m \in EndsLine(t) /\ k - m \in EndsLine(t) /\ t[j - m][1] = t[k - m][1]
      BY <1>1, <1>a, <1>b, <1>c, <2>0, <2>2
    <3>2. j - m = k - m
      BY <3>1, <1>7 DEF Once
    <3> QED BY <3>2, <2>0, <1>1
  <2>3. ASSUME NEW x \in 1..m, NEW y \in (m + 1)..(m + n), y - m \in 1..n,
               st[x][2] = 2, st[y][2] = 2, st[x][1] = st[y][1]
        PROVE FALSE
    <3>1. st[x][1] \in Ends(s) /\ st[y][1] \in Ends(t)
      BY <2>3, <1>1, <1>a, <1>b, <1>c
    <3> QED BY <3>1, <2>3, <1>7
  <2> QED BY <2>0, <2>1, <2>2, <2>3, <1>3
<1>8. ASSUME Once(st) PROVE Once(s) /\ Once(t) /\ Ends(s) \cap Ends(t) = {}
  <2>1. Once(s)
    <3> SUFFICES ASSUME NEW j \in EndsLine(s), NEW k \in EndsLine(s), s[j][1] = s[k][1] PROVE j = k
      BY DEF Once
    <3>1. j \in 1..m /\ k \in 1..m /\ s[j][2] = 2 /\ s[k][2] = 2
      BY <1>a
    <3>2. st[j] = s[j] /\ st[k] = s[k] /\ j \in 1..(m + n) /\ k \in 1..(m + n)
      BY <1>1, <1>w, <3>1
    <3>3. j \in EndsLine(st) /\ k \in EndsLine(st)
      BY <1>c, <3>1, <3>2
    <3> QED BY <3>2, <3>3, <1>8 DEF Once
  <2>2. Once(t)
    <3> SUFFICES ASSUME NEW j \in EndsLine(t), NEW k \in EndsLine(t), t[j][1] = t[k][1] PROVE j = k
      BY DEF Once
    <3>1. j \in 1..n /\ k \in 1..n /\ j + m \in EndsLine(st) /\ k + m \in EndsLine(st)
      BY <1>2, <1>w, <1>a, <1>b, <1>c
    <3>2. j + m = k + m
      BY <3>1, <1>2, <1>8 DEF Once
    <3> QED BY <3>1, <3>2, <1>1
  <2>3. ASSUME NEW l \in Ends(s) \cap Ends(t) PROVE FALSE
    <3>1. PICK j \in 1..m : s[j][2] = 2 /\ s[j][1] = l BY <1>a, <1>b, <1>c
    <3>2. PICK k \in 1..n : t[k][2] = 2 /\ t[k][1] = l BY <1>a, <1>b, <1>c
    <3>3. j \in EndsLine(st) /\ k + m \in EndsLine(st) /\ st[j][1] = st[k + m][1]
      BY <3>1, <3>2, <1>1, <1>2, <1>w, <1>a, <1>b, <1>c
    <3>4. j = k + m
      BY <3>3, <1>8 DEF Once
    <3> QED BY <3>4, <1>w
  <2> QED BY <2>1, <2>2, <2>3
<1> QED BY <1>1, <1>4, <1>5, <1>6, <1>7, <1>8 DEF st

\* What is left of it when it is cut in two.
LEMMA CutEnds ==
  ASSUME NEW s \in Seq(Chunks), NEW n \in 1..Len(s), Once(s)
  PROVE  LET p == SubSeq(s, 1, n)
             q == SubSeq(s, n + 1, Len(s))
         IN  /\ p \in Seq(Chunks) /\ q \in Seq(Chunks)
             /\ Once(p) /\ Once(q) /\ Ends(p) \cap Ends(q) = {} /\ Ends(s) = Ends(p) \cup Ends(q)
             /\ s[n][2] = 2 => s[n][1] \in Ends(p)
<1> DEFINE p == SubSeq(s, 1, n)
           q == SubSeq(s, n + 1, Len(s))
<1>0. Len(s) \in Nat /\ n \in Nat /\ n >= 1 /\ n <= Len(s) /\ s \in [1..Len(s) -> Chunks]
  BY LenProperties
<1>1. p \in Seq(Chunks) /\ q \in Seq(Chunks)
  BY <1>0, PartType
<1>2. \A k \in 1..n : s[k] \in Chunks
  BY <1>0
<1>3. Len(p) = n /\ p[n] = s[n]
  <2>1. Len(p) = n /\ \A k \in 1..n : p[k] = s[k]
    BY <1>0, <1>2, SubSeqProperties
  <2> QED BY <2>1, <1>0
<1>4. s = p \o q
  <2>1. 1 \in 1..(Len(s) + 1) /\ n \in (1 - 1)..Len(s) /\ Len(s) \in n..Len(s)
    BY <1>0
  <2>2. SubSeq(s, 1, n) \o SubSeq(s, n + 1, Len(s)) = SubSeq(s, 1, Len(s))
    BY <2>1, ConcatAdjacentSubSeq
  <2>3. SubSeq(s, 1, Len(s)) = s
    BY SubSeqFull
  <2> QED BY <2>2, <2>3
<1> HIDE DEF p, q
<1>5. s[n][2] = 2 => s[n][1] \in Ends(p)
  <2>1. \A l : l \in Ends(p) <=> \E k \in 1..n : p[k][2] = 2 /\ p[k][1] = l
    BY <1>1, <1>3, InEnds
  <2>2. n \in 1..n
    BY <1>0
  <2> QED BY <1>3, <2>1, <2>2
<1>6. Once(p \o q)
  BY <1>4
<1>7. /\ Once(p) /\ Once(q) /\ Ends(p) \cap Ends(q) = {}
      /\ Ends(s) = Ends(p) \cup Ends(q)
  BY <1>1, <1>4, <1>6, ConcatEnds
<1> QED BY <1>1, <1>5, <1>7 DEF p, q

LEMMA WrittenEnds ==
  ASSUME NEW l \in Lines
  PROVE  Written(l) \in Seq(Chunks) /\ Ends(Written(l)) = {l} /\ Once(Written(l))
<1>1. Written(l) \in Seq(Chunks)
  BY WrittenType
<1>2. /\ Len(Written(l)) = 2 /\ Written(l)[1] = <<l, 1>> /\ Written(l)[2] = <<l, 2>>
  BY DEF Written
<1>3. EndsLine(Written(l)) = {2}
  BY <1>1, <1>2, InEnds
<1> QED BY <1>1, <1>2, <1>3 DEF Ends, Once

-----------------------------------------------------------------------------
(* The steps that move, write or file a line.                              *)

LEMMA ReadyIsLine == \A c \in Conns : Ready(c) \in Lines
  BY DEF Ready, Lines

LEMMA AnswerIsLine == \A c \in Conns, n \in Cmds, k \in {"ok", "refused"} : Answer(c, k, n) \in Lines
  BY DEF Answer, Lines

LEMMA NoLineIsNone == NoLine \notin Lines
  BY NoneIsNoConn DEF NoLine, Lines

\* recv moves lines from a stream to a buffer.
LEMMA ReceiveData_Moves ==
  ASSUME TypeOK, IInv, Single, NEW r \in Conns, ReceiveData(r)
  PROVE  /\ Single'
         /\ \A l : Unheard(l) => Unheard(l)'
<1> DEFINE h == hold[r]
           st == stream[h]
<1>1. h \in Conns
  BY DEF ReceiveData, IInv, ReadersOK
<1>2. PICK n \in 1..Len(st) : /\ buffer' = [buffer EXCEPT ![r] = @ \o SubSeq(st, 1, n)]
                              /\ stream' = [stream EXCEPT ![h] = SubSeq(@, n + 1, Len(@))]
  BY DEF ReceiveData
<1>3. buffer \in [Conns -> Seq(Chunks)] /\ stream \in [Conns -> Seq(Chunks)] /\ handled' = handled
  BY DEF TypeOK, ReceiveData
<1> DEFINE p == SubSeq(st, 1, n)
           q == SubSeq(st, n + 1, Len(st))
<1>4. st \in Seq(Chunks) /\ Once(st) /\ buffer[r] \in Seq(Chunks) /\ Once(buffer[r])
  BY <1>1, <1>3 DEF Single
<1>5. /\ p \in Seq(Chunks) /\ q \in Seq(Chunks)
      /\ Once(p) /\ Once(q) /\ Ends(p) \cap Ends(q) = {} /\ Ends(st) = Ends(p) \cup Ends(q)
  BY <1>4, CutEnds
<1>6. \A c \in Conns : /\ stream'[c] = IF c = h THEN q ELSE stream[c]
                       /\ buffer'[c] = IF c = r THEN buffer[r] \o p ELSE buffer[c]
  BY <1>1, <1>2, <1>3
<1> HIDE DEF st, p, q, h
<1>7. Ends(buffer[r]) \cap Ends(st) = {}
  BY <1>1 DEF Single, st
<1>8. Ends(buffer[r] \o p) = Ends(buffer[r]) \cup Ends(p) /\ Once(buffer[r] \o p)
  BY <1>4, <1>5, <1>7, ConcatEnds
<1>9. /\ \A c \in Conns : Ends(stream'[c]) = IF c = h THEN Ends(q) ELSE Ends(stream[c])
      /\ \A c \in Conns : Ends(buffer'[c]) = IF c = r THEN Ends(buffer[r]) \cup Ends(p) ELSE Ends(buffer[c])
      /\ \A c \in Conns : Once(stream'[c]) /\ Once(buffer'[c])
  BY <1>5, <1>6, <1>8 DEF Single
<1>10. Ends(stream[h]) = Ends(p) \cup Ends(q)
  BY <1>5 DEF st
<1>11. \A c, d \in Conns : c # d => Ends(stream[c]) \cap Ends(stream[d]) = {}
  BY DEF Single
<1>12. Single'
  <2>1. \A c \in Conns : \A l \in Ends(stream'[c]) : l.from = c
    BY <1>1, <1>9, <1>10 DEF Single
  <2>2. \A a, c \in Conns : a # c => Ends(buffer'[a]) \cap Ends(buffer'[c]) = {}
    BY <1>1, <1>9, <1>10 DEF Single
  <2>3. \A a, c \in Conns : Ends(buffer'[a]) \cap Ends(stream'[c]) = {}
    BY <1>1, <1>5, <1>9, <1>10, <1>11 DEF Single
  <2>4. \A c \in Conns : handled' \cap Ends(stream'[c]) = {} /\ handled' \cap Ends(buffer'[c]) = {}
    BY <1>1, <1>3, <1>9, <1>10 DEF Single
  <2> QED BY <1>9, <2>1, <2>2, <2>3, <2>4 DEF Single
<1>13. ASSUME NEW l, Unheard(l) PROVE Unheard(l)'
  BY <1>1, <1>3, <1>9, <1>10, <1>13 DEF Unheard
<1> QED BY <1>12, <1>13

\* A whole line is cut off the buffer, and filed or dropped: its end is nowhere else.
LEMMA HandleLine_Files ==
  ASSUME TypeOK, Single, NEW r \in Conns, HandleLine(r)
  PROVE  /\ Single'
         /\ \A l : Unheard(l) => Unheard(l)'
         /\ \/ UNCHANGED <<last, handled>>
            \/ last' \notin handled /\ handled' = handled \cup {last'}
<1> DEFINE b == buffer[r]
<1>1. PICK n \in EndsLine(b) :
        /\ buffer' = [buffer EXCEPT ![r] = SubSeq(b, n + 1, Len(b))]
        /\ \/ last' = b[n][1] /\ handled' = handled \cup {b[n][1]}
           \/ UNCHANGED <<last, handled>>
  BY DEF HandleLine, filed
<1>2. buffer \in [Conns -> Seq(Chunks)] /\ stream' = stream
  BY DEF TypeOK, HandleLine, board
<1>3. b \in Seq(Chunks) /\ Once(b)
  BY <1>2 DEF Single
<1> DEFINE q == SubSeq(b, n + 1, Len(b))
           l0 == b[n][1]
<1>4. buffer' = [buffer EXCEPT ![r] = q]
  BY <1>1
<1>5. /\ last' = l0 /\ handled' = handled \cup {l0}
      \/ UNCHANGED <<last, handled>>
  BY <1>1
<1>6. n \in 1..Len(b) /\ b[n][2] = 2
  BY <1>3, InEnds
<1>7. /\ Once(q) /\ Ends(q) \subseteq Ends(b) /\ l0 \in Ends(b) /\ l0 \notin Ends(q)
  BY <1>3, <1>6, CutEnds
<1> HIDE DEF q, l0
<1>8. \A c \in Conns : buffer'[c] = IF c = r THEN q ELSE buffer[c]
  BY <1>2, <1>4
<1>9. /\ \A c \in Conns : Once(buffer'[c]) /\ Once(stream'[c])
      /\ \A c \in Conns : Ends(buffer'[c]) \subseteq Ends(buffer[c]) /\ Ends(stream'[c]) = Ends(stream[c])
      /\ l0 \in Ends(buffer[r]) /\ l0 \notin Ends(buffer'[r])
  BY <1>2, <1>7, <1>8 DEF Single
<1>10. /\ l0 \notin handled
       /\ \A c \in Conns : l0 \notin Ends(buffer'[c]) /\ l0 \notin Ends(stream'[c])
  BY <1>9 DEF Single
<1>11. Single'
  <2>1. \A c \in Conns : \A l \in Ends(stream'[c]) : l.from = c
    BY <1>9 DEF Single
  <2>2. \A a, c \in Conns : a # c => Ends(buffer'[a]) \cap Ends(buffer'[c]) = {}
    BY <1>9 DEF Single
  <2>3. \A a, c \in Conns : Ends(buffer'[a]) \cap Ends(stream'[c]) = {}
    BY <1>9 DEF Single
  <2>4. \A c \in Conns : handled' \cap Ends(stream'[c]) = {} /\ handled' \cap Ends(buffer'[c]) = {}
    <3> SUFFICES ASSUME NEW c \in Conns, NEW l \in handled'
                 PROVE  l \notin Ends(stream'[c]) /\ l \notin Ends(buffer'[c])
      OBVIOUS
    <3>1. CASE l = l0 BY <3>1, <1>10
    <3>2. CASE l \in handled BY <3>2, <1>9 DEF Single
    <3> QED BY <1>5, <3>1, <3>2
  <2> QED BY <1>9, <2>1, <2>2, <2>3, <2>4 DEF Single
<1>12. ASSUME NEW l, Unheard(l) PROVE Unheard(l)'
  BY <1>5, <1>9, <1>12 DEF Unheard
<1> QED BY <1>5, <1>10, <1>11, <1>12

\* A board writes a line that was not written before.
LEMMA WriteLine ==
  ASSUME TypeOK, Single, NEW c \in Conns, NEW l \in Lines, l.from = c, Unheard(l),
         stream' \in {[stream EXCEPT ![c] = @ \o Written(l)], [stream EXCEPT ![c] = Written(l)]},
         UNCHANGED <<buffer, handled>>
  PROVE  /\ Single'
         /\ \A k : Unheard(k) /\ k # l => Unheard(k)'
<1>1. buffer \in [Conns -> Seq(Chunks)] /\ stream \in [Conns -> Seq(Chunks)]
  BY DEF TypeOK
<1>2. Written(l) \in Seq(Chunks) /\ Ends(Written(l)) = {l} /\ Once(Written(l))
  BY WrittenEnds
<1>3. Once(stream[c]) /\ l \notin Ends(stream[c])
  BY DEF Single, Unheard
<1>4. /\ Ends(stream[c] \o Written(l)) = Ends(stream[c]) \cup {l}
      /\ Once(stream[c] \o Written(l))
  BY <1>1, <1>2, <1>3, ConcatEnds
<1>5. /\ \A d \in Conns : d # c => stream'[d] = stream[d]
      /\ stream'[c] \in {stream[c] \o Written(l), Written(l)}
  BY <1>1
<1>6. /\ \A d \in Conns : Ends(stream'[d]) \subseteq Ends(stream[d]) \cup IF d = c THEN {l} ELSE {}
      /\ \A d \in Conns : Once(stream'[d])
  BY <1>2, <1>4, <1>5 DEF Single
<1>7. Single'
  <2>1. \A d \in Conns : \A k \in Ends(stream'[d]) : k.from = d
    BY <1>6 DEF Single
  <2>2. \A a, d \in Conns : a # d => Ends(buffer'[a]) \cap Ends(buffer'[d]) = {}
    BY DEF Single
  <2>3. ASSUME NEW a \in Conns, NEW d \in Conns, NEW k \in Ends(stream'[d])
        PROVE  k \notin Ends(buffer'[a]) /\ k \notin handled'
    <3>1. CASE k = l BY <3>1 DEF Unheard
    <3>2. CASE k \in Ends(stream[d]) BY <3>2 DEF Single
    <3> QED BY <1>6, <2>3, <3>1, <3>2
  <2>4. \A d \in Conns : handled' \cap Ends(buffer'[d]) = {}
    BY DEF Single
  <2>5. \A d \in Conns : Once(stream'[d]) /\ Once(buffer'[d])
    BY <1>6 DEF Single
  <2>6. \A a, d \in Conns : Ends(buffer'[a]) \cap Ends(stream'[d]) = {} /\ handled' \cap Ends(stream'[d]) = {}
    BY <2>3
  <2> QED BY <2>1, <2>2, <2>4, <2>5, <2>6 DEF Single
<1>8. ASSUME NEW k, Unheard(k), k # l PROVE Unheard(k)'
  BY <1>6, <1>8 DEF Unheard
<1> QED BY <1>7, <1>8

-----------------------------------------------------------------------------
(* Every step keeps the invariant of the lines.                            *)

LEMMA InitFresh == Init => FInv
<1> SUFFICES ASSUME Init PROVE FInv
  OBVIOUS
<1>0. MaxCmds \in Nat
  BY ServerAssumption DEF ServerAssumption
<1>1. \A c \in Conns : stream[c] = <<>> /\ buffer[c] = <<>>
  BY DEF Init
<1>2. EndsLine(<<>>) = {}
  BY DEF EndsLine
<1>3. Ends(<<>>) = {} /\ Once(<<>>)
  BY <1>2 DEF Ends, Once
<1>4. Single
  BY <1>1, <1>3 DEF Single
<1>5. ToCome
  BY <1>1, <1>3 DEF ToCome, Unheard, Init
<1>6. Filed
  BY DEF Filed, Init
<1> QED BY <1>4, <1>5, <1>6 DEF FInv

\* A step that neither moves nor files a line.
LEMMA StillSingle ==
  ASSUME Single, UNCHANGED <<stream, buffer, handled>>
  PROVE  Single' /\ \A l : Unheard(l)' <=> Unheard(l)
<1>1. Single' BY DEF Single
<1>2. \A l : Unheard(l)' <=> Unheard(l) BY DEF Unheard
<1> QED BY <1>1, <1>2

\* A step that makes no command a command to be answered.
LEMMA StillToCome ==
  ASSUME ToCome, \A l : Unheard(l) => Unheard(l)',
         \A c \in Conns : sock'[c] = "new" => sock[c] = "new",
         UNCHANGED <<todo, cmd>>, caller' = "send" => caller = "send"
  PROVE  ToCome'
<1>1. \A n \in Cmds : Unsent(n)' => Unsent(n)
  BY DEF Unsent
<1>2. \A c \in Conns : Ready(c)' = Ready(c)
  OBVIOUS
<1>3. \A c \in Conns : sock'[c] = "new" => Unheard(Ready(c))'
  BY DEF ToCome
<1>4. \A c \in Conns, n \in Cmds : n \in todo'[c] => ~Unsent(n)'
  BY <1>1 DEF ToCome
<1>5. \A c \in Conns, n \in Cmds, k \in {"ok", "refused"} :
        n \in todo'[c] \/ Unsent(n)' => Unheard(Answer(c, k, n))'
  BY <1>1 DEF ToCome
<1> QED BY <1>3, <1>4, <1>5 DEF ToCome

LEMMA AcceptFresh == ASSUME TypeOK, IInv, FInv, AcceptThread PROVE FInv'
<1>1. /\ UNCHANGED <<stream, buffer, handled, todo, cmd, caller, before>>
      /\ last' \in {last, NoLine}
  BY DEF AcceptThread, AcceptClient, AcceptEnds, InstallClient, ForgetOldClient, SpawnReceiver,
         board, recvs, calls, filed
<1>2. \A c \in Conns : sock'[c] = "new" => sock[c] = "new"
  BY DEF AcceptThread, AcceptClient, AcceptEnds, InstallClient, ForgetOldClient, SpawnReceiver, server
<1>3. Single' /\ ToCome'
  BY <1>1, <1>2, StillSingle, StillToCome DEF FInv
<1>4. Filed'
  BY <1>1, NoLineIsNone DEF FInv, Filed, TypeOK
<1> QED BY <1>3, <1>4 DEF FInv

LEMMA ReceiverFresh == ASSUME TypeOK, IInv, FInv, NEW r \in Conns, Receiver(r) PROVE FInv'
<1>1. UNCHANGED <<todo, calls>> /\ \A c \in Conns : sock'[c] = "new" => sock[c] = "new"
  <2>1. CASE ClearClient(r)
    BY <2>1 DEF ClearClient, board, IInv, ThreadsOK
  <2>2. CASE ~ClearClient(r)
    BY <2>2 DEF Receiver, ReceiverGoes, ReceiverLooksUp, ReceiveData, ReceiveTimeout, ReceiveFails,
                HandleLine, NoMoreLines, board, server
  <2> QED BY <2>1, <2>2
<1>2. CASE ReceiveData(r)
  <2>1. UNCHANGED <<filed, handled>>
    BY <1>2 DEF ReceiveData
  <2>2. Single' /\ \A l : Unheard(l) => Unheard(l)'
    BY <1>2, ReceiveData_Moves DEF FInv
  <2>3. ToCome'
    BY <1>1, <2>2, StillToCome DEF FInv, calls
  <2>4. Filed'
    BY <1>1, <2>1 DEF FInv, Filed, calls, filed
  <2> QED BY <2>2, <2>3, <2>4 DEF FInv
<1>3. CASE HandleLine(r)
  <2>2. /\ Single' /\ \A l : Unheard(l) => Unheard(l)'
        /\ \/ UNCHANGED <<last, handled>>
           \/ last' \notin handled /\ handled' = handled \cup {last'}
    BY <1>3, HandleLine_Files DEF FInv
  <2>3. ToCome'
    BY <1>1, <2>2, StillToCome DEF FInv, calls
  <2>4. Filed'
    BY <1>1, <2>2 DEF FInv, Filed, calls
  <2> QED BY <2>2, <2>3, <2>4 DEF FInv
<1>4. CASE ~ReceiveData(r) /\ ~HandleLine(r)
  <2>1. UNCHANGED <<stream, buffer, filed, handled>>
    BY <1>4 DEF Receiver, ReceiverGoes, ReceiverLooksUp, ReceiveTimeout, ReceiveFails,
                ClearClient, NoMoreLines, board
  <2>2. Single' /\ ToCome'
    BY <1>1, <2>1, StillSingle, StillToCome DEF FInv, calls
  <2>3. Filed'
    BY <1>1, <2>1 DEF FInv, Filed, calls, filed
  <2> QED BY <2>2, <2>3 DEF FInv
<1> QED BY <1>2, <1>3, <1>4

LEMMA CallerFresh == ASSUME TypeOK, IInv, Begun, FInv, Caller PROVE FInv'
<1>0. MaxCmds \in Nat /\ cmd \in Nat /\ handled \subseteq Lines
  BY ServerAssumption DEF ServerAssumption, TypeOK
<1>1. UNCHANGED <<stream, buffer, handled>>
  BY DEF Caller, SendJson, BeginCommand, SendCommand, Answered, AckTimeout, BeginWait, WaitMatches,
         WaitTimeout, Stop, StopCloses, board, recvs
<1>2. Single' /\ \A l : Unheard(l)' <=> Unheard(l)
  BY <1>1, StillSingle DEF FInv
<1>3. \A c \in Conns : sock'[c] = "new" => sock[c] = "new"
  <2>1. CASE SendJson \/ SendCommand
    BY <2>1 DEF SendJson, SendCommand, SendText, IInv, ThreadsOK
  <2>2. CASE ~(SendJson \/ SendCommand)
    BY <2>2 DEF Caller, BeginCommand, Answered, AckTimeout, BeginWait, WaitMatches,
                WaitTimeout, Stop, StopCloses, server
  <2> QED BY <2>1, <2>2
<1>4. CASE SendJson \/ SendCommand
  <2>1. /\ cmd' \in Nat /\ Unsent(cmd') /\ (cmd' = cmd \/ cmd' = cmd + 1)
        /\ caller' # "send" /\ (caller' = "ack" => caller = "send")
        /\ caller = "send" => cmd' = cmd
        /\ UNCHANGED <<last, before>>
    BY <1>0, <1>4 DEF SendJson, SendCommand, Unsent, filed
  <2>2. \A n \in Cmds : Unsent(n)' => Unsent(n) /\ n # cmd'
    BY <1>0, <2>1 DEF Unsent, Cmds
  <2>3. \A c \in Conns : todo'[c] = todo[c] \/ todo'[c] = todo[c] \cup {cmd'}
    BY <1>4 DEF SendJson, SendCommand, SendText, Deliver, TypeOK
  <2>5. ToCome'
    <3>1. \A c \in Conns : sock'[c] = "new" => Unheard(Ready(c))'
      BY <1>2, <1>3 DEF FInv, ToCome
    <3>2. \A c \in Conns, n \in Cmds : n \in todo'[c] => ~Unsent(n)'
      BY <2>2, <2>3 DEF FInv, ToCome
    <3>3. \A c \in Conns, n \in Cmds, k \in {"ok", "refused"} :
            n \in todo'[c] \/ Unsent(n)' => Unheard(Answer(c, k, n))'
      BY <1>2, <2>1, <2>2, <2>3 DEF FInv, ToCome
    <3> QED BY <3>1, <3>2, <3>3 DEF ToCome
  <2>6. Filed'
    BY <1>1, <2>1 DEF FInv, Filed
  <2> QED BY <1>2, <2>5, <2>6 DEF FInv
<1>5. CASE BeginCommand
  <2>1. /\ last' = NoLine /\ before' = handled /\ caller' = "send" /\ caller = "idle"
        /\ cmd' = cmd + 1 /\ UNCHANGED todo
    BY <1>5 DEF BeginCommand, board
  <2>2. \A n \in Cmds : Unsent(n)' => Unsent(n)
    BY <1>0, <2>1 DEF Unsent, Cmds
  <2>3. ToCome'
    <3>1. \A c \in Conns : sock'[c] = "new" => Unheard(Ready(c))'
      BY <1>2, <1>3 DEF FInv, ToCome
    <3>2. \A c \in Conns, n \in Cmds : n \in todo'[c] => ~Unsent(n)'
      BY <2>1, <2>2 DEF FInv, ToCome
    <3>3. \A c \in Conns, n \in Cmds, k \in {"ok", "refused"} :
            n \in todo'[c] \/ Unsent(n)' => Unheard(Answer(c, k, n))'
      BY <1>2, <2>1, <2>2 DEF FInv, ToCome
    <3> QED BY <3>1, <3>2, <3>3 DEF ToCome
  <2>4. Filed'
    BY <1>0, <1>1, <2>1, NoLineIsNone DEF Filed
  <2> QED BY <1>2, <2>3, <2>4 DEF FInv
<1>6. CASE Answered \/ AckTimeout \/ BeginWait \/ WaitMatches \/ WaitTimeout \/ Stop \/ StopCloses
  <2>1. /\ UNCHANGED <<todo, cmd, last>> /\ caller' \notin {"send", "ack"}
        /\ before' \in {before, handled}
    BY <1>6 DEF Answered, AckTimeout, BeginWait, WaitMatches, WaitTimeout, Stop, StopCloses, board, filed
  <2>2. ToCome'
    BY <1>2, <1>3, <2>1, StillToCome DEF FInv
  <2>3. Filed'
    BY <1>1, <2>1 DEF FInv, Filed
  <2> QED BY <1>2, <2>2, <2>3 DEF FInv
<1> QED BY <1>4, <1>5, <1>6 DEF Caller

LEMMA BoardsFresh == ASSUME TypeOK, FInv, BoardsNext PROVE FInv'
<1> SUFFICES ASSUME NEW c \in Conns, Connect(c) \/ Reply(c) \/ Leave(c) PROVE FInv'
  BY DEF BoardsNext
<1>1. UNCHANGED <<buffer, handled, calls, last>>
  BY DEF Connect, Reply, Leave, recvs, filed
<1>2. Filed'
  BY <1>1 DEF FInv, Filed, calls
<1>u. \A n : Unsent(n)' <=> Unsent(n)
  BY <1>1 DEF Unsent, calls
<1>3. CASE Connect(c)
  <2> DEFINE l == Ready(c)
  <2>1. /\ sock[c] = "new" /\ sock' = [sock EXCEPT ![c] = "queued"] /\ todo' = todo
        /\ stream' = [stream EXCEPT ![c] = Written(l)]
    BY <1>3 DEF Connect, Ready
  <2>2. l \in Lines /\ l.from = c /\ Unheard(l)
    BY <2>1, ReadyIsLine DEF FInv, ToCome, Ready
  <2>3. \A d \in Conns : d # c => Ready(d) # l
    BY DEF Ready
  <2>4. \A d \in Conns, n \in Cmds, k \in {"ok", "refused"} : Answer(d, k, n) # l
    BY DEF Ready, Answer
  <2>5. sock \in [Conns -> {"new", "queued", "open", "closed"}]
    BY DEF TypeOK
  <2> HIDE DEF l
  <2>6. Single' /\ \A k : Unheard(k) /\ k # l => Unheard(k)'
    BY <1>1, <2>1, <2>2, WriteLine DEF FInv
  <2>7. \A d \in Conns : sock'[d] = "new" => d # c /\ sock[d] = "new"
    BY <2>1, <2>5
  <2>8. ToCome'
    <3>1. \A d \in Conns : sock'[d] = "new" => Unheard(Ready(d))'
      BY <2>3, <2>6, <2>7 DEF FInv, ToCome
    <3>2. \A d \in Conns, n \in Cmds : n \in todo'[d] => ~Unsent(n)'
      BY <1>u, <2>1 DEF FInv, ToCome
    <3>3. \A d \in Conns, n \in Cmds, k \in {"ok", "refused"} :
            n \in todo'[d] \/ Unsent(n)' => Unheard(Answer(d, k, n))'
      BY <1>u, <2>1, <2>4, <2>6 DEF FInv, ToCome
    <3> QED BY <3>1, <3>2, <3>3 DEF ToCome
  <2> QED BY <1>2, <2>6, <2>8 DEF FInv
<1>4. CASE Reply(c)
  <2>1. PICK n \in todo[c], j \in {"ok", "refused"} :
          /\ todo' = [todo EXCEPT ![c] = @ \ {n}]
          /\ stream' = [stream EXCEPT ![c] = @ \o Written(Answer(c, j, n))]
    BY <1>4 DEF Reply, Answer
  <2> DEFINE l == Answer(c, j, n)
  <2>2. n \in Cmds /\ todo \in [Conns -> SUBSET Cmds] /\ sock' = sock
    BY <1>4 DEF TypeOK, Reply, server
  <2>3. l \in Lines /\ l.from = c /\ Unheard(l) /\ ~Unsent(n)
    BY <2>2, AnswerIsLine DEF FInv, ToCome, Answer
  <2>4. \A d \in Conns : Ready(d) # l
    BY DEF Ready, Answer
  <2>5. \A d \in Conns, m \in Cmds, k \in {"ok", "refused"} : Answer(d, k, m) = l => d = c /\ m = n
    BY DEF Answer
  <2>6. stream' = [stream EXCEPT ![c] = @ \o Written(l)]
    BY <2>1
  <2>7. \A d \in Conns : todo'[d] = IF d = c THEN todo[c] \ {n} ELSE todo[d]
    BY <2>1, <2>2
  <2> HIDE DEF l
  <2>8. Single' /\ \A k : Unheard(k) /\ k # l => Unheard(k)'
    BY <1>1, <2>3, <2>6, WriteLine DEF FInv
  <2>9. ToCome'
    <3>1. \A d \in Conns : sock'[d] = "new" => Unheard(Ready(d))'
      BY <2>2, <2>4, <2>8 DEF FInv, ToCome
    <3>2. \A d \in Conns, m \in Cmds : m \in todo'[d] => ~Unsent(m)'
      BY <1>u, <2>7 DEF FInv, ToCome
    <3>3. ASSUME NEW d \in Conns, NEW m \in Cmds, NEW k \in {"ok", "refused"},
                 m \in todo'[d] \/ Unsent(m)'
          PROVE  Unheard(Answer(d, k, m))'
      <4>1. Answer(d, k, m) # l
        BY <1>u, <2>3, <2>5, <2>7, <3>3
      <4>2. Unheard(Answer(d, k, m))
        BY <1>u, <2>7, <3>3 DEF FInv, ToCome
      <4> QED BY <2>8, <4>1, <4>2
    <3> QED BY <3>1, <3>2, <3>3 DEF ToCome
  <2> QED BY <1>2, <2>8, <2>9 DEF FInv
<1>5. CASE Leave(c)
  <2>1. UNCHANGED <<stream, todo, sock>>
    BY <1>5 DEF Leave, server
  <2>2. Single' /\ ToCome'
    BY <1>1, <2>1, StillSingle, StillToCome DEF FInv, calls
  <2> QED BY <1>2, <2>2 DEF FInv
<1> QED BY <1>3, <1>4, <1>5

LEMMA NextFresh == TInv /\ FInv /\ [Next]_vars => FInv'
<1> SUFFICES ASSUME TInv, FInv, [Next]_vars PROVE FInv'
  OBVIOUS
<1>1. CASE UNCHANGED vars
  <2>1. Single' /\ ToCome'
    BY <1>1, StillSingle, StillToCome DEF FInv, vars, server, board, recvs, calls
  <2>2. Filed'
    BY <1>1 DEF FInv, Filed, vars, filed, calls
  <2> QED BY <2>1, <2>2 DEF FInv
<1> QED BY <1>1, AcceptFresh, ReceiverFresh, CallerFresh, BoardsFresh DEF Next, TInv

\* What a caller takes for the answer to its command was filed after the call began:
\* no line is filed twice, and none that was there before is left when it asks.  It
\* may still be the late answer to an earlier command.
THEOREM FreshAnswerHolds == Spec => []FreshAnswer
<1>1. Init => TInv /\ FInv
  <2>1. Init => Begun
    BY DEF Init, Begun
  <2> QED BY <2>1, InitType, InitIInv, InitFresh DEF TInv
<1>2. FInv => FreshAnswer
  BY DEF FInv, Filed, FreshAnswer
<1> QED BY <1>1, <1>2, NextTInv, NextFresh, PTL DEF Spec
=============================================================================
