------------------------------ MODULE InnerLink ------------------------------
(***************************************************************************)
(* The connections between two workers of different nodes: opening one on  *)
(* the first send (AutoSend), the handshake through the remote node's      *)
(* Manager (CONNECT_TO_WORKER, fd passing, TELL_WORKER), the two send      *)
(* buffers of a connection, retries, heartbeats, closes and crashes.       *)
(*                                                                         *)
(* A connection is named by its sequence number c (ulSeq); its two         *)
(* endpoints are <<c, "out">> (the worker that called connect) and         *)
(* <<c, "in">> (the worker that was handed the accepted fd).  A buffer is  *)
(* a sequence of whole messages: a message of which only some bytes were   *)
(* written still counts as unwritten, its reader cannot decode it yet.     *)
(***************************************************************************)
EXTENDS Naturals, Sequences, FiniteSets

CONSTANTS
    A, B,           \* the two workers
    MaxConn,        \* bound: connections ever opened
    MaxMsg,         \* bound: application messages handed to SendTo
    MaxBeat,        \* bound: heartbeats sent
    MaxCrash,       \* bound: worker crashes
    RetryLimit      \* timeouts a handshake step answers by sending again (3)

ASSUME WorkerAssumption == A # B
ASSUME BoundAssumption ==
    /\ MaxConn \in Nat /\ MaxMsg \in Nat /\ MaxBeat \in Nat
    /\ MaxCrash \in Nat /\ RetryLimit \in Nat

Worker == {A, B}
Peer(w) == IF w = A THEN B ELSE A

Conn == 1..MaxConn
Side == {"out", "in"}
End == Conn \X Side
Out(c) == <<c, "out">>
In(c) == <<c, "in">>
Other(e) == IF e[2] = "out" THEN In(e[1]) ELSE Out(e[1])

NoShell == <<0, "out">>

\* The commands up to CMD_RSP_TELL_WORKER build the connection.
HandshakeCmd == {"REQ_CONNECT", "RSP_CONNECT", "REQ_TELL", "RSP_TELL"}
Cmd == HandshakeCmd \cup {"RSP_SYS_ERROR", "REQ_BEAT", "RSP_BEAT", "DATA"}
Msg == [cmd : Cmd, id : 0..MaxMsg]
M(cmd) == [cmd |-> cmd, id |-> 0]
Data(i) == [cmd |-> "DATA", id |-> i]

VARIABLES
    attr,       \* m_mapFdAttr of both workers: the connection of each endpoint
    at,         \* who holds the accepted socket of a connection
    initiator,  \* the worker that opened a connection
    workerIndex,\* m_mapSeq2WorkerIndex: connections whose handshake is not begun
    wire,       \* bytes written at an endpoint and not yet read by the other
    shell,      \* m_mapMsgShell: the endpoint a worker sends to its peer through
    step,       \* the registered handshake step of a connection
    rcvd,       \* application messages an endpoint has handed to its worker
    nSeq, nMsg, nBeat, nCrash   \* connections, messages, heartbeats, crashes so far

vars == <<attr, at, initiator, workerIndex, wire, shell, step, rcvd,
          nSeq, nMsg, nBeat, nCrash>>
counters == <<nSeq, nMsg, nBeat, nCrash>>

Attr == [bOpen : BOOLEAN,
         ucConnectStatus : {"init", "connecting", "ok"},
         pSendBuff : Seq(Msg),
         pWaitForSendBuff : Seq(Msg),
         bWriteEvent : BOOLEAN,
         bInner : BOOLEAN,
         timer : {"armed", "beat", "off"}]

Step == [kind : {"none", "connect", "tell", "given_up"}, iTimeoutNum : 0..RetryLimit]
NoStep == [kind |-> "none", iTimeoutNum |-> 0]
GivenUp == [kind |-> "given_up", iTimeoutNum |-> 0]

Closed == [bOpen |-> FALSE, ucConnectStatus |-> "init", pSendBuff |-> <<>>,
           pWaitForSendBuff |-> <<>>, bWriteEvent |-> FALSE, bInner |-> FALSE,
           timer |-> "off"]

\* CreateFdAttr, AddIoTimeout, AddIoReadEvent on a new fd.
CreateFdAttr == [Closed EXCEPT !.bOpen = TRUE, !.timer = "armed"]

Init ==
    /\ attr = [e \in End |-> Closed]
    /\ at = [c \in Conn |-> "none"]
    /\ initiator = [c \in Conn |-> A]
    /\ workerIndex = {}
    /\ wire = [e \in End |-> <<>>]
    /\ shell = [w \in Worker |-> NoShell]
    /\ step = [c \in Conn |-> NoStep]
    /\ rcvd = [e \in End |-> <<>>]
    /\ nSeq = 0 /\ nMsg = 0 /\ nBeat = 0 /\ nCrash = 0

Owner(e) == IF e[2] = "out" THEN initiator[e[1]] ELSE Peer(initiator[e[1]])

\* The other end of the socket is closed: a read returns 0 or an error, a
\* write is either accepted by the kernel and lost, or fails.
PeerGone(e) ==
    IF e[2] = "out"
    THEN at[e[1]] = "closed" \/ (at[e[1]] = "worker" /\ ~attr[In(e[1])].bOpen)
    ELSE ~attr[Out(e[1])].bOpen

-----------------------------------------------------------------------------
(* Sending. *)

\* Mutant of Waits: only a connection on which nothing was sent yet holds data back.
WaitsInitOnly(r, m) == r.ucConnectStatus = "init" /\ m.cmd \notin HandshakeCmd

\* A message that must wait for the handshake.
Waits(r, m) == r.ucConnectStatus # "ok" /\ m.cmd \notin HandshakeCmd

\* The part of SendTo(shell, head, body) that encodes into one of the buffers.
Encode(r, m) ==
    IF Waits(r, m)
    THEN [r EXCEPT !.pWaitForSendBuff = Append(@, m)]
    ELSE [r EXCEPT !.pSendBuff = Append(@, m),
                   !.ucConnectStatus = IF @ = "ok" \/ m.cmd = "RSP_TELL"
                                       THEN "ok" ELSE "connecting"]

\* Mutant of Written: the last message written stays in the buffer.
WrittenTwice(r, k) ==
    IF r.pSendBuff = <<>> THEN r
    ELSE [r EXCEPT !.pSendBuff = SubSeq(@, IF k = 0 THEN 1 ELSE k, Len(@)),
                   !.bWriteEvent = k < Len(r.pSendBuff)]

\* Mutant of Written: the write event is not armed for the rest.
WrittenUnarmed(r, k) ==
    IF r.pSendBuff = <<>> THEN r
    ELSE [r EXCEPT !.pSendBuff = SubSeq(@, k + 1, Len(@)), !.bWriteEvent = FALSE]

\* pSendBuff after the kernel took its first k messages; the write event
\* stays armed exactly when something is left.  An empty buffer: no change.
Written(r, k) ==
    IF r.pSendBuff = <<>> THEN r
    ELSE [r EXCEPT !.pSendBuff = SubSeq(@, k + 1, Len(@)),
                   !.bWriteEvent = k < Len(r.pSendBuff)]

\* The kernel queues net after the endpoint wrote ms; nobody reads them once the
\* peer is gone.
Carry(net, e, ms) == [net EXCEPT ![e] = IF PeerGone(e) THEN <<>> ELSE @ \o ms]

\* Mutant of DelMsgShell: the shell of a destroyed connection is kept.
KeepMsgShell(sh, e) == sh

\* DelMsgShell: forget the shell of the endpoint, and only of that endpoint.
DelMsgShell(sh, e) == [w \in Worker |-> IF sh[w] = e THEN NoShell ELSE sh[w]]

\* DestroyConnect: what is in the buffers and unread in the kernel is lost.
DestroyConnect(e, sh) ==
    /\ attr' = [attr EXCEPT ![e] = Closed]
    /\ shell' = DelMsgShell(sh, e)
    /\ wire' = [wire EXCEPT ![Other(e)] = <<>>]

\* WriteFD of pSendBuff of the connection r at endpoint e, when the shell map is sh
\* and the kernel queues are net; a write error destroys the connection.
WriteFD(e, r, sh, net, least) ==
    \/ \E k \in least..Len(r.pSendBuff) :
          /\ attr' = [attr EXCEPT ![e] = Written(r, k)]
          /\ wire' = Carry(net, e, SubSeq(r.pSendBuff, 1, k))
          /\ shell' = sh
    \/ PeerGone(e) /\ DestroyConnect(e, sh)

\* SendTo(shell, head, body) on an open connection.
SendTo(e, r, sh, net, m) ==
    IF Waits(r, m)
    THEN /\ attr' = [attr EXCEPT ![e] = Encode(r, m)]
         /\ shell' = sh
         /\ wire' = net
    ELSE WriteFD(e, Encode(r, m), sh, net, 0)

\* Mutant of Flush: nothing is moved.
NoFlush(r) == r

\* SendTo(shell): move the waiting messages behind pSendBuff and write.
Flush(r) == [r EXCEPT !.pSendBuff = @ \o r.pWaitForSendBuff, !.pWaitForSendBuff = <<>>]

-----------------------------------------------------------------------------
(* The worker's operations. *)

\* AutoSend: a new connection, the message waits for the handshake.
AutoSend(w, m) ==
    LET c == nSeq + 1 IN
    /\ nSeq < MaxConn
    /\ nSeq' = c
    /\ attr' = [attr EXCEPT ![Out(c)] = [CreateFdAttr EXCEPT !.bWriteEvent = TRUE,
                                             !.pWaitForSendBuff = <<m>>]]
    /\ initiator' = [initiator EXCEPT ![c] = w]
    /\ workerIndex' = workerIndex \cup {c}
    /\ shell' = [shell EXCEPT ![w] = Out(c)]
    /\ \E answer \in {"manager", "closed"} : at' = [at EXCEPT ![c] = answer]
    /\ UNCHANGED <<wire, step, rcvd>>

\* SendTo(identify, ...): an application message for the peer worker.
Send(w) ==
    /\ nMsg < MaxMsg
    /\ nMsg' = nMsg + 1
    /\ UNCHANGED <<nBeat, nCrash>>
    /\ IF shell[w] = NoShell
       THEN AutoSend(w, Data(nMsg + 1))
       ELSE /\ SendTo(shell[w], attr[shell[w]], shell, wire, Data(nMsg + 1))
            /\ UNCHANGED <<at, initiator, workerIndex, step, rcvd, nSeq>>

\* IoWrite with data to send: the socket is writable, so at least one message
\* goes out or the write fails.
IoWriteSend(e) ==
    /\ attr[e].bOpen /\ attr[e].bWriteEvent
    /\ attr[e].pSendBuff # <<>>
    /\ WriteFD(e, attr[e], shell, wire, 1)
    /\ UNCHANGED <<at, initiator, workerIndex, step, rcvd, counters>>

\* IoWrite with an empty pSendBuff and messages waiting.  If the handshake is not
\* begun, CmdConnectWorker::Start registers StepConnectWorker and sends CONNECT,
\* and the write event is removed whatever became of that write; otherwise the
\* waiting messages are sent.
IoWriteEmpty(e) ==
    LET begin == e[2] = "out" /\ e[1] \in workerIndex
        r == IF begin
             THEN Encode([attr[e] EXCEPT !.bInner = TRUE], M("REQ_CONNECT"))
             ELSE Flush(attr[e]) IN
    /\ attr[e].bOpen /\ attr[e].bWriteEvent
    /\ attr[e].pSendBuff = <<>> /\ attr[e].pWaitForSendBuff # <<>>
    /\ workerIndex' = IF begin THEN workerIndex \ {e[1]} ELSE workerIndex
    /\ step' = [step EXCEPT ![e[1]] =
                   IF begin THEN [kind |-> "connect", iTimeoutNum |-> 0] ELSE @]
    /\ \/ \E k \in 0..Len(r.pSendBuff) :
             /\ attr' = [attr EXCEPT ![e] =
                            [Written(r, k) EXCEPT !.bWriteEvent = ~begin /\ @]]
             /\ wire' = Carry(wire, e, SubSeq(r.pSendBuff, 1, k))
             /\ UNCHANGED shell
       \/ PeerGone(e) /\ DestroyConnect(e, shell)
    /\ UNCHANGED <<at, initiator, rcvd, counters>>

\* The command of a handshake step.
StepCmd(kind) == IF kind = "connect" THEN "REQ_CONNECT" ELSE "REQ_TELL"

MayRetry(c) == step[c].iTimeoutNum < RetryLimit

\* StepTimeout of a handshake step: send again, or give up and leave the
\* connection as it is.  The step's shell is stale once the connection is gone.
StepTimeout(c) ==
    /\ step[c].kind \in {"connect", "tell"}
    /\ \/ /\ MayRetry(c)
          /\ step' = [step EXCEPT ![c].iTimeoutNum = @ + 1]
          /\ IF attr[Out(c)].bOpen
             THEN SendTo(Out(c), attr[Out(c)], shell, wire, M(StepCmd(step[c].kind)))
             ELSE UNCHANGED <<attr, wire, shell>>
       \/ /\ ~MayRetry(c)
          /\ step' = [step EXCEPT ![c] = GivenUp]
          /\ UNCHANGED <<attr, wire, shell>>
    /\ UNCHANGED <<at, initiator, workerIndex, rcvd, counters>>

\* IoTimeout of an idle connection: StepIoTimeout sends a heartbeat.
IoTimeout(e) ==
    /\ attr[e].bOpen /\ attr[e].timer = "armed"
    /\ nBeat < MaxBeat
    /\ nBeat' = nBeat + 1
    /\ SendTo(e, [attr[e] EXCEPT !.timer = "beat"], shell, wire, M("REQ_BEAT"))
    /\ UNCHANGED <<at, initiator, workerIndex, step, rcvd, nSeq, nMsg, nCrash>>

\* StepIoTimeout::Timeout: no answer to the heartbeat.  Only a connection that
\* is not an inner one is closed; the timer of an inner one is not started again.
BeatTimeout(e) ==
    /\ attr[e].bOpen /\ attr[e].timer = "beat"
    /\ IF attr[e].bInner
       THEN /\ attr' = [attr EXCEPT ![e].timer = "off"]
            /\ UNCHANGED <<wire, shell>>
       ELSE DestroyConnect(e, shell)
    /\ UNCHANGED <<at, initiator, workerIndex, step, rcvd, counters>>

\* A read of 0 bytes or a read error.
PeerClosed(e) ==
    /\ attr[e].bOpen /\ PeerGone(e)
    /\ DestroyConnect(e, shell)
    /\ UNCHANGED <<at, initiator, workerIndex, step, rcvd, counters>>

-----------------------------------------------------------------------------
(* Receiving.  One action reads, decodes and disposes one message. *)

\* Mutant of Decode: the Manager's answer already establishes the connection.
DecodeEager(r, m) ==
    IF r.ucConnectStatus # "ok" /\ m.cmd \in HandshakeCmd
    THEN [r EXCEPT !.ucConnectStatus =
                IF m.cmd \in {"RSP_CONNECT", "RSP_TELL"} THEN "ok" ELSE "connecting"]
    ELSE r

\* ProtoCodec::Decode: a handshake command moves the connection's status.
Decode(r, m) ==
    IF r.ucConnectStatus # "ok" /\ m.cmd \in HandshakeCmd
    THEN [r EXCEPT !.ucConnectStatus = IF m.cmd = "RSP_TELL" THEN "ok" ELSE "connecting"]
    ELSE r

\* The message at the head of what endpoint e can read, the connection with it
\* decoded, and the kernel queues without it.
Incoming(e) == Head(wire[Other(e)])
Decoded(e) == Decode(attr[e], Incoming(e))
Read(e) == [wire EXCEPT ![Other(e)] = Tail(@)]
CanRead(e, cmd) ==
    attr[e].bOpen /\ wire[Other(e)] # <<>> /\ Incoming(e).cmd = cmd

\* The connection changed to r by what was read, nothing sent.
Absorb(e, r) ==
    /\ attr' = [attr EXCEPT ![e] = r]
    /\ wire' = Read(e)
    /\ UNCHANGED shell

\* StepConnectWorker::Callback on the Manager's answer: StepTellWorker takes over.
\* Without a registered step the answer is dropped.
RecvRspConnect(c) ==
    LET e == Out(c) IN
    /\ CanRead(e, "RSP_CONNECT")
    /\ IF step[c].kind = "connect"
       THEN /\ step' = [step EXCEPT ![c] = [kind |-> "tell", iTimeoutNum |-> 0]]
            /\ SendTo(e, Decoded(e), shell, Read(e), M("REQ_TELL"))
       ELSE Absorb(e, Decoded(e)) /\ UNCHANGED step
    /\ UNCHANGED <<at, initiator, workerIndex, rcvd, counters>>

\* The remote worker's answer to a command it has no handler for carries the
\* sequence of the step that sent the command.
RecvSysError(c) ==
    LET e == Out(c) IN
    /\ CanRead(e, "RSP_SYS_ERROR")
    /\ Absorb(e, Decoded(e))
    /\ step' = [step EXCEPT ![c] = IF @.kind = "connect" THEN GivenUp ELSE @]
    /\ UNCHANGED <<at, initiator, workerIndex, rcvd, counters>>

\* StepTellWorker::Callback: publish the shell, send what waited.
RecvRspTell(c) ==
    LET e == Out(c) IN
    /\ CanRead(e, "RSP_TELL")
    /\ IF step[c].kind = "tell"
       THEN /\ step' = [step EXCEPT ![c] = NoStep]
            /\ WriteFD(e, Flush(Decoded(e)), [shell EXCEPT ![Owner(e)] = e], Read(e), 0)
       ELSE Absorb(e, Decoded(e)) /\ UNCHANGED step
    /\ UNCHANGED <<at, initiator, workerIndex, rcvd, counters>>

\* A CONNECT sent again that reaches the worker: no handler; the error answer is
\* encoded into pSendBuff and written once, no write event is armed for the rest.
RecvReqConnect(c) ==
    LET e == In(c)
        r == [Decoded(e) EXCEPT !.pSendBuff = Append(@, M("RSP_SYS_ERROR"))] IN
    /\ CanRead(e, "REQ_CONNECT")
    /\ \E k \in 0..Len(r.pSendBuff) :
          /\ attr' = [attr EXCEPT ![e] = [Written(r, k) EXCEPT !.bWriteEvent = r.bWriteEvent]]
          /\ wire' = Carry(Read(e), e, SubSeq(r.pSendBuff, 1, k))
    /\ UNCHANGED <<shell, at, initiator, workerIndex, step, rcvd, counters>>

\* CmdToldWorker::AnyMessage: this connection becomes the way to the peer.
RecvReqTell(c) ==
    LET e == In(c) IN
    /\ CanRead(e, "REQ_TELL")
    /\ SendTo(e, [Decoded(e) EXCEPT !.bInner = TRUE],
              [shell EXCEPT ![Owner(e)] = e], Read(e), M("RSP_TELL"))
    /\ UNCHANGED <<at, initiator, workerIndex, step, rcvd, counters>>

\* CmdBeat::AnyMessage.
RecvReqBeat(e) ==
    /\ CanRead(e, "REQ_BEAT")
    /\ SendTo(e, Decoded(e), shell, Read(e), M("RSP_BEAT"))
    /\ UNCHANGED <<at, initiator, workerIndex, step, rcvd, counters>>

\* StepIoTimeout::Callback: the connection is alive, its timer starts again.
RecvRspBeat(e) ==
    /\ CanRead(e, "RSP_BEAT")
    /\ Absorb(e, [Decoded(e) EXCEPT !.timer = IF @ = "beat" THEN "armed" ELSE @])
    /\ UNCHANGED <<at, initiator, workerIndex, step, rcvd, counters>>

\* An application command.
RecvData(e) ==
    /\ CanRead(e, "DATA")
    /\ Absorb(e, Decoded(e))
    /\ rcvd' = [rcvd EXCEPT ![e] = Append(@, Incoming(e).id)]
    /\ UNCHANGED <<at, initiator, workerIndex, step, counters>>

-----------------------------------------------------------------------------
(* The remote Manager, the fd passing and crashes. *)

\* Mutant of MgrAnswer: the fd is passed and an error answered.
MgrRefuses == <<M("RSP_SYS_ERROR")>>

\* What the Manager writes before it passes the fd on; it is the first write on
\* that socket, so the kernel has room for it.
MgrAnswer == <<M("RSP_CONNECT")>>

\* Manager::RecvDataAndDispose with DisposeDataAndTransferFd: one read takes n
\* messages; if the first is CONNECT and a worker with that index is found it is
\* answered and the fd passed to the worker, which may fail; in every case the
\* connection is destroyed here with the rest of what was read.
MgrTransferFd(c) ==
    /\ at[c] = "manager" /\ wire[Out(c)] # <<>>
    /\ \E n \in 1..Len(wire[Out(c)]), found \in BOOLEAN, passed \in BOOLEAN :
          LET known == found /\ Head(wire[Out(c)]).cmd = "REQ_CONNECT" IN
          /\ wire' = [wire EXCEPT ![Out(c)] = IF passed /\ known
                                              THEN SubSeq(@, n + 1, Len(@)) ELSE <<>>,
                                  ![In(c)] = IF known /\ attr[Out(c)].bOpen
                                             THEN @ \o MgrAnswer ELSE @]
          /\ at' = [at EXCEPT ![c] = IF passed /\ known THEN "passed" ELSE "closed"]
    /\ UNCHANGED <<attr, initiator, workerIndex, shell, step, rcvd, counters>>

\* The Manager or the worker's FdTransfer closes the accepted socket: the
\* Manager's IoTimeout, no memory for the connection.
AcceptorCloses(c) ==
    /\ at[c] \in {"manager", "passed"}
    /\ at' = [at EXCEPT ![c] = "closed"]
    /\ wire' = [wire EXCEPT ![Out(c)] = <<>>]
    /\ UNCHANGED <<attr, initiator, workerIndex, shell, step, rcvd, counters>>

\* Worker::FdTransfer.
FdTransfer(c) ==
    /\ at[c] = "passed"
    /\ at' = [at EXCEPT ![c] = "worker"]
    /\ attr' = [attr EXCEPT ![In(c)] = CreateFdAttr]
    /\ UNCHANGED <<wire, initiator, workerIndex, shell, step, rcvd, counters>>

\* A worker process dies and is restarted empty; fds on their way to it are closed.
Crash(w) ==
    LET dies == {e \in End : Owner(e) = w}
        coming == {c \in Conn : at[c] = "passed" /\ Owner(In(c)) = w} IN
    /\ nCrash < MaxCrash
    /\ nCrash' = nCrash + 1
    /\ attr' = [e \in End |-> IF e \in dies THEN Closed ELSE attr[e]]
    /\ at' = [c \in Conn |-> IF c \in coming THEN "closed" ELSE at[c]]
    /\ wire' = [e \in End |-> IF Other(e) \in dies /\ (e[2] = "out" => at[e[1]] # "manager")
                              THEN <<>> ELSE wire[e]]
    /\ shell' = [shell EXCEPT ![w] = NoShell]
    /\ step' = [c \in Conn |-> IF initiator[c] = w THEN NoStep ELSE step[c]]
    /\ workerIndex' = {c \in workerIndex : initiator[c] # w}
    /\ UNCHANGED <<initiator, rcvd, nSeq, nMsg, nBeat>>

Next ==
    \/ \E w \in Worker : Send(w) \/ Crash(w)
    \/ \E e \in End :
          \/ IoWriteSend(e) \/ IoWriteEmpty(e) \/ PeerClosed(e)
          \/ IoTimeout(e) \/ BeatTimeout(e)
          \/ RecvReqBeat(e) \/ RecvRspBeat(e) \/ RecvData(e)
    \/ \E c \in Conn :
          \/ StepTimeout(c)
          \/ RecvRspConnect(c) \/ RecvSysError(c) \/ RecvRspTell(c)
          \/ RecvReqConnect(c) \/ RecvReqTell(c)
          \/ MgrTransferFd(c) \/ AcceptorCloses(c) \/ FdTransfer(c)

Spec == Init /\ [][Next]_vars

\* The event loop serves every writable socket and every expired timer.
Fairness ==
    /\ \A e \in End : WF_vars(IoWriteSend(e)) /\ WF_vars(IoWriteEmpty(e))
    /\ \A c \in Conn : WF_vars(StepTimeout(c))

FairSpec == Spec /\ Fairness

-----------------------------------------------------------------------------
(* Properties. *)

\* The commands in a buffer or on a wire.
Cmds(ms) == {ms[i].cmd : i \in 1..Len(ms)}

\* Every variable has its type.
TypeOK ==
    /\ attr \in [End -> Attr]
    /\ at \in [Conn -> {"none", "manager", "passed", "worker", "closed"}]
    /\ initiator \in [Conn -> Worker]
    /\ workerIndex \subseteq Conn
    /\ wire \in [End -> Seq(Msg)]
    /\ shell \in [Worker -> End \cup {NoShell}]
    /\ step \in [Conn -> Step]
    /\ rcvd \in [End -> Seq(0..MaxMsg)]
    /\ nSeq \in 0..MaxConn /\ nMsg \in 0..MaxMsg
    /\ nBeat \in 0..MaxBeat /\ nCrash \in 0..MaxCrash

\* The first read of an accepted connection belongs to the Manager and is thrown
\* away with the connection: while the Manager holds it, nothing but CONNECT (and
\* its retries) is ever on its way, whatever the application queues meanwhile.
ManagerReadsOnlyConnect ==
    \A c \in Conn : at[c] = "manager" => Cmds(wire[Out(c)]) \subseteq {"REQ_CONNECT"}

\* m_mapMsgShell never leads to a connection that was destroyed, or to one of the
\* other worker: a stale entry would make every later SendTo to that peer fail,
\* and no new connection would be opened.
ShellIsLive ==
    \A w \in Worker : shell[w] # NoShell =>
        attr[shell[w]].bOpen /\ Owner(shell[w]) = w

\* Only handshake commands leave a connection before the worker at the other end
\* has answered TELL: application data in pSendBuff or on the wire means that
\* worker regards the connection as established.
DataAfterHandshake ==
    \A e \in End :
        /\ attr[e].bOpen /\ attr[Other(e)].bOpen
        /\ "DATA" \in Cmds(wire[e]) \cup Cmds(attr[e].pSendBuff)
        => attr[In(e[1])].ucConnectStatus = "ok"

\* Messages of one connection arrive in the order SendTo accepted them and none
\* twice, although they pass through two buffers and a handshake that is retried;
\* and none arrives over two connections, although the workers may have two.
OnceInOrder ==
    /\ \A e \in End : \A i, j \in 1..Len(rcvd[e]) : i < j => rcvd[e][i] < rcvd[e][j]
    /\ \A d, e \in End : \A i \in 1..Len(rcvd[d]), j \in 1..Len(rcvd[e]) :
           rcvd[d][i] = rcvd[e][j] => d = e

\* A handshake step ends in failure only by its own last timeout: the error answer
\* that a retried CONNECT draws from the worker never fails the step it belongs to.
GivesUpByTimeoutOnly ==
    [][\A c \in Conn : (step[c].kind # "given_up" /\ step'[c].kind = "given_up")
            => step[c].iTimeoutNum = RetryLimit]_vars

\* Whatever the socket did not take is written later: application data left in
\* pSendBuff always has the write event armed, also across the handshake's own
\* removal of the event.
UnsentDataIsArmed ==
    \A e \in End : attr[e].bOpen /\ "DATA" \in Cmds(attr[e].pSendBuff)
                        => attr[e].bWriteEvent

\* A message that waits for the handshake is sent, or its connection is destroyed,
\* or the handshake step has given up: no interleaving of retries, answers, write
\* events and the removal of the write event leaves it waiting for nothing.
WaitEnds ==
    \A c \in Conn :
        (attr[Out(c)].bOpen /\ attr[Out(c)].pWaitForSendBuff # <<>>)
        ~> (\/ ~attr[Out(c)].bOpen
            \/ attr[Out(c)].pWaitForSendBuff = <<>>
            \/ step[c].kind = "given_up")
=============================================================================
