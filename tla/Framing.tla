------------------------------- MODULE Framing -------------------------------
(***************************************************************************)
(* One direction of an established connection, down to the bytes: messages  *)
(* are encoded into pSendBuff (pWaitForSendBuff before the handshake ends), *)
(* written to the socket in pieces, read in other pieces into pRecvBuff and *)
(* cut into messages again.  Either end is a Worker or a Manager, whose code *)
(* differs: link names the two.                                             *)
(*                                                                          *)
(* A byte is <<message, position, length of the body>>; the first HeadSize   *)
(* positions are the MsgHead, which is what tells the length.                *)
(***************************************************************************)
EXTENDS CBuffer

CONSTANTS Links,       \* pairs <<sender, receiver>> of "worker", "manager"
          HeadSize,    \* gc_uiMsgHeadSize, 15
          MaxBody,     \* the largest body Encode takes, 64000000
          Bodies,      \* lengths of bodies
          Keep,        \* a Worker's Compact(8192)
          KeepManager, \* a Manager's Compact(32784)
          SockSize,    \* bytes the socket holds
          MaxMsg,      \* bound: messages
          MaxLate      \* bound: messages, once the handshake's step has given up

ASSUME LinksAssumption == Links \subseteq {"worker", "manager"} \X {"worker", "manager"}
ASSUME FrameAssumption ==
  /\ HeadSize \in Nat \ {0} /\ SockSize \in Nat \ {0}
  /\ MaxBody \in Nat /\ Keep \in Nat /\ KeepManager \in Nat /\ MaxMsg \in Nat /\ MaxLate \in Nat
  /\ Bodies \subseteq Nat

VARIABLES
  link,    \* who sends and who receives
  up,      \* ucConnectStatus is eConnectStatus_ok at the sender
  gaveUp,  \* the handshake's step ended without sending what waits
  wait,    \* pWaitForSendBuff
  send,    \* pSendBuff
  armed,   \* the sender listens for EV_WRITE
  wire,    \* what the socket holds
  recv,    \* pRecvBuff
  conn,    \* the sender's end: "open", "closed"
  rcv,     \* the receiver: "idle", "decoding" (in the loop of RecvDataAndDispose), "closed"
  nMsg,    \* messages taken so far
  got,     \* messages given to Dispose
  stream,  \* history: the bytes of the messages taken, but for those left behind
  eaten,   \* history: the bytes of the messages given to Dispose
  direct,  \* history: the last write left bytes and came from code that never listens
  torn     \* history: an allocation failed and half a message is in a buffer

sending == <<up, gaveUp, wait, send, armed, direct, nMsg, stream>>
receiving == <<recv, rcv, got, eaten>>
vars == <<link, sending, wire, conn, receiving, torn>>

Sender == link[1]
Receiver == link[2]

Least(a, b) == IF a <= b THEN a ELSE b

Bytes(m, n) == [k \in 1 .. HeadSize + n |-> <<m, k, n>>]
HeadBytes(m, n) == SubSeq(Bytes(m, n), 1, HeadSize)
BodyBytes(m, n) == SubSeq(Bytes(m, n), HeadSize + 1, HeadSize + n)

Init ==
  /\ link \in Links
  /\ up \in {TRUE, link # <<"worker", "worker">>}
  /\ wait = CBufferNew /\ send = CBufferNew /\ recv = CBufferNew
  /\ gaveUp = FALSE /\ armed = FALSE /\ direct = FALSE /\ torn = FALSE
  /\ wire = <<>> /\ stream = <<>> /\ eaten = <<>>
  /\ conn = "open" /\ rcv = "idle" /\ nMsg = 0 /\ got = <<>>
-----------------------------------------------------------------------------
(***************************************************************************)
(* Encoding into a buffer: the outcomes [b, ok].                            *)
(***************************************************************************)
Refused(b) == [b |-> b, ok |-> FALSE]

\* Mutant: the head stays when there is no room for the body.
EncodeNoUndo(b, m, n) ==
  IF n > MaxBody THEN {Refused(b)}
  ELSE UNION {IF h.ok /\ n > 0 THEN Write(h.b, BodyBytes(m, n)) ELSE {h} : h \in Write(b, HeadBytes(m, n))}

\* ProtoCodec::Encode: without a body nothing follows the head; the head is taken back
\* when there is no room for the body.
Encode(b, m, n) ==
  IF n > MaxBody THEN {Refused(b)}
  ELSE UNION {IF h.ok /\ n > 0
              THEN {IF w.ok THEN w ELSE Refused(SetWriteIndex(w.b, GetWriteIndex(w.b) - HeadSize)) :
                      w \in Write(h.b, BodyBytes(m, n))}
              ELSE {h} : h \in Write(b, HeadBytes(m, n))}

\* Manager::SendTo: the write index is put back to what it was before the head, though
\* the head may have moved the bytes.
ManagerEncode(b, m, n) ==
  UNION {IF h.ok
         THEN {IF w.ok THEN w ELSE Refused(SetWriteIndex(w.b, GetWriteIndex(b))) :
                 w \in Write(h.b, BodyBytes(m, n))}
         ELSE {Refused(SetWriteIndex(h.b, GetWriteIndex(b)))} : h \in Write(b, HeadBytes(m, n))}

\* SendToParent, SendToWorker: what Write returns is not looked at.
PlainEncode(b, m, n) ==
  UNION {{[b |-> w.b, ok |-> h.ok /\ w.ok] : w \in Write(h.b, BodyBytes(m, n))} : h \in Write(b, HeadBytes(m, n))}
-----------------------------------------------------------------------------
(***************************************************************************)
(* Sending.                                                                *)
(***************************************************************************)
Space == SockSize - Len(wire)

\* How many bytes of b WriteFD may get into the socket: none when there is none, or
\* when the socket is full (EAGAIN).
WriteLens(b) ==
  IF ReadableBytes(b) = 0 \/ Space = 0 THEN {0}
  ELSE 1 .. Least(ReadableBytes(b), Space)

\* Mutant, and what Manager::IoWrite does: the bytes written are compared with what is
\* left after them.
ArmedAfterManager(b, n) ==
  IF ReadableBytes(b) = 0 THEN armed ELSE n = 0 \/ n # ReadableBytes(b) - n

\* The event after SendTo and after a Worker's IoWrite: it stays while bytes are left.
ArmedAfter(b, n) == IF ReadableBytes(b) = 0 THEN armed ELSE n < ReadableBytes(b)

\* WriteFD got n bytes of b into the socket.
Written(b, n) == wire' = wire \o SubSeq(Content(b), 1, n)

Sending == conn = "open" /\ ~ torn
MayTake == Sending /\ nMsg < IF gaveUp THEN MaxLate ELSE MaxMsg

Taken(n) == nMsg' = nMsg + 1 /\ stream' = stream \o Bytes(nMsg + 1, n)

\* A message that is refused; the stream is torn when what was written is not undone.
Rejected(x, tears) ==
  /\ ~ x.ok /\ torn' = tears
  /\ UNCHANGED <<link, up, gaveUp, armed, direct, wire, conn, nMsg, stream, receiving>>

Listening(b, n) == armed' = ArmedAfter(b, n) /\ direct' = FALSE

\* Worker::SendTo.  Before the handshake is over the message waits.
SendTo(n) ==
  /\ MayTake /\ Sender = "worker"
  /\ IF up
     THEN \E x \in Encode(send, nMsg + 1, n) :
            \/ Rejected(x, FALSE) /\ send' = x.b /\ UNCHANGED wait
            \/ /\ x.ok /\ Taken(n)
               /\ \E k \in WriteLens(x.b) :
                    Written(x.b, k) /\ send' = Compact(SkipBytes(x.b, k), Keep) /\ Listening(x.b, k)
               /\ UNCHANGED <<link, up, gaveUp, wait, conn, receiving, torn>>
     ELSE \E x \in Encode(wait, nMsg + 1, n) :
            \/ Rejected(x, FALSE) /\ wait' = x.b /\ UNCHANGED send
            \/ /\ x.ok /\ Taken(n) /\ wait' = x.b
               /\ UNCHANGED <<link, up, gaveUp, send, armed, direct, wire, conn, receiving, torn>>

\* Worker::SendTo(stMsgShell): what waits was written to the end of pSendBuff, giving x.
Flushed(x) ==
  /\ x.ok /\ wait' = SkipBytes(wait, ReadableBytes(wait))
  /\ \E k \in WriteLens(x.b) :
       Written(x.b, k) /\ send' = Compact(SkipBytes(x.b, k), Keep) /\ Listening(x.b, k)

\* The connection is usable and what waits stays where it is: the messages taken from now
\* on go ahead of it.
LeftBehind ==
  /\ up' = TRUE /\ stream' = SubSeq(stream, 1, Len(stream) - ReadableBytes(wait))
  /\ UNCHANGED <<wait, send, armed, direct, wire>>

\* StepTellWorker::Callback: what waits goes first, unless there is no room for it.
Established ==
  /\ Sending /\ ~ up /\ ~ gaveUp
  /\ \E x \in Write(send, Content(wait)) :
       \/ up' = TRUE /\ Flushed(x) /\ UNCHANGED <<gaveUp, stream>>
       \/ ~ x.ok /\ gaveUp' = TRUE /\ LeftBehind
  /\ UNCHANGED <<link, conn, nMsg, receiving, torn>>

\* StepTellWorker::Timeout (StepConnectWorker's is the same), the last one: the connection
\* stays as it is.
GiveUp ==
  /\ Sending /\ ~ up /\ ~ gaveUp /\ gaveUp' = TRUE
  /\ UNCHANGED <<link, up, wait, send, armed, direct, nMsg, stream, wire, conn, receiving, torn>>

\* ProtoCodec::Decode meets an answer to TELL whose step is gone: nobody sends what waits.
LateTell ==
  /\ Sending /\ ~ up /\ gaveUp /\ LeftBehind
  /\ UNCHANGED <<link, gaveUp, conn, nMsg, receiving, torn>>

\* RecvDataAndDispose answers a request that has no handler: one attempt to write, and
\* nobody listens for the rest.
Answer(n) ==
  /\ MayTake /\ up /\ Sender = "worker"
  /\ \E x \in Encode(send, nMsg + 1, n) :
       \/ Rejected(x, FALSE) /\ send' = x.b /\ UNCHANGED wait
       \/ /\ x.ok /\ Taken(n)
          /\ \E k \in WriteLens(x.b) :
               /\ Written(x.b, k) /\ send' = Compact(SkipBytes(x.b, k), Keep)
               /\ direct' = (~ armed /\ k < ReadableBytes(x.b))
          /\ UNCHANGED <<link, up, gaveUp, wait, armed, conn, receiving, torn>>

\* The effect of a PlainEncode: half a message tears the stream, none is none.
TakenIfWhole(n, x) ==
  /\ torn' = (~ x.ok /\ Content(x.b) # Content(send))
  /\ IF x.ok THEN Taken(n) ELSE UNCHANGED <<nMsg, stream>>

\* Worker::SendToParent: like Answer, whatever Write returned.
SendToParent(n) ==
  /\ MayTake /\ link = <<"worker", "manager">>
  /\ \E x \in PlainEncode(send, nMsg + 1, n) :
       /\ TakenIfWhole(n, x)
       /\ \E k \in WriteLens(x.b) :
            /\ Written(x.b, k) /\ send' = Compact(SkipBytes(x.b, k), Keep)
            /\ direct' = (~ armed /\ k < ReadableBytes(x.b))
  /\ UNCHANGED <<link, up, gaveUp, wait, armed, conn, receiving>>

\* Manager::SendToWorker, for each worker.
SendToWorker(n) ==
  /\ MayTake /\ link = <<"manager", "worker">>
  /\ \E x \in PlainEncode(send, nMsg + 1, n) :
       /\ TakenIfWhole(n, x)
       /\ \E k \in WriteLens(x.b) :
            /\ Written(x.b, k) /\ send' = Compact(SkipBytes(x.b, k), KeepManager)
            /\ Listening(x.b, k)
  /\ UNCHANGED <<link, up, gaveUp, wait, conn, receiving>>

\* Manager::SendTo: nothing is compacted, and a failed undo tears the stream.
ManagerSendTo(n) ==
  /\ MayTake /\ Sender = "manager"
  /\ \E x \in ManagerEncode(send, nMsg + 1, n) :
       \/ Rejected(x, Content(x.b) # Content(send)) /\ send' = x.b /\ UNCHANGED wait
       \/ /\ x.ok /\ Taken(n)
          /\ \E k \in WriteLens(x.b) :
               Written(x.b, k) /\ send' = SkipBytes(x.b, k) /\ Listening(x.b, k)
          /\ UNCHANGED <<link, up, gaveUp, wait, conn, receiving, torn>>

\* IoWrite, once the socket has room.  With nothing to write it sends what waits; when there
\* is no room for that, the event comes again.
WorkerIoWrite ==
  /\ Sending /\ armed /\ Space > 0 /\ Sender = "worker"
  /\ \/ /\ ReadableBytes(send) > 0 \/ ReadableBytes(wait) = 0
        /\ \E k \in WriteLens(send) :
             Written(send, k) /\ send' = Compact(SkipBytes(send, k), Keep) /\ Listening(send, k)
        /\ UNCHANGED <<wait, stream>>
     \/ /\ ReadableBytes(send) = 0 /\ ReadableBytes(wait) > 0
        /\ \E x \in Write(Compact(send, Keep), Content(wait)) :
             \/ Flushed(x) /\ stream' = stream \o Content(wait)
             \/ ~ x.ok /\ send' = x.b /\ UNCHANGED <<wait, armed, direct, wire, stream>>
  /\ UNCHANGED <<link, up, gaveUp, nMsg, conn, receiving, torn>>

ManagerIoWrite ==
  /\ Sending /\ armed /\ Space > 0 /\ Sender = "manager"
  /\ \E k \in WriteLens(send) :
       /\ Written(send, k) /\ send' = SkipBytes(send, k)
       /\ armed' = ArmedAfterManager(send, k)
  /\ UNCHANGED <<link, up, gaveUp, wait, direct, nMsg, stream, conn, receiving, torn>>

\* DestroyConnect at the sender: send() or IoRead met an error, or the connection timed
\* out.  A reset takes what the socket still holds, or the end of it.
DestroyConnect ==
  /\ Sending /\ conn' = "closed"
  /\ wait' = CBufferNew /\ send' = CBufferNew /\ armed' = FALSE /\ direct' = FALSE
  /\ \E k \in 0 .. Len(wire) : wire' = SubSeq(wire, 1, k)
  /\ UNCHANGED <<link, up, gaveUp, nMsg, stream, receiving, torn>>

\* DestroyConnect at the receiver, or the end of its process: all that is under way is lost,
\* and the sender's end follows.
ReceiverDestroysConnect ==
  /\ Sending /\ conn' = "closed" /\ rcv' = "closed"
  /\ wait' = CBufferNew /\ send' = CBufferNew /\ recv' = CBufferNew /\ wire' = <<>>
  /\ armed' = FALSE /\ direct' = FALSE
  /\ UNCHANGED <<link, up, gaveUp, nMsg, stream, got, eaten, torn>>
-----------------------------------------------------------------------------
(***************************************************************************)
(* Receiving: RecvDataAndDispose.                                          *)
(***************************************************************************)
\* One ReadFD; a Worker compacts before it.
IoRead ==
  /\ ~ torn /\ rcv = "idle" /\ wire # <<>>
  /\ LET b == IF Receiver = "worker" THEN Compact(recv, Keep) ELSE recv
     IN  \E k \in 1 .. Least(Len(wire), ReadFDMax(b)) : \E x \in ReadFD(b, SubSeq(wire, 1, k)) :
           /\ recv' = x.b /\ wire' = SubSeq(wire, k + 1, Len(wire)) /\ torn' = ~ x.ok
  /\ rcv' = "decoding"
  /\ UNCHANGED <<link, sending, conn, got, eaten>>

\* What parsing these bytes as one message gives.
Parse(s) == IF s = Bytes(s[1][1], s[1][3]) THEN <<s[1][1], s[1][3]>> ELSE <<0, 0>>

\* One iteration of the loop: a message, or the end of the loop when head or body is not
\* complete.  A Manager compacts after each message.
Decode ==
  LET c == Content(recv)
      n == HeadSize + c[1][3]
      rest == SkipBytes(recv, n)
  IN  /\ ~ torn /\ rcv = "decoding"
      /\ IF Len(c) < HeadSize \/ Len(c) < n
         THEN rcv' = "idle" /\ UNCHANGED <<recv, got, eaten>>
         ELSE /\ got' = Append(got, Parse(SubSeq(c, 1, n)))
              /\ eaten' = eaten \o SubSeq(c, 1, n)
              /\ recv' = IF Receiver = "manager" THEN Compact(rest, KeepManager) ELSE rest
              /\ UNCHANGED rcv
      /\ UNCHANGED <<link, sending, wire, conn, torn>>

\* readv returns 0: what is left of a message goes with the connection, but a Worker keeps
\* the one to its Manager.
PeerClosed ==
  /\ ~ torn /\ rcv = "idle" /\ conn = "closed" /\ wire = <<>>
  /\ rcv' = "closed"
  /\ recv' = IF link = <<"manager", "worker">> THEN recv ELSE CBufferNew
  /\ UNCHANGED <<link, sending, wire, conn, got, eaten, torn>>
-----------------------------------------------------------------------------
Next ==
  \/ \E n \in Bodies : SendTo(n) \/ Answer(n) \/ SendToParent(n) \/ ManagerSendTo(n) \/ SendToWorker(n)
  \/ Established \/ GiveUp \/ LateTell
  \/ WorkerIoWrite \/ ManagerIoWrite \/ DestroyConnect \/ ReceiverDestroysConnect
  \/ IoRead \/ Decode \/ PeerClosed

\* libev calls a ready watcher; the handshake's step ends with the answer or its last timeout.
Fairness ==
  /\ WF_vars(Established \/ GiveUp) /\ WF_vars(WorkerIoWrite) /\ WF_vars(ManagerIoWrite)
  /\ WF_vars(IoRead) /\ WF_vars(Decode)

Spec == Init /\ [][Next]_vars
FairSpec == Spec /\ Fairness
-----------------------------------------------------------------------------
Byte == Nat \X Nat \X Nat

TypeOK ==
  /\ link \in Links /\ up \in BOOLEAN /\ gaveUp \in BOOLEAN /\ armed \in BOOLEAN /\ direct \in BOOLEAN /\ torn \in BOOLEAN
  /\ wait \in Buffer(Byte) /\ send \in Buffer(Byte) /\ recv \in Buffer(Byte)
  /\ wire \in Seq(Byte) /\ stream \in Seq(Byte) /\ eaten \in Seq(Byte)
  /\ conn \in {"open", "closed"} /\ rcv \in {"idle", "decoding", "closed"}
  /\ nMsg \in Nat /\ got \in Seq(Nat \X Nat)

(***************************************************************************)
(* However the buffers grow, move, are compacted and give a failed Encode   *)
(* back, the indexes of a CBuffer stay ordered, so that neither memcpy nor   *)
(* readv leaves the allocation.                                             *)
(***************************************************************************)
InBounds == ~ torn => Ordered(wait) /\ Ordered(send) /\ Ordered(recv)

(***************************************************************************)
(* The bytes of the messages taken are, in order, those disposed of, in     *)
(* pRecvBuff, in the socket, in pSendBuff and in pWaitForSendBuff; when the *)
(* connection breaks, the first of them.  Only what the end of the handshake *)
(* left in pWaitForSendBuff is overtaken.                                   *)
(***************************************************************************)
Waiting == IF up THEN <<>> ELSE Content(wait)
Underway == Content(recv) \o wire \o Content(send) \o Waiting

StreamIntact ==
  LET all == eaten \o Underway
  IN  ~ torn => /\ Len(all) <= Len(stream) /\ all = SubSeq(stream, 1, Len(all))
                /\ conn = "open" => all = stream

(***************************************************************************)
(* Bytes a Worker could not write wait for EV_WRITE ("内容未写完，添加或保持监听fd *)
(* 写事件"), except those of the two writers that never listen.               *)
(***************************************************************************)
UnsentIsArmed == ~ torn /\ up /\ Content(send) # <<>> => armed \/ direct
WorkerUnsentIsArmed == Sender = "worker" => UnsentIsArmed

Most == IF MaxLate > MaxMsg THEN MaxLate ELSE MaxMsg

(***************************************************************************)
(* The connection is a channel of whole messages: the messages under way    *)
(* are those whose last byte is.                                            *)
(***************************************************************************)
Ended(s) ==
  LET e == SelectSeq(s, LAMBDA x : x[2] = HeadSize + x[3])
  IN  [i \in 1 .. Len(e) |-> <<e[i][1], e[i][3]>>]

Abstract == INSTANCE MsgChannel WITH
  Msg <- (1 .. Most) \X Bodies,
  queue <- IF torn THEN <<>> ELSE Ended(Underway),
  aside <- IF torn \/ ~ up THEN <<>> ELSE Ended(Content(wait)),
  state <- IF torn THEN "torn" ELSE conn

IsMsgChannel == Abstract!Spec

(***************************************************************************)
(* A message a Worker took is disposed of by the receiver, unless the       *)
(* connection breaks, the handshake ended without sending it, or the rest   *)
(* of it is left by a writer that never listens.                            *)
(***************************************************************************)
Behind(i) == gaveUp /\ \E k \in DOMAIN Content(wait) : Content(wait)[k][1] = i

Delivered ==
  \A i \in 1 .. Most :
    nMsg >= i /\ Sender = "worker" ~>
      (\E k \in DOMAIN got : got[k][1] = i) \/ conn = "closed" \/ torn \/ direct \/ Behind(i)
=============================================================================
