-------------------------- MODULE InnerLinkFlow --------------------------
(***************************************************************************)
(* The steps of InnerLink that send, receive, report and time out, for the   *)
(* invariants CtlInv and FlowInv of InnerLinkProofs, one lemma each, and the  *)
(* theorems: messages arrive once and in order, what is not sent yet has its  *)
(* write event, and a handshake fails by its timeout only.                  *)
(***************************************************************************)
EXTENDS InnerLinkProofs

-----------------------------------------------------------------------------
(* The use of connections, for both invariants. *)

\* The phases of a connection, spelled out.
LEMMA CtlFacts ==
    ASSUME CtlInv, NEW c \in Conn
    PROVE  /\ c \in workerIndex \/ at[c] = "none" =>
                /\ step[c].kind = "none" /\ at[c] \notin {"passed", "worker"} /\ rcvd[In(c)] = <<>>
                /\ wire[Out(c)] = <<>> /\ wire[In(c)] = <<>> /\ attr[Out(c)].pSendBuff = <<>>
                /\ attr[Out(c)].ucConnectStatus # "ok"
           /\ step[c].kind = "connect" =>
                /\ "REQ_TELL" \notin Cmds(wire[Out(c)]) /\ "REQ_TELL" \notin Cmds(attr[Out(c)].pSendBuff)
                /\ "RSP_TELL" \notin Cmds(wire[In(c)]) /\ "RSP_TELL" \notin Cmds(attr[In(c)].pSendBuff)
                /\ attr[Out(c)].bOpen => /\ wire[In(c)] # <<>> => Head(wire[In(c)]).cmd = "RSP_CONNECT"
                                         /\ at[c] \in {"passed", "worker"} => wire[In(c)] # <<>>
           /\ step[c].kind \in {"connect", "tell"} => attr[Out(c)].ucConnectStatus # "ok"
           /\ attr[Out(c)].bOpen /\ attr[Out(c)].ucConnectStatus # "ok" => rcvd[In(c)] = <<>>
           /\ "DATA" \notin Cmds(attr[In(c)].pWaitForSendBuff)
           /\ "RSP_TELL" \notin Cmds(attr[In(c)].pWaitForSendBuff)
           /\ Led(shell, In(c)) => attr[In(c)].ucConnectStatus = "ok"
           /\ attr[Out(c)].bWriteEvent /\ attr[Out(c)].pSendBuff = <<>> => c \in workerIndex
           /\ Arm(attr[Out(c)]) /\ Arm(attr[In(c)])
  <1>1. Ctl(c \in workerIndex, at[c], step[c].kind, rcvd[In(c)], wire[Out(c)],
            wire[In(c)], attr[Out(c)], attr[In(c)], Led(shell, In(c)))
    BY Zenon DEF CtlInv
  <1> QED
    BY Zenon, <1>1 DEF Ctl, Unbegun, InConnect, InStep, InEnd, OutEvent

\* SendTo at the initiator's end.
LEMMA OutSendTo ==
    ASSUME IInv, FInv, NEW c \in Conn, NEW e \in End, e = Out(c), attr[e].bOpen, Aside(e),
           workerIndex' = workerIndex,
           NEW r \in Attr, r.bOpen, r.pSendBuff = attr[e].pSendBuff,
           r.pWaitForSendBuff = attr[e].pWaitForSendBuff, r.bWriteEvent = attr[e].bWriteEvent,
           r.ucConnectStatus = "ok" <=> attr[e].ucConnectStatus = "ok",
           NEW m \in Msg, m.cmd # "RSP_TELL",
           m.cmd = "DATA" => m.id = nMsg + 1 /\ nMsg' = nMsg + 1,
           m.cmd # "DATA" => nMsg' = nMsg,
           NEW y \in Seq(Msg), ReadBy(e, y), NEW net, net = [wire EXCEPT ![Other(e)] = y],
           SendTo(e, r, shell, net, m),
           c \in workerIndex => /\ step'[c].kind = step[c].kind /\ y = wire[In(c)]
                                /\ m.cmd \notin HandshakeCmd,
           step'[c].kind = "connect" => /\ step[c].kind = "connect" /\ y = wire[In(c)]
                                        /\ m.cmd # "REQ_TELL",
           step'[c].kind = "tell" => step[c].kind \in {"connect", "tell"},
           rcvd' = rcvd
    PROVE  FInv'
  <1>t. TypeOK /\ CtlInv /\ FlowInv /\ nMsg \in Nat
    BY Zenon, Parts
  <1>1. PICK b : b = Encode(r, m)
    BY Zenon
  <1>2. /\ b \in Attr /\ b.bOpen /\ b.bWriteEvent = r.bWriteEvent
        /\ Waits(r, m) => b.pSendBuff = r.pSendBuff /\ b.ucConnectStatus = r.ucConnectStatus
        /\ ~Waits(r, m) =>
              /\ Cmds(b.pSendBuff) = Cmds(r.pSendBuff) \cup {m.cmd} /\ b.pSendBuff # <<>>
              /\ b.ucConnectStatus = IF r.ucConnectStatus = "ok" \/ m.cmd = "RSP_TELL"
                                     THEN "ok" ELSE "connecting"
    BY Zenon, <1>1, EncodeFacts
  <1>3. Waits(r, m) <=> r.ucConnectStatus # "ok" /\ m.cmd \notin HandshakeCmd
    BY Zenon DEF Waits
  <1>4. b.ucConnectStatus = "ok" <=> attr[e].ucConnectStatus = "ok"
    BY Zenon, <1>2
  <1>5. c \in workerIndex => b.pSendBuff = <<>> /\ b.ucConnectStatus # "ok" /\ y = <<>>
    BY Zenon, <1>t, <1>2, <1>3, CtlFacts
  <1>6. step'[c].kind = "connect" => "REQ_TELL" \notin Cmds(b.pSendBuff)
    BY <1>t, <1>2, CtlFacts
  <1>7. step'[c].kind \in {"connect", "tell"} => b.ucConnectStatus # "ok"
    BY Zenon, <1>t, <1>4, CtlFacts
  <1>8. b.bWriteEvent /\ b.pSendBuff = <<>> => c \in workerIndex
    BY Zenon, <1>t, <1>2, CtlFacts
  <1>9. Arm(r)
    BY Zenon, <1>t, CtlFacts DEF Arm
  <1>10. /\ Line(rcvd[Other(e)], wire[e], b.pSendBuff, b.pWaitForSendBuff)
         /\ Sent(rcvd[Other(e)], wire[e], b.pSendBuff, b.pWaitForSendBuff)
                  \subseteq SentBy(e) \cup (nMsg + 1)..nMsg'
    BY Zenon, <1>t, <1>1, EncodeFlow
  <1>11. nMsg' \in Nat /\ nMsg <= nMsg'
    BY <1>t
  <1>12. CASE PeerGone(e) /\ DestroyConnect(e, shell)
    <2>1. CtlInv'
      <3>1. \A w \in Worker : shell[w] \in {shell[w], e}
        BY Zenon
      <3> QED
        BY Zenon, <1>t, <1>12, <3>1, DestroyOutCtl
    <2>2. FlowInv'
      BY Zenon, <1>t, <1>11, <1>12, DestroyFlow
    <2> QED
      BY Zenon, <2>1, <2>2 DEF FInv
  <1>13. ASSUME NEW x, NEW q, Wrote(e, b, y, shell, x, q)
         PROVE  FInv'
    <2>1. CtlInv'
      <3>1. \A w \in Worker : shell[w] \in {shell[w], e}
        BY Zenon
      <3>2. c \in workerIndex' => /\ c \in workerIndex /\ step'[c].kind = step[c].kind
                                 /\ b.pSendBuff = <<>> /\ b.ucConnectStatus # "ok" /\ y = <<>>
        BY Zenon, <1>5
      <3>3. step'[c].kind = "connect" => /\ step[c].kind = "connect" \/ c \in workerIndex
                                        /\ y = wire[In(c)]
                                        /\ "REQ_TELL" \notin Cmds(b.pSendBuff)
        BY Zenon, <1>6
      <3>4. b.ucConnectStatus # "ok" => attr[e].ucConnectStatus # "ok"
        BY Zenon, <1>4
      <3>5. b.bWriteEvent /\ b.pSendBuff = <<>> => c \in workerIndex'
        BY Zenon, <1>8
      <3> QED
        BY Zenon, <1>t, <1>2, <1>7, <1>13, <3>1, <3>2, <3>3, <3>4, <3>5, OutWroteCtl
    <2>2. FlowInv'
      BY Zenon, <1>t, <1>2, <1>10, <1>11, <1>13, WroteFlow DEF Wrote
    <2> QED
      BY Zenon, <2>1, <2>2 DEF FInv
  <1> QED
    BY Zenon, <1>t, <1>1, <1>9, <1>12, <1>13, SendToWrote

\* SendTo at the acceptor's end.
LEMMA InSendTo ==
    ASSUME IInv, FInv, NEW c \in Conn, NEW e \in End, e = In(c), attr[e].bOpen,
           UNCHANGED <<at, step, workerIndex, rcvd>>,
           NEW r \in Attr, r.pSendBuff = attr[e].pSendBuff,
           r.pWaitForSendBuff = attr[e].pWaitForSendBuff, r.bWriteEvent = attr[e].bWriteEvent,
           r.ucConnectStatus = "ok" <=> attr[e].ucConnectStatus = "ok",
           NEW m \in Msg,
           m.cmd = "DATA" => m.id = nMsg + 1 /\ nMsg' = nMsg + 1,
           m.cmd # "DATA" => nMsg' = nMsg,
           NEW y \in Seq(Msg), ReadBy(e, y), Cmds(y) \subseteq Cmds(wire[Out(c)]),
           NEW net, net = [wire EXCEPT ![Other(e)] = y],
           NEW sh, \A w \in Worker : sh[w] \in {shell[w], e}, SendTo(e, r, sh, net, m),
           m.cmd = "DATA" => r.ucConnectStatus = "ok",
           Led(sh, e) => attr[e].ucConnectStatus = "ok" \/ m.cmd = "RSP_TELL",
           step[c].kind = "connect" => m.cmd # "RSP_TELL"
    PROVE  FInv'
  <1>t. TypeOK /\ CtlInv /\ FlowInv /\ nMsg \in Nat /\ Aside(e)
    BY Zenon, Parts DEF IInv, Aside
  <1>1. PICK b : b = Encode(r, m)
    BY Zenon
  <1>2. /\ b \in Attr /\ b.bWriteEvent = r.bWriteEvent
        /\ Waits(r, m) => b.pSendBuff = r.pSendBuff /\ b.ucConnectStatus = r.ucConnectStatus
        /\ ~Waits(r, m) =>
              /\ Cmds(b.pSendBuff) = Cmds(r.pSendBuff) \cup {m.cmd} /\ b.pSendBuff # <<>>
              /\ b.ucConnectStatus = IF r.ucConnectStatus = "ok" \/ m.cmd = "RSP_TELL"
                                     THEN "ok" ELSE "connecting"
    BY Zenon, <1>1, EncodeFacts
  <1>3. Waits(r, m) <=> r.ucConnectStatus # "ok" /\ m.cmd \notin HandshakeCmd
    BY Zenon DEF Waits
  <1>4. m.cmd = "RSP_TELL" => ~Waits(r, m)
    BY Zenon, <1>3 DEF HandshakeCmd
  <1>5. "DATA" \notin Cmds(b.pWaitForSendBuff) /\ "RSP_TELL" \notin Cmds(b.pWaitForSendBuff)
    <2>1. /\ "DATA" \notin Cmds(r.pWaitForSendBuff) /\ "RSP_TELL" \notin Cmds(r.pWaitForSendBuff)
          /\ r.pWaitForSendBuff \in Seq(Msg)
      BY Zenon, <1>t, CtlFacts DEF Attr
    <2>2. CASE Waits(r, m)
      <3>1. b.pWaitForSendBuff = Append(r.pWaitForSendBuff, m) /\ m.cmd # "DATA" /\ m.cmd # "RSP_TELL"
        BY Zenon, <1>1, <1>3, <1>4, <2>2, EncodeBuffers
      <3>2. Cmds(Append(r.pWaitForSendBuff, m)) = Cmds(r.pWaitForSendBuff) \cup {m.cmd}
        BY Zenon, <2>1, CmdsAppend
      <3> QED
        BY Zenon, <2>1, <3>1, <3>2
    <2>3. CASE ~Waits(r, m)
      BY Zenon, <1>1, <2>1, <2>3, EncodeBuffers
    <2> QED
      BY Zenon, <2>2, <2>3
  <1>6. Led(sh, e) => b.ucConnectStatus = "ok"
    BY Zenon, <1>2, <1>4
  <1>7. step[c].kind = "connect" => "RSP_TELL" \notin Cmds(b.pSendBuff)
    BY <1>t, <1>2, CtlFacts
  <1>9. Arm(r)
    BY Zenon, <1>t, CtlFacts DEF Arm
  <1>10. /\ Line(rcvd[Other(e)], wire[e], b.pSendBuff, b.pWaitForSendBuff)
         /\ Sent(rcvd[Other(e)], wire[e], b.pSendBuff, b.pWaitForSendBuff)
                  \subseteq SentBy(e) \cup (nMsg + 1)..nMsg'
    BY ZenonT(60), <1>t, <1>1, EncodeFlow
  <1>11. nMsg' \in Nat /\ nMsg <= nMsg'
    BY <1>t
  <1>12. CASE PeerGone(e) /\ DestroyConnect(e, sh)
    <2>1. CtlInv'
      BY Zenon, <1>t, <1>12, DestroyInCtl
    <2>2. FlowInv'
      BY Zenon, <1>t, <1>11, <1>12, DestroyFlow
    <2> QED
      BY Zenon, <2>1, <2>2 DEF FInv
  <1>13. ASSUME NEW x, NEW q, Wrote(e, b, y, sh, x, q)
         PROVE  FInv'
    <2>0. /\ Pushed(wire[e], PeerGone(e), b, x, q) /\ Arm(q)
          /\ attr' = [attr EXCEPT ![e] = q] /\ wire' = [wire EXCEPT ![e] = x, ![Other(e)] = y]
          /\ shell' = sh
      BY Zenon, <1>13 DEF Wrote, Rearmed
    <2>1. CtlInv'
      <3>1. /\ Led(shell', e) => b.ucConnectStatus = "ok"
            /\ \A w \in Worker : shell'[w] \in {shell[w], e}
            /\ attr[Out(c)].bOpen /\ attr[Out(c)].ucConnectStatus # "ok" => rcvd'[e] = rcvd[e]
        BY Zenon, <1>6, <2>0
      <3> QED
        BY Zenon, <1>t, <1>2, <1>5, <1>7, <2>0, <3>1, InWroteCtl
    <2>2. FlowInv'
      BY Zenon, <1>t, <1>2, <1>10, <1>11, <2>0, WroteFlow
    <2> QED
      BY Zenon, <2>1, <2>2 DEF FInv
  <1> QED
    BY Zenon, <1>t, <1>1, <1>9, <1>12, <1>13, SendToWrote

\* SendTo over a published shell.
LEMMA SendFlow ==
    ASSUME IInv, FInv, NEW w \in Worker, Send(w), shell[w] # NoShell
    PROVE  FInv'
  <1>1. PICK e : e = shell[w]
    BY Zenon
  <1>2. e \in End /\ attr[e].bOpen /\ attr[e] \in Attr /\ nMsg \in Nat
    BY <1>1, BoundAssumption DEF IInv, TypeOK, ShellIsLive
  <1>3. /\ SendTo(e, attr[e], shell, wire, Data(nMsg + 1)) /\ nMsg' = nMsg + 1
        /\ UNCHANGED <<at, initiator, workerIndex, step, rcvd>>
    BY Zenon, <1>1 DEF Send
  <1>4. PICK m : m = Data(nMsg + 1)
    BY Zenon
  <1>5. m \in Msg /\ m.cmd = "DATA" /\ m.id = nMsg + 1 /\ m.cmd \notin HandshakeCmd
    <2>1. nMsg + 1 \in 0..MaxMsg
      BY <1>2, BoundAssumption DEF Send
    <2>2. m.id = nMsg + 1
      BY Zenon, <1>4 DEF Data
    <2> QED
      BY Zenon, <1>4, <2>1, <2>2, MessageFacts
  <1>6. Aside(e)
    BY Zenon, <1>3 DEF Aside
  <1>7. PICK y : y = wire[Other(e)]
    BY Zenon
  <1>8. y \in Seq(Msg) /\ wire = [wire EXCEPT ![Other(e)] = y] /\ ReadBy(e, y)
    BY Zenon, <1>2, <1>3, <1>7, AsItStands DEF ReadBy
  <1>9. SendTo(e, attr[e], shell, wire, m)
    BY Zenon, <1>3, <1>4
  <1>10. CASE e[2] = "out"
    <2>1. PICK c \in Conn : e = Out(c) /\ Other(e) = In(c)
      BY Zenon, <1>2, <1>10, EndFacts
    <2>2. /\ c \in workerIndex => step'[c].kind = step[c].kind /\ y = wire[In(c)] /\ m.cmd \notin HandshakeCmd
          /\ step'[c].kind = "connect" => step[c].kind = "connect" /\ y = wire[In(c)] /\ m.cmd # "REQ_TELL"
          /\ step'[c].kind = "tell" => step[c].kind \in {"connect", "tell"}
          /\ m.cmd # "RSP_TELL"
      BY Zenon, <1>3, <1>5, <1>7, <2>1
    <2> QED
      BY Zenon, <1>2, <1>3, <1>5, <1>6, <1>8, <1>9, <2>1, <2>2, OutSendTo
  <1>11. CASE e[2] = "in"
    <2>1. PICK c \in Conn : e = In(c) /\ Other(e) = Out(c)
      BY Zenon, <1>2, <1>11, EndFacts
    <2>2. attr[e].ucConnectStatus = "ok"
      BY Zenon, <1>1, <2>1, CtlFacts DEF Led, FInv
    <2>3. /\ \A v \in Worker : shell[v] \in {shell[v], e}
          /\ Cmds(y) \subseteq Cmds(wire[Out(c)]) /\ m.cmd # "RSP_TELL"
      BY Zenon, <1>5, <1>7, <2>1
    <2> QED
      BY ZenonT(60), <1>2, <1>3, <1>5, <1>8, <1>9, <2>1, <2>2, <2>3, InSendTo
  <1> QED
    BY Zenon, <1>2, <1>10, <1>11, EndFacts DEF Side

\* A step at one endpoint that keeps its buffers as they are, then writes from pSendBuff.
LEMMA KeepStep ==
    ASSUME IInv, FInv, NEW e \in End, attr[e].bOpen, Aside(e),
           UNCHANGED <<step, workerIndex, nMsg>>,
           NEW r \in Attr, r.bOpen, r.pSendBuff = attr[e].pSendBuff,
           r.pWaitForSendBuff = attr[e].pWaitForSendBuff, r.bWriteEvent = attr[e].bWriteEvent,
           attr[e].ucConnectStatus = "ok" => r.ucConnectStatus = "ok",
           e[2] = "out" /\ (e[1] \in workerIndex \/ step[e[1]].kind \in {"connect", "tell"}) =>
               (r.ucConnectStatus = "ok" => attr[e].ucConnectStatus = "ok"),
           NEW y \in Seq(Msg), ReadBy(e, y), Cmds(y) \subseteq Cmds(wire[Other(e)]),
           e[2] = "out" /\ (e[1] \in workerIndex \/ step[e[1]].kind = "connect") =>
               y = wire[In(e[1])],
           attr[Out(e[1])].bOpen /\ attr[Out(e[1])].ucConnectStatus # "ok" => rcvd'[In(e[1])] = rcvd[In(e[1])],
           NEW x, NEW q, Wrote(e, r, y, shell, x, q)
    PROVE  FInv'
  <1>t. TypeOK /\ CtlInv /\ FlowInv /\ nMsg \in Nat
    BY Zenon, Parts
  <1>0. /\ Pushed(wire[e], PeerGone(e), r, x, q) /\ Arm(q)
        /\ attr' = [attr EXCEPT ![e] = q] /\ wire' = [wire EXCEPT ![e] = x, ![Other(e)] = y]
        /\ shell' = shell
    BY Zenon DEF Wrote, Rearmed
  <1>1. FlowInv'
    <2>1. /\ Line(rcvd[Other(e)], wire[e], r.pSendBuff, r.pWaitForSendBuff)
          /\ Sent(rcvd[Other(e)], wire[e], r.pSendBuff, r.pWaitForSendBuff) = SentBy(e)
      BY Zenon, <1>t DEF FlowInv, InOrder, SentBy
    <2>2. Sent(rcvd[Other(e)], wire[e], r.pSendBuff, r.pWaitForSendBuff)
               \subseteq SentBy(e) \cup (nMsg + 1)..nMsg'
      BY Zenon, <2>1
    <2>3. nMsg' \in Nat /\ nMsg <= nMsg'
      BY <1>t
    <2> QED
      BY Zenon, <1>t, <1>0, <2>1, <2>2, <2>3, WroteFlow
  <1>2. \A w \in Worker : shell[w] \in {shell[w], e}
    BY Zenon
  <1>3. CASE e[2] = "out"
    <2>1. PICK c \in Conn : e = Out(c) /\ Other(e) = In(c) /\ c = e[1]
      BY Zenon, <1>3, EndFacts
    <2>2. /\ c \in workerIndex' => /\ c \in workerIndex /\ step'[c].kind = step[c].kind
                                   /\ r.pSendBuff = <<>> /\ r.ucConnectStatus # "ok" /\ y = <<>>
          /\ step'[c].kind = "connect" => /\ step[c].kind = "connect" \/ c \in workerIndex
                                          /\ y = wire[In(c)]
                                          /\ "REQ_TELL" \notin Cmds(r.pSendBuff)
          /\ step'[c].kind \in {"connect", "tell"} => r.ucConnectStatus # "ok"
          /\ r.ucConnectStatus # "ok" => attr[e].ucConnectStatus # "ok"
          /\ r.bWriteEvent /\ r.pSendBuff = <<>> => c \in workerIndex'
      BY <1>t, <1>3, <2>1, CtlFacts
    <2>3. CtlInv'
      BY Zenon, <1>t, <1>2, <2>1, <2>2, OutWroteCtl
    <2> QED
      BY Zenon, <1>1, <2>3 DEF FInv
  <1>4. CASE e[2] = "in"
    <2>1. PICK c \in Conn : e = In(c) /\ Other(e) = Out(c) /\ c = e[1]
      BY Zenon, <1>4, EndFacts
    <2>2. /\ "DATA" \notin Cmds(r.pWaitForSendBuff) /\ "RSP_TELL" \notin Cmds(r.pWaitForSendBuff)
          /\ Led(shell', e) => r.ucConnectStatus = "ok"
          /\ step[c].kind = "connect" => "RSP_TELL" \notin Cmds(r.pSendBuff)
          /\ attr[Out(c)].bOpen /\ attr[Out(c)].ucConnectStatus # "ok" => rcvd'[e] = rcvd[e]
          /\ Cmds(y) \subseteq Cmds(wire[Out(c)])
          /\ \A w \in Worker : shell'[w] \in {shell[w], e}
          /\ step' = step /\ workerIndex' = workerIndex
      BY Zenon, <1>t, <1>0, <1>2, <1>4, <2>1, CtlFacts
    <2>3. CtlInv'
      BY ZenonT(60), <1>t, <1>0, <2>1, <2>2, InWroteCtl
    <2> QED
      BY Zenon, <1>1, <2>3 DEF FInv
  <1> QED
    BY Zenon, <1>3, <1>4, EndFacts DEF Side

\* DestroyConnect on its own.
LEMMA DestroyFInv ==
    ASSUME IInv, FInv, NEW e \in End, attr[e].bOpen, DestroyConnect(e, shell),
           UNCHANGED <<at, step, workerIndex, rcvd, nMsg>>
    PROVE  FInv'
  <1>t. TypeOK /\ CtlInv /\ FlowInv /\ nMsg' \in Nat /\ nMsg <= nMsg' /\ Aside(e)
    BY BoundAssumption DEF IInv, FInv, TypeOK, Aside
  <1>1. \A w \in Worker : shell[w] \in {shell[w], e}
    BY Zenon
  <1>2. CtlInv'
    <2>1. /\ e[2] = "in" => step' = step /\ workerIndex' = workerIndex /\ rcvd' = rcvd
          /\ e[1] \in workerIndex' => e[1] \in workerIndex /\ step'[e[1]].kind = step[e[1]].kind
          /\ step'[e[1]].kind = "connect" => step[e[1]].kind = "connect" \/ e[1] \in workerIndex
      BY Zenon
    <2> QED
      BY Zenon, <1>t, <1>1, <2>1, DestroyCtl
  <1>3. FlowInv'
    BY Zenon, <1>t, DestroyFlow
  <1> QED
    BY Zenon, <1>2, <1>3 DEF FInv

LEMMA PeerClosedFlow ==
    ASSUME IInv, FInv, NEW e \in End, PeerClosed(e)
    PROVE  FInv'
  BY Zenon, DestroyFInv DEF PeerClosed, counters

\* Nothing is pushed.
LEMMA Idle ==
    ASSUME NEW w \in Seq(Msg), NEW gone, NEW q \in Attr
    PROVE  Pushed(w, gone, q, w, q)
  <1>1. /\ SubSeq(q.pSendBuff, 1, 0) = <<>> /\ SubSeq(q.pSendBuff, 1, Len(q.pSendBuff)) = q.pSendBuff
        /\ w \o <<>> = w /\ 0 \in 0..Len(q.pSendBuff)
    BY DEF Attr
  <1> QED
    BY <1>1 DEF Pushed

\* A connection whose timer or status changed, nothing written.
LEMMA KeepOnly ==
    ASSUME TypeOK, NEW e \in End, NEW r \in Attr, Arm(r), NEW y,
           attr' = [attr EXCEPT ![e] = r], wire' = [wire EXCEPT ![Other(e)] = y], shell' = shell
    PROVE  Wrote(e, r, y, shell, wire[e], r)
  <1>1. wire[e] \in Seq(Msg) /\ wire = [wire EXCEPT ![e] = wire[e]]
    BY Zenon DEF TypeOK
  <1>2. [wire EXCEPT ![Other(e)] = y] = [wire EXCEPT ![e] = wire[e], ![Other(e)] = y]
    BY Zenon, EndFacts DEF TypeOK
  <1>3. Pushed(wire[e], PeerGone(e), r, wire[e], r)
    BY Zenon, <1>1, Idle
  <1>4. Rearmed(r, r)
    BY Zenon DEF Rearmed
  <1> QED
    BY Zenon, <1>2, <1>3, <1>4 DEF Wrote

\* A write event on a connection with data to send.
LEMMA IoWriteSendFlow ==
    ASSUME IInv, FInv, NEW e \in End, IoWriteSend(e)
    PROVE  FInv'
  <1>1. /\ attr[e].bOpen /\ WriteFD(e, attr[e], shell, wire, 1)
        /\ UNCHANGED <<at, step, workerIndex, rcvd, nMsg>>
    BY Zenon DEF IoWriteSend, counters
  <1>2. PICK r, y : r = attr[e] /\ y = wire[Other(e)]
    BY Zenon
  <1>3. /\ TypeOK /\ r \in Attr /\ y \in Seq(Msg) /\ wire = [wire EXCEPT ![Other(e)] = y]
        /\ Aside(e) /\ ReadBy(e, y) /\ 1 \in Nat
    BY Zenon, <1>1, <1>2, AsItStands DEF IInv, Aside, ReadBy
  <1>4. WriteFD(e, r, shell, wire, 1)
    BY Zenon, <1>1, <1>2
  <1>5. CASE PeerGone(e) /\ DestroyConnect(e, shell)
    BY Zenon, <1>1, <1>5, DestroyFInv
  <1>6. ASSUME NEW x, NEW q, Wrote(e, r, y, shell, x, q)
        PROVE  FInv'
    <2>1. /\ e[2] = "out" => y = wire[In(e[1])]
          /\ rcvd'[In(e[1])] = rcvd[In(e[1])]
          /\ UNCHANGED <<step, workerIndex, nMsg>>
      BY Zenon, <1>1, <1>2, EndFacts
    <2> QED
      BY Zenon, <1>1, <1>2, <1>3, <1>6, <2>1, KeepStep
  <1> QED
    BY Zenon, <1>3, <1>4, <1>5, <1>6, WriteFDWrote

\* A heartbeat, or the answer to one.
LEMMA BeatFlow ==
    ASSUME IInv, FInv, NEW e \in End, attr[e].bOpen,
           UNCHANGED <<at, step, workerIndex, rcvd, nMsg>>,
           NEW r \in Attr, r.bOpen, r.pSendBuff = attr[e].pSendBuff,
           r.pWaitForSendBuff = attr[e].pWaitForSendBuff, r.bWriteEvent = attr[e].bWriteEvent,
           r.ucConnectStatus = "ok" <=> attr[e].ucConnectStatus = "ok",
           NEW m \in Msg, m.cmd \in {"REQ_BEAT", "RSP_BEAT"},
           NEW y \in Seq(Msg), ReadBy(e, y), Cmds(y) \subseteq Cmds(wire[Other(e)]),
           e[2] = "out" /\ (e[1] \in workerIndex \/ step[e[1]].kind = "connect") =>
               y = wire[In(e[1])],
           NEW net, net = [wire EXCEPT ![Other(e)] = y], SendTo(e, r, shell, net, m)
    PROVE  FInv'
  <1>1. Aside(e) /\ m.cmd # "DATA" /\ m.cmd # "RSP_TELL" /\ m.cmd \notin HandshakeCmd /\ m.cmd # "REQ_TELL"
    BY Zenon DEF Aside, HandshakeCmd
  <1>2. CASE e[2] = "out"
    <2>1. PICK c \in Conn : e = Out(c) /\ Other(e) = In(c) /\ c = e[1]
      BY Zenon, <1>2, EndFacts
    <2>2. /\ c \in workerIndex => step'[c].kind = step[c].kind /\ y = wire[In(c)] /\ m.cmd \notin HandshakeCmd
          /\ step'[c].kind = "connect" => step[c].kind = "connect" /\ y = wire[In(c)] /\ m.cmd # "REQ_TELL"
          /\ step'[c].kind = "tell" => step[c].kind \in {"connect", "tell"}
          /\ workerIndex' = workerIndex /\ rcvd' = rcvd /\ nMsg' = nMsg
      BY Zenon, <1>1, <1>2, <2>1
    <2> QED
      BY Zenon, <1>1, <2>1, <2>2, OutSendTo
  <1>3. CASE e[2] = "in"
    <2>1. PICK c \in Conn : e = In(c) /\ Other(e) = Out(c)
      BY Zenon, <1>3, EndFacts
    <2>2. /\ \A v \in Worker : shell[v] \in {shell[v], e}
          /\ Cmds(y) \subseteq Cmds(wire[Out(c)]) /\ nMsg' = nMsg
          /\ Led(shell, e) => attr[e].ucConnectStatus = "ok"
      BY Zenon, <2>1, CtlFacts DEF FInv
    <2> QED
      BY Zenon, <1>1, <2>1, <2>2, InSendTo
  <1> QED
    BY Zenon, <1>2, <1>3, EndFacts DEF Side

LEMMA IoTimeoutFlow ==
    ASSUME IInv, FInv, NEW e \in End, IoTimeout(e)
    PROVE  FInv'
  <1>1. PICK r, y, m : r = [attr[e] EXCEPT !.timer = "beat"] /\ y = wire[Other(e)] /\ m = M("REQ_BEAT")
    BY Zenon
  <1>2. attr[e] \in Attr /\ attr[e].bOpen /\ UNCHANGED <<at, step, workerIndex, rcvd, nMsg>>
    BY Zenon, AsItStands DEF IoTimeout
  <1>3. /\ r \in Attr /\ r.bOpen /\ r.pSendBuff = attr[e].pSendBuff
        /\ r.pWaitForSendBuff = attr[e].pWaitForSendBuff /\ r.bWriteEvent = attr[e].bWriteEvent
        /\ r.ucConnectStatus = attr[e].ucConnectStatus
    BY Zenon, <1>1, <1>2 DEF Attr
  <1>4. SendTo(e, r, shell, wire, m)
    BY Zenon, <1>1 DEF IoTimeout
  <1>5. m \in Msg /\ m.cmd \in {"REQ_BEAT", "RSP_BEAT"}
    BY Zenon, <1>1, MessageFacts
  <1>6. /\ y \in Seq(Msg) /\ wire = [wire EXCEPT ![Other(e)] = y] /\ ReadBy(e, y)
        /\ Cmds(y) \subseteq Cmds(wire[Other(e)]) /\ (e[2] = "out" => y = wire[In(e[1])])
    BY Zenon, <1>1, <1>2, AsItStands, EndFacts DEF ReadBy
  <1> QED
    BY Zenon, <1>2, <1>3, <1>4, <1>5, <1>6, BeatFlow

LEMMA BeatTimeoutFlow ==
    ASSUME IInv, FInv, NEW e \in End, BeatTimeout(e)
    PROVE  FInv'
  <1>1. /\ attr[e] \in Attr /\ attr[e].bOpen /\ UNCHANGED <<at, step, workerIndex, rcvd, nMsg>>
        /\ TypeOK /\ CtlInv
    BY Zenon, AsItStands DEF BeatTimeout, counters, IInv, FInv
  <1>2. CASE attr[e].bInner
    <2>1. PICK r, y : r = [attr[e] EXCEPT !.timer = "off"] /\ y = wire[Other(e)]
      BY Zenon
    <2>2. /\ r \in Attr /\ r.bOpen /\ r.pSendBuff = attr[e].pSendBuff
          /\ r.pWaitForSendBuff = attr[e].pWaitForSendBuff /\ r.bWriteEvent = attr[e].bWriteEvent
          /\ r.ucConnectStatus = attr[e].ucConnectStatus
      BY Zenon, <1>1, <2>1 DEF Attr
    <2>3. attr' = [attr EXCEPT ![e] = r] /\ wire' = wire /\ shell' = shell
      BY Zenon, <1>2, <2>1 DEF BeatTimeout
    <2>4. /\ y \in Seq(Msg) /\ wire' = [wire EXCEPT ![Other(e)] = y] /\ ReadBy(e, y) /\ Aside(e)
          /\ Cmds(y) \subseteq Cmds(wire[Other(e)]) /\ (e[2] = "out" => y = wire[In(e[1])])
      BY Zenon, <1>1, <2>1, <2>3, AsItStands, EndFacts DEF ReadBy, Aside
    <2>5. Arm(attr[e])
      BY Zenon, <1>1, CtlFacts, EndFacts DEF Side
    <2>6. Arm(r)
      BY Zenon, <2>2, <2>5 DEF Arm
    <2>7. Wrote(e, r, y, shell, wire[e], r)
      BY Zenon, <1>1, <2>2, <2>3, <2>4, <2>6, KeepOnly
    <2>8. rcvd'[In(e[1])] = rcvd[In(e[1])] /\ UNCHANGED <<step, workerIndex, nMsg>>
      BY Zenon, <1>1
    <2> QED
      BY Zenon, <1>1, <2>2, <2>4, <2>7, <2>8, KeepStep
  <1>3. CASE ~attr[e].bInner
    <2>1. DestroyConnect(e, shell)
      BY Zenon, <1>3 DEF BeatTimeout
    <2> QED
      BY Zenon, <1>1, <2>1, DestroyFInv
  <1> QED
    BY Zenon, <1>2, <1>3

\* What the initiator can read: nothing before the handshake has begun, and first the
\* Manager's answer.
LEMMA ReadAtOut ==
    ASSUME CtlInv, NEW c \in Conn, NEW cmd, CanRead(Out(c), cmd)
    PROVE  c \notin workerIndex /\ (cmd # "RSP_CONNECT" => step[c].kind # "connect")
  <1>1. attr[Out(c)].bOpen /\ wire[In(c)] # <<>> /\ Head(wire[In(c)]).cmd = cmd
    BY Zenon, EndFacts DEF CanRead, Incoming
  <1> QED
    BY Zenon, <1>1, CtlFacts

\* What reading and decoding leave as they are.
LEMMA ReadKeeps ==
    ASSUME IInv, NEW e \in End, NEW cmd, CanRead(e, cmd)
    PROVE  /\ attr[e].bOpen /\ wire[Other(e)] # <<>> /\ Head(wire[Other(e)]).cmd = cmd
           /\ Decoded(e).pWaitForSendBuff = attr[e].pWaitForSendBuff
           /\ rcvd' = rcvd => ReadBy(e, Tail(wire[Other(e)]))
  <1>1. attr[e] \in Attr /\ attr[e].bOpen /\ wire[Other(e)] # <<>> /\ Head(wire[Other(e)]).cmd = cmd
    BY Zenon, AsItStands DEF CanRead, Incoming
  <1>2. Decoded(e).pWaitForSendBuff = attr[e].pWaitForSendBuff
    BY Zenon, <1>1 DEF Decoded, Decode, Attr
  <1>3. rcvd' = rcvd => ReadBy(e, Tail(wire[Other(e)]))
    BY Zenon, <1>1 DEF ReadBy
  <1> QED
    BY Zenon, <1>1, <1>2, <1>3

\* Reading a message without an answer.
LEMMA AbsorbFlow ==
    ASSUME IInv, FInv, NEW e \in End, NEW cmd, CanRead(e, cmd),
           cmd = "RSP_TELL" => e[2] = "out" /\ step[e[1]].kind \notin {"connect", "tell"},
           cmd = "RSP_CONNECT" => e[2] = "out" /\ step[e[1]].kind # "connect",
           NEW q \in Attr, q.bOpen, q.pSendBuff = Decoded(e).pSendBuff,
           q.pWaitForSendBuff = Decoded(e).pWaitForSendBuff,
           q.bWriteEvent = Decoded(e).bWriteEvent, q.ucConnectStatus = Decoded(e).ucConnectStatus,
           Absorb(e, q), UNCHANGED <<at, step, workerIndex, nMsg>>,
           \/ rcvd' = rcvd
           \/ cmd = "DATA" /\ rcvd' = [rcvd EXCEPT ![e] = Append(@, Incoming(e).id)]
    PROVE  FInv'
  <1>t. TypeOK /\ CtlInv
    BY Zenon DEF IInv, FInv
  <1>1. PICK y : y = Tail(wire[Other(e)])
    BY Zenon
  <1>2. /\ y \in Seq(Msg) /\ Cmds(y) \subseteq Cmds(wire[Other(e)]) /\ cmd \in Cmds(wire[Other(e)])
        /\ Read(e) = [wire EXCEPT ![Other(e)] = y]
        /\ q.pSendBuff = attr[e].pSendBuff /\ q.bWriteEvent = attr[e].bWriteEvent
        /\ q.ucConnectStatus = "ok" <=> attr[e].ucConnectStatus = "ok" \/ cmd = "RSP_TELL"
    BY Zenon, <1>1, ReadFacts
  <1>3. /\ attr[e].bOpen /\ wire[Other(e)] # <<>> /\ Head(wire[Other(e)]).cmd = cmd
        /\ q.pWaitForSendBuff = attr[e].pWaitForSendBuff
    BY Zenon, ReadKeeps
  <1>4. ReadBy(e, y) /\ Aside(e)
    BY Zenon, <1>t, <1>1, <1>3 DEF ReadBy, Aside, Incoming, TypeOK
  <1>5. Arm(attr[e])
    BY Zenon, <1>t, CtlFacts, EndFacts DEF Side
  <1>6. Arm(q)
    BY Zenon, <1>2, <1>5 DEF Arm
  <1>7. Wrote(e, q, y, shell, wire[e], q)
    <2>1. attr' = [attr EXCEPT ![e] = q] /\ wire' = [wire EXCEPT ![Other(e)] = y] /\ shell' = shell
      BY Zenon, <1>2 DEF Absorb
    <2> QED
      BY Zenon, <1>t, <1>6, <2>1, KeepOnly
  <1>8. e[2] = "out" => e[1] \notin workerIndex /\ step[e[1]].kind # "connect"
    <2> SUFFICES ASSUME e[2] = "out" PROVE e[1] \notin workerIndex /\ step[e[1]].kind # "connect"
      BY Zenon
    <2>1. PICK c \in Conn : e = Out(c) /\ c = e[1]
      BY Zenon, EndFacts
    <2> QED
      BY Zenon, <1>t, <2>1, ReadAtOut
  <1>9. /\ attr[e].ucConnectStatus = "ok" => q.ucConnectStatus = "ok"
        /\ e[2] = "out" /\ (e[1] \in workerIndex \/ step[e[1]].kind \in {"connect", "tell"}) =>
               (q.ucConnectStatus = "ok" => attr[e].ucConnectStatus = "ok")
        /\ e[2] = "out" /\ (e[1] \in workerIndex \/ step[e[1]].kind = "connect") =>
               y = wire[In(e[1])]
    BY Zenon, <1>2, <1>8
  <1>10. attr[Out(e[1])].bOpen /\ attr[Out(e[1])].ucConnectStatus # "ok" => rcvd'[In(e[1])] = rcvd[In(e[1])]
    <2>1. CASE rcvd' = rcvd
      BY Zenon, <2>1
    <2>2. CASE cmd = "DATA" /\ e[2] = "in"
      <3>1. Out(e[1]) \in End /\ Other(e) = Out(e[1])
        BY Zenon, <2>2, EndFacts
      <3> QED
        BY Zenon, <1>2, <2>2, <3>1 DEF IInv, Established
    <2>3. CASE e[2] = "out"
      <3>1. In(e[1]) \in End /\ In(e[1]) # e
        BY Zenon, <2>3, EndFacts
      <3> QED
        BY Zenon, <1>4, <3>1 DEF Aside
    <2> QED
      BY Zenon, <2>1, <2>2, <2>3, EndFacts DEF Side
  <1>11. UNCHANGED <<step, workerIndex, nMsg>>
    BY Zenon
  <1> QED
    BY Zenon, <1>2, <1>3, <1>4, <1>7, <1>9, <1>10, <1>11, KeepStep

LEMMA RecvRspBeatFlow ==
    ASSUME IInv, FInv, NEW e \in End, RecvRspBeat(e)
    PROVE  FInv'
  <1>1. PICK q : q = [Decoded(e) EXCEPT !.timer = IF @ = "beat" THEN "armed" ELSE @]
    BY Zenon
  <1>2. CanRead(e, "RSP_BEAT") /\ Absorb(e, q) /\ UNCHANGED <<at, step, workerIndex, nMsg>> /\ rcvd' = rcvd
    BY Zenon, <1>1 DEF RecvRspBeat, counters
  <1>3. Decoded(e) \in Attr /\ Decoded(e).bOpen
    BY Zenon, <1>2, ReadFacts
  <1>4. /\ q \in Attr /\ q.bOpen /\ q.pSendBuff = Decoded(e).pSendBuff
        /\ q.pWaitForSendBuff = Decoded(e).pWaitForSendBuff
        /\ q.ucConnectStatus = Decoded(e).ucConnectStatus
        /\ q.bWriteEvent = Decoded(e).bWriteEvent
    BY Zenon, <1>1, <1>3 DEF Attr
  <1>5. "RSP_BEAT" # "RSP_TELL" /\ "RSP_BEAT" # "RSP_CONNECT"
    BY Zenon
  <1> QED
    BY Zenon, <1>2, <1>4, <1>5, AbsorbFlow

LEMMA RecvDataFlow ==
    ASSUME IInv, FInv, NEW e \in End, RecvData(e)
    PROVE  FInv'
  <1>1. /\ CanRead(e, "DATA") /\ Absorb(e, Decoded(e)) /\ UNCHANGED <<at, step, workerIndex, nMsg>>
        /\ rcvd' = [rcvd EXCEPT ![e] = Append(@, Incoming(e).id)]
    BY Zenon DEF RecvData, counters
  <1>2. "DATA" # "RSP_TELL" /\ "DATA" # "RSP_CONNECT"
    BY Zenon
  <1>3. Decoded(e) \in Attr /\ Decoded(e).bOpen
    BY Zenon, <1>1, <1>2, ReadFacts
  <1> QED
    BY Zenon, <1>1, <1>2, <1>3, AbsorbFlow

\* The answer of a worker that was sent CONNECT finds no StepConnectWorker waiting.
LEMMA RecvSysErrorFlow ==
    ASSUME IInv, FInv, NEW c \in Conn, RecvSysError(c)
    PROVE  FInv' /\ step' = step
  <1>1. PICK e : e = Out(c)
    BY Zenon
  <1>2. /\ CanRead(e, "RSP_SYS_ERROR") /\ Absorb(e, Decoded(e)) /\ UNCHANGED <<at, workerIndex, nMsg>>
        /\ rcvd' = rcvd /\ step' = [step EXCEPT ![c] = IF @.kind = "connect" THEN GivenUp ELSE @]
    BY Zenon, <1>1 DEF RecvSysError, counters
  <1>3. step[c].kind # "connect"
    BY <1>1, <1>2, ReadAtOut DEF FInv
  <1>4. step' = step
    BY Zenon, <1>2, <1>3 DEF IInv, TypeOK
  <1>5. "RSP_SYS_ERROR" # "RSP_TELL" /\ "RSP_SYS_ERROR" # "RSP_CONNECT" /\ e \in End
    BY Zenon, <1>1, EndFacts
  <1>6. Decoded(e) \in Attr /\ Decoded(e).bOpen
    BY Zenon, <1>2, <1>5, ReadFacts
  <1>7. UNCHANGED <<at, step, workerIndex, nMsg>>
    BY Zenon, <1>2, <1>4
  <1>8. FInv'
    BY Zenon, <1>2, <1>5, <1>6, <1>7, AbsorbFlow
  <1> QED
    BY Zenon, <1>4, <1>8

LEMMA RecvReqBeatFlow ==
    ASSUME IInv, FInv, NEW e \in End, RecvReqBeat(e)
    PROVE  FInv'
  <1>1. PICK r, y, m : r = Decoded(e) /\ y = Tail(wire[Other(e)]) /\ m = M("RSP_BEAT")
    BY Zenon
  <1>2. CanRead(e, "REQ_BEAT") /\ UNCHANGED <<at, step, workerIndex, rcvd, nMsg>>
    BY Zenon DEF RecvReqBeat, counters
  <1>3. "REQ_BEAT" # "RSP_TELL" /\ "REQ_BEAT" # "RSP_CONNECT" /\ rcvd' = rcvd
    BY Zenon, <1>2
  <1>4. /\ r \in Attr /\ r.bOpen /\ r.pSendBuff = attr[e].pSendBuff
        /\ r.bWriteEvent = attr[e].bWriteEvent
        /\ r.ucConnectStatus = "ok" <=> attr[e].ucConnectStatus = "ok"
        /\ Read(e) = [wire EXCEPT ![Other(e)] = y]
        /\ y \in Seq(Msg) /\ Cmds(y) \subseteq Cmds(wire[Other(e)])
    BY Zenon, <1>1, <1>2, <1>3, ReadFacts
  <1>5. attr[e].bOpen /\ r.pWaitForSendBuff = attr[e].pWaitForSendBuff /\ ReadBy(e, y)
    BY Zenon, <1>1, <1>2, <1>3, ReadKeeps
  <1>6. m \in Msg /\ m.cmd \in {"REQ_BEAT", "RSP_BEAT"}
    BY Zenon, <1>1, MessageFacts
  <1>7. e[2] = "out" => e[1] \notin workerIndex /\ step[e[1]].kind # "connect"
    <2> SUFFICES ASSUME e[2] = "out" PROVE e[1] \notin workerIndex /\ step[e[1]].kind # "connect"
      BY Zenon
    <2>1. PICK c \in Conn : e = Out(c) /\ c = e[1]
      BY Zenon, EndFacts
    <2> QED
      BY Zenon, <1>2, <1>3, <2>1, ReadAtOut DEF FInv
  <1>8. SendTo(e, r, shell, Read(e), m)
    BY Zenon, <1>1 DEF RecvReqBeat
  <1> QED
    BY Zenon, <1>2, <1>4, <1>5, <1>6, <1>7, <1>8, BeatFlow

\* A step of another connection does not change this one's.
LEMMA AsideStep ==
    ASSUME IInv, NEW c \in Conn, NEW s, step' = [step EXCEPT ![c] = s],
           UNCHANGED <<at, workerIndex, rcvd>>
    PROVE  Aside(Out(c)) /\ step'[c] = s
  <1>1. Out(c)[1] = c
    BY Zenon DEF Out
  <1> QED
    BY Zenon, <1>1 DEF Aside, IInv, TypeOK

LEMMA StepAt ==
    ASSUME IInv, NEW c \in Conn, NEW s, step' = [step EXCEPT ![c] = s]
    PROVE  step'[c] = s /\ \A d \in Conn : d # c => step'[d] = step[d]
  BY Zenon DEF IInv, TypeOK

LEMMA RecvRspConnectFlow ==
    ASSUME IInv, FInv, NEW c \in Conn, RecvRspConnect(c)
    PROVE  FInv'
  <1>0. PICK e \in End : e = Out(c)
    BY Zenon, EndFacts
  <1>1. PICK r, y, m : r = Decoded(e) /\ y = Tail(wire[Other(e)]) /\ m = M("REQ_TELL")
    BY Zenon
  <1>2. /\ CanRead(e, "RSP_CONNECT") /\ UNCHANGED <<at, workerIndex, rcvd, nMsg>>
        /\ e \in End /\ e[1] = c /\ e[2] = "out" /\ "RSP_CONNECT" # "RSP_TELL" /\ c \notin workerIndex
        /\ rcvd' = rcvd
    BY Zenon, <1>0, EndFacts, ReadAtOut DEF RecvRspConnect, counters, Out, FInv
  <1>3. CanRead(e, "RSP_CONNECT") /\ e \in End /\ "RSP_CONNECT" # "RSP_TELL"
    BY Zenon, <1>2
  <1>4. /\ r \in Attr /\ r.bOpen /\ r.pSendBuff = attr[e].pSendBuff
        /\ r.bWriteEvent = attr[e].bWriteEvent
        /\ r.ucConnectStatus = "ok" <=> attr[e].ucConnectStatus = "ok"
        /\ Read(e) = [wire EXCEPT ![Other(e)] = y]
        /\ y \in Seq(Msg)
    BY <1>1, <1>3, ReadFacts
  <1>5. attr[e].bOpen /\ r.pWaitForSendBuff = attr[e].pWaitForSendBuff /\ ReadBy(e, y)
    BY Zenon, <1>1, <1>2, ReadKeeps
  <1>6. m \in Msg /\ m.cmd = "REQ_TELL"
    BY Zenon, <1>1, MessageFacts
  <1>7. CASE step[c].kind = "connect"
    <2>1. /\ step' = [step EXCEPT ![c] = [kind |-> "tell", iTimeoutNum |-> 0]]
          /\ SendTo(e, r, shell, Read(e), m)
      BY Zenon, <1>0, <1>1, <1>7 DEF RecvRspConnect
    <2>2. Aside(e) /\ step'[c] = [kind |-> "tell", iTimeoutNum |-> 0]
      BY Zenon, <1>0, <1>2, <2>1, AsideStep
    <2>3. /\ c \in workerIndex => step'[c].kind = step[c].kind /\ y = wire[In(c)] /\ m.cmd \notin HandshakeCmd
          /\ step'[c].kind = "connect" => step[c].kind = "connect" /\ y = wire[In(c)] /\ m.cmd # "REQ_TELL"
          /\ step'[c].kind = "tell" => step[c].kind \in {"connect", "tell"}
          /\ workerIndex' = workerIndex /\ nMsg' = nMsg
          /\ m.cmd # "DATA" /\ m.cmd # "RSP_TELL"
      BY <1>2, <1>6, <1>7, <2>2
    <2> QED
      BY Zenon, <1>0, <1>2, <1>4, <1>5, <1>6, <2>1, <2>2, <2>3, OutSendTo
  <1>8. CASE step[c].kind # "connect"
    <2>1. Absorb(e, r) /\ UNCHANGED <<at, step, workerIndex, nMsg>>
      BY Zenon, <1>0, <1>1, <1>2, <1>8 DEF RecvRspConnect
    <2> QED
      BY Zenon, <1>1, <1>2, <1>4, <1>8, <2>1, AbsorbFlow
  <1> QED
    BY Zenon, <1>7, <1>8

LEMMA ReadRest ==
    ASSUME IInv, NEW e \in End, NEW cmd, CanRead(e, cmd), cmd # "RSP_TELL", rcvd' = rcvd
    PROVE  \E r, y :
             /\ r = Decoded(e) /\ y = Tail(wire[Other(e)]) /\ attr[e].bOpen
             /\ r \in Attr /\ r.bOpen /\ r.pSendBuff = attr[e].pSendBuff
             /\ r.pWaitForSendBuff = attr[e].pWaitForSendBuff /\ r.bWriteEvent = attr[e].bWriteEvent
             /\ r.ucConnectStatus = "ok" <=> attr[e].ucConnectStatus = "ok"
             /\ Read(e) = [wire EXCEPT ![Other(e)] = y] /\ y \in Seq(Msg) /\ ReadBy(e, y)
             /\ Cmds(y) \subseteq Cmds(wire[Other(e)]) /\ cmd \in Cmds(wire[Other(e)])
  <1>1. PICK r, y : r = Decoded(e) /\ y = Tail(wire[Other(e)])
    BY Zenon
  <1>2. /\ r \in Attr /\ r.bOpen /\ r.pSendBuff = attr[e].pSendBuff
        /\ r.bWriteEvent = attr[e].bWriteEvent
        /\ r.ucConnectStatus = "ok" <=> attr[e].ucConnectStatus = "ok"
        /\ Read(e) = [wire EXCEPT ![Other(e)] = y] /\ y \in Seq(Msg)
        /\ Cmds(y) \subseteq Cmds(wire[Other(e)]) /\ cmd \in Cmds(wire[Other(e)])
    BY <1>1, ReadFacts
  <1>3. attr[e].bOpen /\ r.pWaitForSendBuff = attr[e].pWaitForSendBuff /\ ReadBy(e, y)
    BY Zenon, <1>1, ReadKeeps
  <1> QED
    BY Zenon, <1>1, <1>2, <1>3

\* TELL at the accepting worker: a connection on which TELL is under way is not waiting for
\* the Manager any more.
LEMMA RecvReqTellFlow ==
    ASSUME IInv, FInv, NEW c \in Conn, RecvReqTell(c)
    PROVE  FInv'
  <1>0. PICK e \in End : e = In(c)
    BY Zenon, EndFacts
  <1>2. /\ CanRead(e, "REQ_TELL") /\ UNCHANGED <<at, step, workerIndex, rcvd>> /\ nMsg' = nMsg
        /\ "REQ_TELL" # "RSP_TELL" /\ rcvd' = rcvd /\ Other(e) = Out(c)
    BY Zenon, <1>0, EndFacts DEF RecvReqTell, counters
  <1>3. PICK p, y :
          /\ p = Decoded(e) /\ y = Tail(wire[Other(e)]) /\ attr[e].bOpen
          /\ p \in Attr /\ p.bOpen /\ p.pSendBuff = attr[e].pSendBuff
          /\ p.pWaitForSendBuff = attr[e].pWaitForSendBuff /\ p.bWriteEvent = attr[e].bWriteEvent
          /\ p.ucConnectStatus = "ok" <=> attr[e].ucConnectStatus = "ok"
          /\ Read(e) = [wire EXCEPT ![Other(e)] = y] /\ y \in Seq(Msg) /\ ReadBy(e, y)
          /\ Cmds(y) \subseteq Cmds(wire[Other(e)]) /\ "REQ_TELL" \in Cmds(wire[Other(e)])
    BY Zenon, <1>2, ReadRest
  <1>1. PICK r, m, sh : /\ r = [p EXCEPT !.bInner = TRUE] /\ m = M("RSP_TELL")
                        /\ sh = [shell EXCEPT ![Owner(e)] = e]
    BY Zenon
  <1>5. /\ r \in Attr /\ r.bOpen /\ r.pSendBuff = attr[e].pSendBuff
        /\ r.pWaitForSendBuff = attr[e].pWaitForSendBuff /\ r.bWriteEvent = attr[e].bWriteEvent
        /\ r.ucConnectStatus = "ok" <=> attr[e].ucConnectStatus = "ok"
    BY Zenon, <1>1, <1>3 DEF Attr
  <1>6. m \in Msg /\ m.cmd = "RSP_TELL" /\ m.cmd # "DATA"
    BY Zenon, <1>1, MessageFacts
  <1>7. SendTo(e, r, sh, Read(e), m)
    BY Zenon, <1>0, <1>1, <1>3 DEF RecvReqTell
  <1>8. \A w \in Worker : sh[w] \in {shell[w], e}
    BY Zenon, <1>1 DEF IInv, TypeOK
  <1>9. step[c].kind # "connect"
    BY Zenon, <1>2, <1>3, CtlFacts DEF FInv
  <1>10. Cmds(y) \subseteq Cmds(wire[Out(c)])
    BY Zenon, <1>2, <1>3
  <1> QED
    BY ZenonT(60), <1>0, <1>2, <1>3, <1>5, <1>6, <1>7, <1>8, <1>9, <1>10, InSendTo

\* A step that only moves the retry counter, or is given up.
LEMMA GiveUpFlow ==
    ASSUME FInv, UNCHANGED <<attr, wire, shell, at, workerIndex, rcvd, nMsg>>,
           \A d \in Conn : step'[d].kind = step[d].kind
                          \/ (step[d].kind \in {"connect", "tell"} /\ step'[d].kind = "given_up")
    PROVE  FInv'
  <1>1. FlowInv'
    BY Zenon DEF FInv, FlowInv, InOrder, SentBy
  <1>3. CtlInv'
    <2> SUFFICES ASSUME NEW d \in Conn
                 PROVE  Ctl(d \in workerIndex, at[d], step'[d].kind, rcvd[In(d)], wire[Out(d)],
                            wire[In(d)], attr[Out(d)], attr[In(d)], Led(shell, In(d)))
      BY Zenon DEF CtlInv, Led
    <2>1. PICK idx, a, kind, rin, wo, wi, ao, ai, led, kind2 :
            /\ idx = (d \in workerIndex) /\ a = at[d] /\ kind = step[d].kind /\ rin = rcvd[In(d)]
            /\ wo = wire[Out(d)] /\ wi = wire[In(d)] /\ ao = attr[Out(d)] /\ ai = attr[In(d)]
            /\ led = Led(shell, In(d)) /\ kind2 = step'[d].kind
      BY Zenon
    <2>2. Ctl(idx, a, kind, rin, wo, wi, ao, ai, led)
      BY Zenon, <2>1 DEF CtlInv, FInv
    <2>3. kind2 = kind \/ (kind \in {"connect", "tell"} /\ kind2 = "given_up")
      BY Zenon, <2>1
    <2>4. Ctl(idx, a, kind2, rin, wo, wi, ao, ai, led)
      BY Zenon, <2>2, <2>3 DEF Ctl, Unbegun, InConnect, InStep
    <2> QED
      BY Zenon, <2>1, <2>4
  <1> QED
    BY Zenon, <1>1, <1>3 DEF FInv

LEMMA StepTimeoutFlow ==
    ASSUME IInv, FInv, NEW c \in Conn, StepTimeout(c)
    PROVE  FInv'
  <1>0. PICK e, r, y, m, s : /\ e = Out(c) /\ r = attr[e] /\ y = wire[Other(e)] /\ m = M(StepCmd(step[c].kind))
                             /\ s = [step[c] EXCEPT !.iTimeoutNum = @ + 1]
    BY Zenon
  <1>1. /\ step[c].kind \in {"connect", "tell"} /\ UNCHANGED <<at, workerIndex, rcvd, nMsg>>
        /\ step[c] \in Step /\ s.kind = step[c].kind
        /\ step' = [step EXCEPT ![c].iTimeoutNum = @ + 1] => step' = [step EXCEPT ![c] = s]
    BY Zenon, <1>0 DEF StepTimeout, counters, IInv, TypeOK, Step
  <1>2. CASE MayRetry(c) /\ attr[e].bOpen
    <2>1. step' = [step EXCEPT ![c] = s] /\ SendTo(e, r, shell, wire, m)
      BY Zenon, <1>0, <1>1, <1>2 DEF StepTimeout
    <2>2. m \in Msg /\ m.cmd = StepCmd(step[c].kind)
      BY Zenon, <1>0, <1>1, MessageFacts DEF StepCmd
    <2>3. /\ m.cmd # "DATA" /\ m.cmd # "RSP_TELL" /\ (step[c].kind = "connect" => m.cmd # "REQ_TELL")
      BY Zenon, <1>1, <2>2 DEF StepCmd
    <2>4. Aside(e) /\ step'[c] = s
      BY Zenon, <1>0, <1>1, <2>1, AsideStep
    <2>5. /\ e \in End /\ Other(e) = In(c) /\ r \in Attr /\ y \in Seq(Msg) /\ ReadBy(e, y)
          /\ wire = [wire EXCEPT ![Other(e)] = y]
      BY Zenon, <1>0, <1>1, EndFacts, AsItStands DEF ReadBy
    <2>6. c \notin workerIndex
      BY Zenon, <1>1, CtlFacts DEF FInv
    <2>7. /\ c \in workerIndex => step'[c].kind = step[c].kind /\ y = wire[In(c)] /\ m.cmd \notin HandshakeCmd
          /\ step'[c].kind = "connect" => step[c].kind = "connect" /\ y = wire[In(c)] /\ m.cmd # "REQ_TELL"
          /\ step'[c].kind = "tell" => step[c].kind \in {"connect", "tell"}
          /\ workerIndex' = workerIndex /\ nMsg' = nMsg /\ rcvd' = rcvd
      BY Zenon, <1>0, <1>1, <2>3, <2>4, <2>5, <2>6
    <2> QED
      BY Zenon, <1>0, <1>2, <2>1, <2>2, <2>3, <2>4, <2>5, <2>7, OutSendTo
  <1>3. CASE ~(MayRetry(c) /\ attr[e].bOpen)
    <2>1. /\ UNCHANGED <<attr, wire, shell, at, workerIndex, rcvd, nMsg>>
          /\ step' = [step EXCEPT ![c] = s] \/ step' = [step EXCEPT ![c] = GivenUp]
      BY Zenon, <1>0, <1>1, <1>3 DEF StepTimeout
    <2>2. GivenUp.kind = "given_up"
      BY Zenon DEF GivenUp
    <2>3. PICK t : step' = [step EXCEPT ![c] = t] /\ (t = s \/ t = GivenUp)
      BY Zenon, <2>1
    <2>4. \A d \in Conn : step'[d].kind = step[d].kind
                          \/ (step[d].kind \in {"connect", "tell"} /\ step'[d].kind = "given_up")
      <3>1. step'[c] = t /\ \A d \in Conn : d # c => step'[d] = step[d]
        BY Zenon, <2>3, StepAt
      <3> QED
        BY Zenon, <1>1, <2>2, <2>3, <3>1
    <2> QED
      BY Zenon, <2>1, <2>4, GiveUpFlow
  <1> QED
    BY Zenon, <1>2, <1>3

\* A message that is not application data, encoded behind pSendBuff.
LEMMA AppendFlow ==
    ASSUME TypeOK, FlowInv, NEW e \in End, NEW m \in Msg, m.cmd # "DATA", NEW P, NEW W,
           P = attr[e].pSendBuff, W = attr[e].pWaitForSendBuff
    PROVE  /\ Line(rcvd[Other(e)], wire[e], Append(P, m), W)
           /\ Sent(rcvd[Other(e)], wire[e], Append(P, m), W) \subseteq SentBy(e)
  <1>1. PICK R, X : R = rcvd[Other(e)] /\ X = wire[e]
    BY Zenon
  <1>2. X \in Seq(Msg) /\ P \in Seq(Msg) /\ W \in Seq(Msg)
    BY Zenon, <1>1 DEF TypeOK, Attr
  <1>3. Line(R, X, P, W) /\ SentBy(e) = Sent(R, X, P, W)
    BY Zenon, <1>1 DEF FlowInv, InOrder, SentBy
  <1>4. Before(Sent(R, X, P, W), New(m)) /\ New(m) = {}
    BY Zenon DEF Before, New
  <1>5. Line(R, X, Append(P, m), W)
    BY Zenon, <1>2, <1>3, <1>4, LineAppend
  <1>6. Sent(R, X, Append(P, m), W) \subseteq Sent(R, X, P, W) \cup New(m)
    BY Zenon, <1>2, <1>3, <1>4, LineAppend
  <1>7. PICK S, T : S = Sent(R, X, Append(P, m), W) /\ T = Sent(R, X, P, W)
    BY Zenon
  <1>8. S \subseteq T
    BY Zenon, <1>4, <1>6, <1>7
  <1> QED
    BY Zenon, <1>1, <1>3, <1>5, <1>7, <1>8

\* The waiting messages moved behind pSendBuff: nothing waits, or nothing was sent yet.
LEMMA FlushFlow ==
    ASSUME TypeOK, FlowInv, NEW e \in End, NEW P, NEW W,
           P = attr[e].pSendBuff, W = attr[e].pWaitForSendBuff,
           \/ "DATA" \notin Cmds(W)
           \/ rcvd[Other(e)] = <<>> /\ "DATA" \notin Cmds(wire[e]) /\ "DATA" \notin Cmds(P)
    PROVE  /\ Line(rcvd[Other(e)], wire[e], P \o W, <<>>)
           /\ Sent(rcvd[Other(e)], wire[e], P \o W, <<>>) \subseteq SentBy(e)
  <1>1. PICK R, X : R = rcvd[Other(e)] /\ X = wire[e]
    BY Zenon
  <1>2. X \in Seq(Msg) /\ P \in Seq(Msg) /\ W \in Seq(Msg)
    BY Zenon, <1>1 DEF TypeOK, Attr
  <1>3. Line(R, X, P, W) /\ SentBy(e) = Sent(R, X, P, W)
    BY Zenon, <1>1 DEF FlowInv, InOrder, SentBy
  <1>4. Ids(W) = {} \/ (Elems(R) = {} /\ Ids(X) = {} /\ Ids(P) = {})
    BY Zenon, <1>1, <1>2, IdsNone, IdsEmpty
  <1>5. Line(R, X, P \o W, <<>>)
    BY Zenon, <1>2, <1>3, <1>4, LineFlush
  <1>6. Sent(R, X, P \o W, <<>>) \subseteq Sent(R, X, P, W)
    BY Zenon, <1>2, <1>3, <1>4, LineFlush
  <1> QED
    BY Zenon, <1>1, <1>3, <1>5, <1>6

\* What SendTo(shell) makes of a connection before it writes.
LEMMA FlushBuffers ==
    ASSUME NEW p \in Attr, NEW r, r = Flush(p)
    PROVE  /\ r \in Attr /\ r.bOpen = p.bOpen /\ r.ucConnectStatus = p.ucConnectStatus
           /\ r.bWriteEvent = p.bWriteEvent
           /\ r.pSendBuff = p.pSendBuff \o p.pWaitForSendBuff /\ r.pWaitForSendBuff = <<>>
           /\ p.pSendBuff # <<>> => r.pSendBuff # <<>>
           /\ Cmds(r.pSendBuff) = Cmds(p.pSendBuff) \cup Cmds(p.pWaitForSendBuff)
  <1>1. p.pSendBuff \in Seq(Msg) /\ p.pWaitForSendBuff \in Seq(Msg)
    BY Zenon DEF Attr
  <1>2. PICK b : b = p.pSendBuff \o p.pWaitForSendBuff
    BY Zenon
  <1>3. b \in Seq(Msg) /\ <<>> \in Seq(Msg) /\ (p.pSendBuff # <<>> => b # <<>>)
        /\ Cmds(b) = Cmds(p.pSendBuff) \cup Cmds(p.pWaitForSendBuff)
    BY <1>1, <1>2, CmdsConcat
  <1>4. r = [p EXCEPT !.pSendBuff = b, !.pWaitForSendBuff = <<>>]
    BY Zenon, <1>2 DEF Flush
  <1>5. /\ r \in Attr /\ r.bOpen = p.bOpen /\ r.ucConnectStatus = p.ucConnectStatus
        /\ r.bWriteEvent = p.bWriteEvent /\ r.pSendBuff = b /\ r.pWaitForSendBuff = <<>>
    BY Zenon, <1>3, <1>4 DEF Attr
  <1> QED
    BY Zenon, <1>2, <1>3, <1>5

\* What a write carries into the kernel.
LEMMA CarryWire ==
    ASSUME TypeOK, NEW e \in End, NEW y, NEW net, net = [wire EXCEPT ![Other(e)] = y], NEW ms,
           wire' = Carry(net, e, ms)
    PROVE  wire' = [wire EXCEPT ![e] = IF PeerGone(e) THEN <<>> ELSE wire[e] \o ms, ![Other(e)] = y]
  BY ZenonT(30), EndFacts DEF Carry, TypeOK

\* A write of the first k messages, whatever becomes of the write event.
LEMMA WrittenEvent ==
    ASSUME NEW r \in Attr, NEW k \in 0..Len(r.pSendBuff), NEW ev \in BOOLEAN,
           NEW w, NEW gone, NEW x, x = IF gone THEN <<>> ELSE w \o SubSeq(r.pSendBuff, 1, k)
    PROVE  /\ Pushed(w, gone, r, x, [Written(r, k) EXCEPT !.bWriteEvent = ev])
           /\ [Written(r, k) EXCEPT !.bWriteEvent = ev].bWriteEvent = ev
  <1>3. PICK p, q : p = Written(r, k) /\ q = [p EXCEPT !.bWriteEvent = ev]
    BY Zenon
  <1>4. /\ p \in Attr /\ p.bOpen = r.bOpen /\ p.ucConnectStatus = r.ucConnectStatus
        /\ p.pWaitForSendBuff = r.pWaitForSendBuff
        /\ p.pSendBuff = SubSeq(r.pSendBuff, k + 1, Len(r.pSendBuff))
    BY Zenon, <1>3, WrittenPushed
  <1>5. /\ q \in Attr /\ q.bOpen = p.bOpen /\ q.ucConnectStatus = p.ucConnectStatus
        /\ q.pWaitForSendBuff = p.pWaitForSendBuff /\ q.pSendBuff = p.pSendBuff /\ q.bWriteEvent = ev
    BY Zenon, <1>3, <1>4 DEF Attr
  <1>6. Pushed(w, gone, r, x, q)
    BY Zenon, <1>4, <1>5 DEF Pushed
  <1> QED
    BY Zenon, <1>3, <1>5, <1>6

\* The answer to TELL: what waited is the first application data of the connection.
LEMMA RecvRspTellFlow ==
    ASSUME IInv, FInv, NEW c \in Conn, RecvRspTell(c)
    PROVE  FInv'
  <1>0. PICK e \in End : e = Out(c) /\ Other(e) = In(c) /\ e[1] = c /\ e[2] = "out"
    BY Zenon, EndFacts DEF Out
  <1>t. TypeOK /\ CtlInv /\ FlowInv /\ nMsg \in Nat
    BY Zenon, Parts
  <1>2. /\ CanRead(e, "RSP_TELL") /\ UNCHANGED <<at, workerIndex, rcvd, nMsg>> /\ rcvd' = rcvd
        /\ workerIndex' = workerIndex
    BY Zenon, <1>0 DEF RecvRspTell, counters
  <1>3. c \notin workerIndex /\ step[c].kind # "connect"
    BY <1>0, <1>2, <1>t, ReadAtOut
  <1>1. PICK p, y : p = Decoded(e) /\ y = Tail(wire[Other(e)])
    BY Zenon
  <1>4. /\ p \in Attr /\ p.bOpen /\ p.pSendBuff = attr[e].pSendBuff
        /\ p.bWriteEvent = attr[e].bWriteEvent /\ p.ucConnectStatus = "ok"
        /\ Read(e) = [wire EXCEPT ![Other(e)] = y] /\ y \in Seq(Msg)
    <2>1. "RSP_TELL" = "RSP_TELL" => e[2] = "out"
      BY Zenon, <1>0
    <2> QED
      BY Zenon, <1>1, <1>2, <2>1, ReadFacts
  <1>5. attr[e].bOpen /\ p.pWaitForSendBuff = attr[e].pWaitForSendBuff /\ ReadBy(e, y)
    BY Zenon, <1>1, <1>2, ReadKeeps
  <1>6. CASE step[c].kind = "tell"
    <2>1. PICK sh, r : sh = [shell EXCEPT ![Owner(e)] = e] /\ r = Flush(p)
      BY Zenon
    <2>2. step' = [step EXCEPT ![c] = NoStep] /\ WriteFD(e, r, sh, Read(e), 0)
      BY Zenon, <1>0, <1>1, <1>6, <2>1 DEF RecvRspTell
    <2>3. /\ r \in Attr /\ r.bOpen = p.bOpen /\ r.ucConnectStatus = "ok"
          /\ r.bWriteEvent = attr[e].bWriteEvent
          /\ r.pSendBuff = attr[e].pSendBuff \o attr[e].pWaitForSendBuff /\ r.pWaitForSendBuff = <<>>
          /\ attr[e].pSendBuff # <<>> => r.pSendBuff # <<>>
      <3>1. /\ r \in Attr /\ r.bOpen = p.bOpen /\ r.ucConnectStatus = p.ucConnectStatus
            /\ r.bWriteEvent = p.bWriteEvent
            /\ r.pSendBuff = p.pSendBuff \o p.pWaitForSendBuff /\ r.pWaitForSendBuff = <<>>
            /\ p.pSendBuff # <<>> => r.pSendBuff # <<>>
        BY Zenon, <1>4, <2>1, FlushBuffers
      <3> QED
        BY Zenon, <1>4, <1>5, <3>1
    <2>4. Aside(e) /\ step'[c] = NoStep
      BY Zenon, <1>0, <1>2, <2>2, AsideStep
    <2>5. \A w \in Worker : sh[w] \in {shell[w], e}
      BY Zenon, <2>1 DEF IInv, TypeOK
    <2>6. step'[c].kind = "none" /\ c \notin workerIndex'
      BY <1>2, <1>3, <2>4 DEF NoStep
    <2>7. CASE PeerGone(e) /\ DestroyConnect(e, sh)
      <3>1. CtlInv'
        <4>1. /\ c \in workerIndex' => c \in workerIndex /\ step'[c].kind = step[c].kind
              /\ step'[c].kind = "connect" => step[c].kind = "connect" \/ c \in workerIndex
          BY Zenon, <2>6
        <4> QED
          BY Zenon, <1>0, <1>t, <1>5, <2>4, <2>5, <2>7, <4>1, DestroyOutCtl
      <3>2. nMsg' \in Nat /\ nMsg <= nMsg'
        BY <1>t, <1>2
      <3>3. FlowInv'
        BY Zenon, <1>t, <1>2, <2>7, <3>2, DestroyFlow
      <3> QED
        BY Zenon, <3>1, <3>3 DEF FInv
    <2>8. ASSUME NEW x, NEW q, Wrote(e, r, y, sh, x, q)
          PROVE  FInv'
      <3>1. CtlInv'
        <4>1. /\ c \in workerIndex' => /\ c \in workerIndex /\ step'[c].kind = step[c].kind
                                       /\ r.pSendBuff = <<>> /\ r.ucConnectStatus # "ok" /\ y = <<>>
              /\ step'[c].kind = "connect" => /\ step[c].kind = "connect" \/ c \in workerIndex
                                              /\ y = wire[In(c)]
                                              /\ "REQ_TELL" \notin Cmds(r.pSendBuff)
              /\ step'[c].kind \in {"connect", "tell"} => r.ucConnectStatus # "ok"
              /\ r.ucConnectStatus # "ok" => attr[e].ucConnectStatus # "ok"
              /\ r.bWriteEvent /\ r.pSendBuff = <<>> => c \in workerIndex'
              /\ r.bOpen
          BY Zenon, <1>0, <1>t, <1>2, <1>4, <2>3, <2>6, CtlFacts
        <4> QED
          BY Zenon, <1>0, <1>t, <1>4, <1>5, <2>3, <2>4, <2>5, <2>8, <4>1, OutWroteCtl
      <3>2. rcvd[Other(e)] = <<>> /\ "DATA" \notin Cmds(wire[e]) /\ "DATA" \notin Cmds(attr[e].pSendBuff)
        <4>1. attr[e].ucConnectStatus # "ok" /\ rcvd[In(c)] = <<>>
          BY Zenon, <1>0, <1>t, <1>5, <1>6, CtlFacts
        <4> QED
          BY Zenon, <1>0, <1>5, <4>1 DEF IInv, Established
      <3>3. /\ Line(rcvd[Other(e)], wire[e], r.pSendBuff, r.pWaitForSendBuff)
            /\ Sent(rcvd[Other(e)], wire[e], r.pSendBuff, r.pWaitForSendBuff) \subseteq SentBy(e)
        BY Zenon, <1>t, <2>3, <3>2, FlushFlow
      <3>4. Sent(rcvd[Other(e)], wire[e], r.pSendBuff, r.pWaitForSendBuff)
               \subseteq SentBy(e) \cup (nMsg + 1)..nMsg'
        BY Zenon, <3>3
      <3>5. nMsg' \in Nat /\ nMsg <= nMsg'
        BY <1>t, <1>2
      <3>6. FlowInv'
        BY Zenon, <1>t, <1>5, <2>3, <2>4, <2>8, <3>3, <3>4, <3>5, WroteFlow DEF Wrote
      <3> QED
        BY Zenon, <3>1, <3>6 DEF FInv
    <2> QED
      BY Zenon, <1>t, <1>4, <2>2, <2>3, <2>7, <2>8, WriteFDWrote, 0 \in Nat
  <1>7. CASE step[c].kind # "tell"
    <2>1. Absorb(e, p) /\ UNCHANGED <<at, step, workerIndex, nMsg>>
      BY Zenon, <1>0, <1>1, <1>2, <1>7 DEF RecvRspTell
    <2>2. /\ "RSP_TELL" = "RSP_TELL" => e[2] = "out" /\ step[e[1]].kind \notin {"connect", "tell"}
          /\ "RSP_TELL" # "RSP_CONNECT"
      BY Zenon, <1>0, <1>3, <1>7
    <2> QED
      BY Zenon, <1>1, <1>2, <1>4, <2>1, <2>2, AbsorbFlow
  <1> QED
    BY Zenon, <1>6, <1>7

\* The error answer to a CONNECT that reached the worker.
LEMMA RecvReqConnectFlow ==
    ASSUME IInv, FInv, NEW c \in Conn, RecvReqConnect(c)
    PROVE  FInv'
  <1>0. PICK e \in End : e = In(c) /\ Other(e) = Out(c)
    BY Zenon, EndFacts
  <1>t. TypeOK /\ CtlInv /\ FlowInv /\ nMsg \in Nat
    BY Zenon, Parts
  <1>2. /\ CanRead(e, "REQ_CONNECT") /\ "REQ_CONNECT" # "RSP_TELL" /\ rcvd' = rcvd
        /\ at' = at /\ step' = step /\ workerIndex' = workerIndex /\ nMsg' = nMsg /\ shell' = shell
    BY Zenon, <1>0 DEF RecvReqConnect, counters
  <1>3. PICK p, y :
          /\ p = Decoded(e) /\ y = Tail(wire[Other(e)]) /\ attr[e].bOpen
          /\ p \in Attr /\ p.bOpen /\ p.pSendBuff = attr[e].pSendBuff
          /\ p.pWaitForSendBuff = attr[e].pWaitForSendBuff /\ p.bWriteEvent = attr[e].bWriteEvent
          /\ p.ucConnectStatus = "ok" <=> attr[e].ucConnectStatus = "ok"
          /\ Read(e) = [wire EXCEPT ![Other(e)] = y] /\ y \in Seq(Msg) /\ ReadBy(e, y)
          /\ Cmds(y) \subseteq Cmds(wire[Other(e)])
    BY Zenon, <1>2, ReadRest
  <1>4. PICK m, P, b, r : /\ m = M("RSP_SYS_ERROR") /\ P = attr[e].pSendBuff /\ b = Append(P, m)
                          /\ r = [p EXCEPT !.pSendBuff = b]
    BY Zenon
  <1>5. m \in Msg /\ m.cmd = "RSP_SYS_ERROR"
    BY Zenon, <1>4, MessageFacts
  <1>6. /\ P \in Seq(Msg) /\ b \in Seq(Msg) /\ Cmds(b) = Cmds(P) \cup {"RSP_SYS_ERROR"}
    <2>1. P \in Seq(Msg)
      BY Zenon, <1>3, <1>4 DEF Attr
    <2> QED
      BY Zenon, <1>4, <1>5, <2>1, CmdsAppend
  <1>7. /\ r \in Attr /\ r.pSendBuff = b /\ r.pWaitForSendBuff = attr[e].pWaitForSendBuff
        /\ r.bWriteEvent = attr[e].bWriteEvent /\ r.bWriteEvent \in BOOLEAN
        /\ r.ucConnectStatus = p.ucConnectStatus
    BY Zenon, <1>3, <1>4, <1>6 DEF Attr
  <1>8. PICK k \in 0..Len(r.pSendBuff) :
          /\ attr' = [attr EXCEPT ![e] = [Written(r, k) EXCEPT !.bWriteEvent = r.bWriteEvent]]
          /\ wire' = Carry(Read(e), e, SubSeq(r.pSendBuff, 1, k))
    <2>1. r = [Decoded(e) EXCEPT !.pSendBuff = Append(@, M("RSP_SYS_ERROR"))]
      BY Zenon, <1>3, <1>4
    <2> QED
      BY Zenon, <1>0, <2>1 DEF RecvReqConnect
  <1>9. PICK q : q = [Written(r, k) EXCEPT !.bWriteEvent = r.bWriteEvent]
    BY Zenon
  <1>10. PICK x : /\ Pushed(wire[e], PeerGone(e), r, x, q)
                  /\ wire' = [wire EXCEPT ![e] = x, ![Other(e)] = y] /\ q.bWriteEvent = r.bWriteEvent
    <2>1. /\ r \in Attr /\ r.bWriteEvent \in BOOLEAN /\ Read(e) = [wire EXCEPT ![Other(e)] = y]
          /\ wire' = Carry(Read(e), e, SubSeq(r.pSendBuff, 1, k))
      BY Zenon, <1>3, <1>7, <1>8
    <2>2. PICK ev \in BOOLEAN : ev = r.bWriteEvent
      BY Zenon, <2>1
    <2>3. q = [Written(r, k) EXCEPT !.bWriteEvent = ev]
      BY Zenon, <1>9, <2>2
    <2>4. PICK x : x = IF PeerGone(e) THEN <<>> ELSE wire[e] \o SubSeq(r.pSendBuff, 1, k)
      BY Zenon
    <2>5. wire' = [wire EXCEPT ![e] = x, ![Other(e)] = y]
      <3>1. PICK net, ms : net = Read(e) /\ ms = SubSeq(r.pSendBuff, 1, k)
        BY Zenon
      <3>2. net = [wire EXCEPT ![Other(e)] = y] /\ wire' = Carry(net, e, ms)
        BY Zenon, <2>1, <3>1
      <3>3. wire' = [wire EXCEPT ![e] = IF PeerGone(e) THEN <<>> ELSE wire[e] \o ms, ![Other(e)] = y]
        BY Zenon, <1>t, <3>2, CarryWire
      <3> QED
        BY Zenon, <2>4, <3>1, <3>3
    <2>6. Pushed(wire[e], PeerGone(e), r, x, q) /\ q.bWriteEvent = ev
      BY Zenon, <2>1, <2>3, <2>4, WrittenEvent
    <2> QED
      BY Zenon, <2>2, <2>5, <2>6
  <1>11. Aside(e)
    BY Zenon, <1>2 DEF Aside
  <1>12. Arm(q)
    <2>1. Cmds(q.pSendBuff) \subseteq Cmds(r.pSendBuff)
      <3>1. wire[e] \in Seq(Msg)
        BY Zenon, <1>t DEF TypeOK
      <3> QED
        BY Zenon, <1>7, <1>10, <3>1, PushedFacts
    <2>2. Arm(attr[e])
      BY Zenon, <1>0, <1>t, CtlFacts
    <2> QED
      BY SMTT(20), <1>4, <1>6, <1>7, <1>10, <2>1, <2>2 DEF Arm
  <1>13. CtlInv'
    <2>1. /\ \A w \in Worker : shell'[w] \in {shell[w], e}
          /\ Cmds(y) \subseteq Cmds(wire[Out(c)])
          /\ "DATA" \notin Cmds(r.pWaitForSendBuff) /\ "RSP_TELL" \notin Cmds(r.pWaitForSendBuff)
          /\ Led(shell', e) => r.ucConnectStatus = "ok"
          /\ step[c].kind = "connect" => "RSP_TELL" \notin Cmds(r.pSendBuff)
          /\ rcvd'[e] = rcvd[e]
      <3>1. /\ "DATA" \notin Cmds(attr[e].pWaitForSendBuff) /\ "RSP_TELL" \notin Cmds(attr[e].pWaitForSendBuff)
            /\ Led(shell, e) => attr[e].ucConnectStatus = "ok"
            /\ step[c].kind = "connect" => "RSP_TELL" \notin Cmds(P)
        BY Zenon, <1>0, <1>t, <1>4, CtlFacts
      <3>2. step[c].kind = "connect" => "RSP_TELL" \notin Cmds(r.pSendBuff)
        BY <1>6, <1>7, <3>1
      <3>3. \A w \in Worker : shell'[w] \in {shell[w], e}
        BY Zenon, <1>2
      <3> QED
        BY Zenon, <1>0, <1>2, <1>3, <1>7, <3>1, <3>2, <3>3
    <2>2. attr' = [attr EXCEPT ![e] = q]
      BY Zenon, <1>8, <1>9
    <2> QED
      BY Zenon, <1>0, <1>t, <1>2, <1>3, <1>7, <1>10, <1>11, <1>12, <2>1, <2>2, InWroteCtl
  <1>14. FlowInv'
    <2>1. /\ Line(rcvd[Other(e)], wire[e], r.pSendBuff, r.pWaitForSendBuff)
          /\ Sent(rcvd[Other(e)], wire[e], r.pSendBuff, r.pWaitForSendBuff) \subseteq SentBy(e)
      BY Zenon, <1>t, <1>4, <1>5, <1>7, AppendFlow
    <2>2. Sent(rcvd[Other(e)], wire[e], r.pSendBuff, r.pWaitForSendBuff)
             \subseteq SentBy(e) \cup (nMsg + 1)..nMsg'
      BY Zenon, <2>1
    <2>3. nMsg' \in Nat /\ nMsg <= nMsg' /\ attr' = [attr EXCEPT ![e] = q]
      BY SMTT(20), <1>t, <1>2, <1>8, <1>9
    <2> QED
      BY Zenon, <1>t, <1>3, <1>7, <1>10, <1>11, <2>1, <2>2, <2>3, WroteFlow
  <1> QED
    BY Zenon, <1>13, <1>14 DEF FInv

\* The first write event of a connection: the handshake begins.
LEMMA BeginFlow ==
    ASSUME IInv, FInv, NEW c \in workerIndex, c \in Conn, IoWriteEmpty(Out(c))
    PROVE  FInv'
  <1>0. PICK e \in End : e = Out(c) /\ Other(e) = In(c) /\ e[1] = c /\ e[2] = "out"
    BY Zenon, EndFacts DEF Out
  <1>t. TypeOK /\ CtlInv /\ FlowInv /\ nMsg \in Nat
    BY Zenon, Parts
  <1>1. PICK p, m, r, y : /\ p = [attr[e] EXCEPT !.bInner = TRUE] /\ m = M("REQ_CONNECT")
                          /\ r = Encode(p, m) /\ y = wire[Other(e)]
    BY Zenon
  <1>2. /\ attr[e].bOpen /\ workerIndex' = workerIndex \ {c}
        /\ step' = [step EXCEPT ![c] = [kind |-> "connect", iTimeoutNum |-> 0]]
        /\ UNCHANGED <<at, rcvd, nMsg>> /\ rcvd' = rcvd
    BY Zenon, <1>0 DEF IoWriteEmpty, counters
  <1>3. \/ /\ shell' = shell
           /\ \E k \in 0..Len(r.pSendBuff) :
                /\ attr' = [attr EXCEPT ![e] = [Written(r, k) EXCEPT !.bWriteEvent = FALSE]]
                /\ wire' = Carry(wire, e, SubSeq(r.pSendBuff, 1, k))
        \/ PeerGone(e) /\ DestroyConnect(e, shell)
    <2>1. r = Encode([attr[e] EXCEPT !.bInner = TRUE], M("REQ_CONNECT")) /\ e[2] = "out" /\ e[1] \in workerIndex
      BY Zenon, <1>0, <1>1
    <2>2. IoWriteEmpty(e)
      BY Zenon, <1>0
    <2> QED
      BY Zenon, <2>1, <2>2 DEF IoWriteEmpty
  <1>4. /\ p \in Attr /\ p.bOpen /\ p.pSendBuff = attr[e].pSendBuff
        /\ p.pWaitForSendBuff = attr[e].pWaitForSendBuff
        /\ p.ucConnectStatus = attr[e].ucConnectStatus
    BY Zenon, <1>1, <1>2, AsItStands DEF Attr
  <1>5. m \in Msg /\ m.cmd = "REQ_CONNECT" /\ ~Waits(p, m)
    BY Zenon, <1>1, MessageFacts DEF Waits, HandshakeCmd
  <1>6. /\ attr[e].pSendBuff = <<>> /\ attr[e].ucConnectStatus # "ok" /\ step[c].kind = "none"
    BY Zenon, <1>0, <1>t, CtlFacts
  <1>7. /\ r \in Attr /\ r.bOpen /\ Cmds(r.pSendBuff) = {"REQ_CONNECT"} /\ r.pSendBuff # <<>>
        /\ r.ucConnectStatus = "connecting"
    <2>1. /\ Encode(p, m) \in Attr /\ Encode(p, m).bOpen = p.bOpen
          /\ Cmds(Encode(p, m).pSendBuff) = Cmds(p.pSendBuff) \cup {m.cmd}
          /\ Encode(p, m).pSendBuff # <<>>
          /\ Encode(p, m).ucConnectStatus = IF p.ucConnectStatus = "ok" \/ m.cmd = "RSP_TELL"
                                           THEN "ok" ELSE "connecting"
      BY Zenon, <1>4, <1>5, EncodeFacts
    <2>2. r = Encode(p, m)
      BY Zenon, <1>1
    <2> QED
      BY Zenon, <1>4, <1>5, <1>6, <2>1, <2>2, CmdsEmpty
  <1>8. /\ Line(rcvd[Other(e)], wire[e], r.pSendBuff, r.pWaitForSendBuff)
        /\ Sent(rcvd[Other(e)], wire[e], r.pSendBuff, r.pWaitForSendBuff)
                  \subseteq SentBy(e) \cup (nMsg + 1)..nMsg'
    <2>1. m.cmd = "DATA" => m.id = nMsg + 1 /\ nMsg' = nMsg + 1
      BY Zenon, <1>5
    <2>2. r = Encode(p, m)
      BY Zenon, <1>1
    <2> QED
      BY Zenon, <1>t, <1>4, <1>5, <2>1, <2>2, EncodeFlow
  <1>9. Aside(e) /\ step'[c].kind = "connect" /\ c \notin workerIndex' /\ nMsg' \in Nat /\ nMsg <= nMsg'
    <2>1. step'[c] = [kind |-> "connect", iTimeoutNum |-> 0] /\ \A d \in Conn : d # c => step'[d] = step[d]
      BY Zenon, <1>2, StepAt
    <2> QED
      BY <1>0, <1>t, <1>2, <2>1 DEF Aside
  <1>10. \A w \in Worker : shell[w] \in {shell[w], e}
    BY Zenon
  <1>11. CASE PeerGone(e) /\ DestroyConnect(e, shell)
    <2>1. CtlInv'
      <3>1. /\ c \in workerIndex' => c \in workerIndex /\ step'[c].kind = step[c].kind
            /\ step'[c].kind = "connect" => step[c].kind = "connect" \/ c \in workerIndex
        BY Zenon, <1>9
      <3> QED
        BY Zenon, <1>0, <1>t, <1>2, <1>9, <1>10, <1>11, <3>1, DestroyOutCtl
    <2>2. FlowInv'
      BY Zenon, <1>t, <1>2, <1>9, <1>11, DestroyFlow
    <2> QED
      BY Zenon, <2>1, <2>2 DEF FInv
  <1>12. ASSUME NEW k \in 0..Len(r.pSendBuff), shell' = shell,
                attr' = [attr EXCEPT ![e] = [Written(r, k) EXCEPT !.bWriteEvent = FALSE]],
                wire' = Carry(wire, e, SubSeq(r.pSendBuff, 1, k))
         PROVE  FInv'
    <2>1. PICK q, ms : q = [Written(r, k) EXCEPT !.bWriteEvent = FALSE] /\ ms = SubSeq(r.pSendBuff, 1, k)
      BY Zenon
    <2>2. PICK x : x = IF PeerGone(e) THEN <<>> ELSE wire[e] \o ms
      BY Zenon
    <2>3. /\ y \in Seq(Msg) /\ wire = [wire EXCEPT ![Other(e)] = y] /\ ReadBy(e, y)
          /\ wire' = Carry(wire, e, ms) /\ y = wire[In(c)] /\ wire[e] \in Seq(Msg)
      <3>1. y \in Seq(Msg) /\ wire = [wire EXCEPT ![Other(e)] = y] /\ y = wire[In(c)]
        BY Zenon, <1>0, <1>1, AsItStands
      <3>2. ReadBy(e, y)
        BY Zenon, <1>1, <1>2 DEF ReadBy
      <3>3. wire[e] \in Seq(Msg)
        BY Zenon, <1>t DEF TypeOK
      <3> QED
        BY Zenon, <1>12, <2>1, <3>1, <3>2, <3>3
    <2>4. wire' = [wire EXCEPT ![e] = IF PeerGone(e) THEN <<>> ELSE wire[e] \o ms, ![Other(e)] = y]
      <3>1. PICK net : net = wire
        BY Zenon
      <3>2. net = [wire EXCEPT ![Other(e)] = y] /\ wire' = Carry(net, e, ms)
        BY Zenon, <2>3, <3>1
      <3> QED
        BY Zenon, <1>t, <3>2, CarryWire
    <2>5. wire' = [wire EXCEPT ![e] = x, ![Other(e)] = y]
      BY Zenon, <2>2, <2>4
    <2>6. Pushed(wire[e], PeerGone(e), r, x, q) /\ q.bWriteEvent = FALSE
      BY Zenon, <1>7, <2>1, <2>2, WrittenEvent, FALSE \in BOOLEAN
    <2>7. Rearmed(r, q)
      <3>1. Cmds(q.pSendBuff) \subseteq Cmds(r.pSendBuff)
        BY Zenon, <1>7, <2>3, <2>6, PushedFacts
      <3> QED
        BY Zenon, <1>7, <2>6, <3>1 DEF Rearmed, Arm
    <2>8. Wrote(e, r, y, shell, x, q)
      BY Zenon, <1>12, <2>1, <2>5, <2>6, <2>7 DEF Wrote
    <2>9. CtlInv'
      <3>1. /\ c \in workerIndex' => /\ c \in workerIndex /\ step'[c].kind = step[c].kind
                                     /\ r.pSendBuff = <<>> /\ r.ucConnectStatus # "ok" /\ y = <<>>
            /\ step'[c].kind = "connect" => /\ step[c].kind = "connect" \/ c \in workerIndex
                                            /\ y = wire[In(c)]
                                            /\ "REQ_TELL" \notin Cmds(r.pSendBuff)
            /\ step'[c].kind \in {"connect", "tell"} => r.ucConnectStatus # "ok"
            /\ r.ucConnectStatus # "ok" => attr[e].ucConnectStatus # "ok"
            /\ r.bWriteEvent /\ r.pSendBuff = <<>> => c \in workerIndex'
        BY Zenon, <1>6, <1>7, <1>9, <2>3
      <3> QED
        BY Zenon, <1>0, <1>t, <1>2, <1>7, <1>9, <1>10, <2>3, <2>8, <3>1, OutWroteCtl
    <2>10. FlowInv'
      BY Zenon, <1>t, <1>7, <1>8, <1>9, <2>3, <2>8, WroteFlow DEF Wrote
    <2> QED
      BY Zenon, <2>9, <2>10 DEF FInv
  <1> QED
    BY Zenon, <1>3, <1>11, <1>12

\* A write event of the accepting end with an empty pSendBuff: what waited is sent.
LEMMA IoWriteEmptyFlow ==
    ASSUME IInv, FInv, NEW e \in End, IoWriteEmpty(e)
    PROVE  FInv'
  <1>t. TypeOK /\ CtlInv /\ FlowInv /\ nMsg \in Nat
    BY Zenon, Parts
  <1>1. CASE e[2] = "out"
    <2>1. PICK c \in Conn : e = Out(c) /\ c = e[1]
      BY Zenon, <1>1, EndFacts
    <2>2. attr[e].bWriteEvent /\ attr[e].pSendBuff = <<>>
      BY Zenon DEF IoWriteEmpty
    <2>3. c \in workerIndex /\ IoWriteEmpty(Out(c))
      BY Zenon, <1>t, <2>1, <2>2, CtlFacts
    <2> QED
      BY Zenon, <2>3, BeginFlow
  <1>2. CASE e[2] = "in"
    <2>0. PICK c \in Conn : e = In(c) /\ Other(e) = Out(c)
      BY Zenon, <1>2, EndFacts
    <2>1. PICK r, y : r = Flush(attr[e]) /\ y = wire[Other(e)]
      BY Zenon
    <2>2. attr[e] \in Attr /\ y \in Seq(Msg) /\ wire = [wire EXCEPT ![Other(e)] = y]
      BY Zenon, <2>1, AsItStands
    <2>3. /\ r \in Attr /\ r.ucConnectStatus = attr[e].ucConnectStatus
          /\ r.pSendBuff = attr[e].pSendBuff \o attr[e].pWaitForSendBuff /\ r.pWaitForSendBuff = <<>>
          /\ Cmds(r.pSendBuff) = Cmds(attr[e].pSendBuff) \cup Cmds(attr[e].pWaitForSendBuff)
      BY Zenon, <2>1, <2>2, FlushBuffers
    <2>4. /\ attr[e].bOpen /\ at' = at /\ rcvd' = rcvd /\ nMsg' = nMsg /\ workerIndex' = workerIndex
          /\ step' = [step EXCEPT ![e[1]] = @]
      BY Zenon, <1>2 DEF IoWriteEmpty, counters
    <2>5. step' = step
      BY Zenon, <1>t, <2>4 DEF TypeOK
    <2>6. WriteFD(e, r, shell, wire, 0)
      <3>1. ~(e[2] = "out" /\ e[1] \in workerIndex)
        BY Zenon, <1>2
      <3>2. \/ PeerGone(e) /\ DestroyConnect(e, shell)
            \/ \E k \in 0..Len(r.pSendBuff) :
                  /\ attr' = [attr EXCEPT ![e] = [Written(r, k) EXCEPT !.bWriteEvent = TRUE /\ @]]
                  /\ wire' = Carry(wire, e, SubSeq(r.pSendBuff, 1, k))
                  /\ shell' = shell
        BY Zenon, <2>1, <3>1 DEF IoWriteEmpty
      <3>3. ASSUME NEW k \in 0..Len(r.pSendBuff)
            PROVE  [Written(r, k) EXCEPT !.bWriteEvent = TRUE /\ @] = Written(r, k)
        <4>1. PICK p : p = Written(r, k)
          BY Zenon
        <4>2. p \in Attr
          BY Zenon, <2>3, <4>1, WrittenPushed
        <4>3. [p EXCEPT !.bWriteEvent = TRUE /\ @] = p
          BY Zenon, <4>2 DEF Attr
        <4> QED
          BY Zenon, <4>1, <4>3
      <3> QED
        BY Zenon, <3>2, <3>3 DEF WriteFD
    <2>7. Aside(e) /\ ReadBy(e, y) /\ nMsg' \in Nat /\ nMsg <= nMsg'
      BY <1>t, <2>1, <2>4, <2>5 DEF Aside, ReadBy
    <2>8. CASE PeerGone(e) /\ DestroyConnect(e, shell)
      <3>1. UNCHANGED <<at, step, workerIndex, rcvd, nMsg>>
        BY Zenon, <2>4, <2>5
      <3> QED
        BY Zenon, <2>4, <2>8, <3>1, DestroyFInv
    <2>9. ASSUME NEW x, NEW q, Wrote(e, r, y, shell, x, q)
          PROVE  FInv'
      <3>0. /\ Pushed(wire[e], PeerGone(e), r, x, q) /\ Arm(q)
            /\ attr' = [attr EXCEPT ![e] = q] /\ wire' = [wire EXCEPT ![e] = x, ![Other(e)] = y]
            /\ shell' = shell
        BY Zenon, <2>9 DEF Wrote, Rearmed
      <3>1. /\ "DATA" \notin Cmds(attr[e].pWaitForSendBuff) /\ "RSP_TELL" \notin Cmds(attr[e].pWaitForSendBuff)
            /\ Led(shell, e) => attr[e].ucConnectStatus = "ok"
            /\ step[c].kind = "connect" => "RSP_TELL" \notin Cmds(attr[e].pSendBuff)
        BY Zenon, <1>t, <2>0, CtlFacts
      <3>2. /\ "DATA" \notin Cmds(r.pWaitForSendBuff) /\ "RSP_TELL" \notin Cmds(r.pWaitForSendBuff)
            /\ step[c].kind = "connect" => "RSP_TELL" \notin Cmds(r.pSendBuff)
            /\ Cmds(y) \subseteq Cmds(wire[Out(c)])
        BY Zenon, <2>0, <2>1, <2>3, <3>1, CmdsEmpty
      <3>3. /\ \A w \in Worker : shell'[w] \in {shell[w], e}
            /\ Led(shell', e) => r.ucConnectStatus = "ok"
            /\ rcvd'[e] = rcvd[e]
        BY Zenon, <2>3, <2>4, <3>0, <3>1
      <3>4. CtlInv'
        BY Zenon, <1>t, <2>0, <2>2, <2>3, <2>4, <2>5, <2>7, <3>0, <3>2, <3>3, InWroteCtl
      <3>5. /\ Line(rcvd[Other(e)], wire[e], r.pSendBuff, r.pWaitForSendBuff)
            /\ Sent(rcvd[Other(e)], wire[e], r.pSendBuff, r.pWaitForSendBuff) \subseteq SentBy(e)
        BY Zenon, <1>t, <2>3, <3>1, FlushFlow
      <3>6. Sent(rcvd[Other(e)], wire[e], r.pSendBuff, r.pWaitForSendBuff)
               \subseteq SentBy(e) \cup (nMsg + 1)..nMsg'
        BY Zenon, <3>5
      <3>7. FlowInv'
        BY Zenon, <1>t, <2>3, <2>7, <3>0, <3>5, <3>6, WroteFlow
      <3> QED
        BY Zenon, <3>4, <3>7 DEF FInv
    <2> QED
      BY Zenon, <1>t, <2>2, <2>3, <2>6, <2>8, <2>9, WriteFDWrote, 0 \in Nat
  <1> QED
    BY Zenon, <1>1, <1>2, EndFacts DEF Side

\* Every step of the link keeps the invariant of the handshake's phases and of the
\* messages under way.
LEMMA NextFInv == IInv /\ FInv /\ [Next]_vars => FInv'
  <1> SUFFICES ASSUME IInv, FInv, [Next]_vars PROVE FInv'
    BY Zenon
  <1>1. ASSUME NEW w \in Worker, Send(w) PROVE FInv'
    BY Zenon, <1>1, SendFlow, AutoSendFlow
  <1>2. ASSUME NEW w \in Worker, Crash(w) PROVE FInv'
    BY Zenon, <1>2, CrashFlow
  <1>3. ASSUME NEW e \in End,
               \/ IoWriteSend(e) \/ IoWriteEmpty(e) \/ PeerClosed(e)
               \/ IoTimeout(e) \/ BeatTimeout(e)
               \/ RecvReqBeat(e) \/ RecvRspBeat(e) \/ RecvData(e)
        PROVE  FInv'
    BY Zenon, <1>3, IoWriteSendFlow, IoWriteEmptyFlow, PeerClosedFlow, IoTimeoutFlow,
       BeatTimeoutFlow, RecvReqBeatFlow, RecvRspBeatFlow, RecvDataFlow
  <1>4. ASSUME NEW c \in Conn,
               \/ StepTimeout(c)
               \/ RecvRspConnect(c) \/ RecvSysError(c) \/ RecvRspTell(c)
               \/ RecvReqConnect(c) \/ RecvReqTell(c)
               \/ MgrTransferFd(c) \/ AcceptorCloses(c) \/ FdTransfer(c)
        PROVE  FInv'
    BY Zenon, <1>4, StepTimeoutFlow, RecvRspConnectFlow, RecvSysErrorFlow, RecvRspTellFlow,
       RecvReqConnectFlow, RecvReqTellFlow, MgrTransferFdFlow, AcceptorClosesFlow,
       FdTransferFlow
  <1>5. CASE UNCHANGED vars
    <2>1. UNCHANGED <<attr, wire, shell, at, workerIndex, rcvd, nMsg, step>>
      BY Zenon, <1>5 DEF vars, counters
    <2>2. \A d \in Conn : step'[d].kind = step[d].kind
      BY Zenon, <2>1
    <2> QED
      BY Zenon, <2>1, <2>2, GiveUpFlow
  <1> QED
    BY Zenon, <1>1, <1>2, <1>3, <1>4, <1>5 DEF Next

\* Every reachable state satisfies the invariant of the messages under way.
THEOREM FlowInvariance == Spec => [](IInv /\ FInv)
  BY InitIInv, NextIInv, InitFInv, NextFInv, PTL DEF Spec

\* Messages of one connection arrive in the order in which SendTo accepted them, none
\* twice and none over two connections, for every number of messages, connections,
\* retries and crashes: the two buffers, the partial writes and the flush of
\* pWaitForSendBuff after TELL never reorder or repeat one.
THEOREM DeliveredOnceInOrder == Spec => []OnceInOrder
  <1>1. IInv /\ FInv => OnceInOrder
    <2> SUFFICES ASSUME IInv, FInv PROVE OnceInOrder
      BY Zenon
    <2>1. ASSUME NEW e \in End
          PROVE  Increasing(rcvd[e]) /\ Elems(rcvd[e]) \subseteq SentBy(Other(e))
      <3>1. Other(e) \in End /\ Other(Other(e)) = e
        BY Zenon, EndFacts
      <3>2. InOrder(Other(e))
        BY Zenon, <3>1 DEF FInv, FlowInv
      <3> QED
        BY Zenon, <3>1, <3>2 DEF InOrder, SentBy, Line, Sent
    <2>2. ASSUME NEW d \in End, NEW e \in End, NEW i \in 1..Len(rcvd[d]),
                 NEW j \in 1..Len(rcvd[e]), rcvd[d][i] = rcvd[e][j]
          PROVE  d = e
      <3>1. rcvd[d][i] \in Elems(rcvd[d]) /\ rcvd[e][j] \in Elems(rcvd[e])
        BY Zenon DEF Elems
      <3>2. rcvd[d][i] \in SentBy(Other(d)) \cap SentBy(Other(e))
        BY Zenon, <2>1, <2>2, <3>1
      <3>3. Other(d) \in End /\ Other(e) \in End /\ Other(Other(d)) = d /\ Other(Other(e)) = e
        BY Zenon, EndFacts
      <3>4. Other(d) = Other(e)
        BY Zenon, <3>2, <3>3 DEF FInv, FlowInv
      <3> QED
        BY Zenon, <3>3, <3>4
    <2> QED
      BY Zenon, <2>1, <2>2 DEF OnceInOrder, Increasing
  <1> QED
    BY <1>1, FlowInvariance, PTL

\* Application data that the socket did not take is never left without the write event
\* that will send it, whatever handshake step removes the event and in whatever order.
THEOREM UnsentArmed == Spec => []UnsentDataIsArmed
  <1>1. FInv => UnsentDataIsArmed
    <2> SUFFICES ASSUME FInv, NEW e \in End, "DATA" \in Cmds(attr[e].pSendBuff)
                 PROVE  attr[e].bWriteEvent
      BY Zenon DEF UnsentDataIsArmed
    <2>1. e[1] \in Conn /\ (e = Out(e[1]) \/ e = In(e[1]))
      BY Zenon, EndFacts DEF Side
    <2>2. Arm(attr[Out(e[1])]) /\ Arm(attr[In(e[1])])
      BY Zenon, <2>1 DEF FInv, CtlInv, Ctl
    <2> QED
      BY Zenon, <2>1, <2>2 DEF Arm
  <1> QED
    BY <1>1, FlowInvariance, PTL

\* The error answer that a retried CONNECT draws from the worker finds the step already
\* past CONNECT: a handshake fails only by the last of its own timeouts.
THEOREM FailsByTimeoutOnly == Spec => GivesUpByTimeoutOnly
  <1> DEFINE P == \A c \in Conn : (step[c].kind # "given_up" /\ step'[c].kind = "given_up")
                                    => step[c].iTimeoutNum = RetryLimit
  <1>1. IInv /\ FInv /\ [Next]_vars => [P]_vars
    <2> SUFFICES ASSUME IInv, FInv, Next, NEW d \in Conn, step[d].kind # "given_up",
                        step'[d].kind = "given_up"
                 PROVE  step[d].iTimeoutNum = RetryLimit
      BY Zenon
    <2>t. step \in [Conn -> Step]
      BY Zenon DEF IInv, TypeOK
    <2>0. step'[d] # step[d]
      BY Zenon
    <2>1. ASSUME NEW w \in Worker, Send(w) PROVE FALSE
      BY Zenon, <2>1, <2>0 DEF Send, AutoSend
    <2>2. ASSUME NEW w \in Worker, Crash(w) PROVE FALSE
      <3>1. step'[d] = NoStep \/ step'[d] = step[d]
        BY Zenon, <2>2 DEF Crash
      <3> QED
        BY <2>0, <3>1 DEF NoStep
    <2>3. ASSUME NEW e \in End,
                 \/ IoWriteSend(e) \/ PeerClosed(e)
                 \/ IoTimeout(e) \/ BeatTimeout(e)
                 \/ RecvReqBeat(e) \/ RecvRspBeat(e) \/ RecvData(e)
          PROVE  FALSE
      <3>1. step' = step
        BY Zenon, <2>3 DEF IoWriteSend, PeerClosed, IoTimeout, BeatTimeout, RecvReqBeat, RecvRspBeat, RecvData
      <3> QED
        BY Zenon, <2>0, <3>1
    <2>4. ASSUME NEW e \in End, IoWriteEmpty(e) PROVE FALSE
      <3>1. step'[d] = step[d] \/ step'[d].kind = "connect"
        BY Zenon, <2>4, <2>t, EndFacts DEF IoWriteEmpty
      <3> QED
        BY Zenon, <2>0, <3>1
    <2>5. ASSUME NEW c \in Conn,
                 \/ RecvReqConnect(c) \/ RecvReqTell(c)
                 \/ MgrTransferFd(c) \/ AcceptorCloses(c) \/ FdTransfer(c)
          PROVE  FALSE
      <3>1. step' = step
        BY Zenon, <2>5 DEF RecvReqConnect, RecvReqTell, MgrTransferFd, AcceptorCloses, FdTransfer
      <3> QED
        BY Zenon, <2>0, <3>1
    <2>6. ASSUME NEW c \in Conn, RecvSysError(c) PROVE FALSE
      BY Zenon, <2>0, <2>6, RecvSysErrorFlow
    <2>7. ASSUME NEW c \in Conn, RecvRspConnect(c) PROVE FALSE
      <3>1. step'[d] = step[d] \/ step'[d] = [kind |-> "tell", iTimeoutNum |-> 0]
        BY Zenon, <2>7, <2>t DEF RecvRspConnect
      <3> QED
        BY <2>0, <3>1
    <2>8. ASSUME NEW c \in Conn, RecvRspTell(c) PROVE FALSE
      <3>1. step'[d] = step[d] \/ step'[d] = NoStep
        BY Zenon, <2>8, <2>t DEF RecvRspTell
      <3> QED
        BY <2>0, <3>1 DEF NoStep
    <2>9. ASSUME NEW c \in Conn, StepTimeout(c) PROVE step[d].iTimeoutNum = RetryLimit
      <3>1. \/ step' = [step EXCEPT ![c].iTimeoutNum = @ + 1]
            \/ ~MayRetry(c) /\ step' = [step EXCEPT ![c] = GivenUp]
        BY Zenon, <2>9 DEF StepTimeout
      <3>2. ~(step' = [step EXCEPT ![c].iTimeoutNum = @ + 1])
        BY Zenon, <2>t DEF Step
      <3>3. d = c /\ ~MayRetry(c)
        BY Zenon, <2>0, <2>t, <3>1, <3>2
      <3> QED
        BY <2>t, <3>3, BoundAssumption DEF MayRetry, Step
    <2> QED
      BY Zenon, <2>1, <2>2, <2>3, <2>4, <2>5, <2>6, <2>7, <2>8, <2>9 DEF Next
  <1> QED
    BY <1>1, FlowInvariance, PTL DEF Spec, GivesUpByTimeoutOnly
=============================================================================
