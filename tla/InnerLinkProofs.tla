-------------------------- MODULE InnerLinkProofs --------------------------
(***************************************************************************)
(* The safety invariants of InnerLink hold for every number of connections, *)
(* messages, heartbeats, crashes and retries: the inductive invariant, that *)
(* every step of a single endpoint (sending, writing, reading, destroying)  *)
(* keeps it, that the Manager, the fd passing and crashes keep it, and the  *)
(* theorems.                                                                *)
(***************************************************************************)
EXTENDS InnerLink, TLAPS

-----------------------------------------------------------------------------
(* The inductive invariant. *)

\* A destroyed endpoint keeps nothing; a connection that was not opened yet, or
\* whose fd has not reached the worker, has no endpoint there.
Lifecycle ==
    /\ \A e \in End : ~attr[e].bOpen => attr[e] = Closed
    /\ \A c \in Conn : c > nSeq => at[c] = "none"
    /\ \A c \in Conn : at[c] = "none" => ~attr[Out(c)].bOpen
    /\ \A c \in Conn : at[c] # "worker" => ~attr[In(c)].bOpen

\* Until the Manager has answered, the initiator knows nothing but CONNECT.
ManagerPhase ==
    \A c \in Conn : at[c] \in {"none", "manager"} =>
        /\ wire[In(c)] = <<>>
        /\ Cmds(wire[Out(c)]) \subseteq {"REQ_CONNECT"}
        /\ Cmds(attr[Out(c)].pSendBuff) \subseteq {"REQ_CONNECT"}
        /\ step[c].kind # "tell"

\* Until the fd has reached the worker nobody regards the connection as established.
PassingPhase ==
    \A c \in Conn : at[c] \in {"none", "manager", "passed"} =>
        /\ attr[Out(c)].ucConnectStatus # "ok"
        /\ "RSP_TELL" \notin Cmds(wire[In(c)]) /\ "DATA" \notin Cmds(wire[In(c)])

\* Before the connection is established, an armed write event means that the
\* handshake is not begun or that part of it is unsent.
ArmedEvent ==
    \A e \in End : (attr[e].bWriteEvent /\ attr[e].ucConnectStatus # "ok") =>
        /\ e[2] = "out"
        /\ attr[e].pSendBuff = <<>> => e[1] \in workerIndex

\* Data, and the answer to TELL, are sent by an endpoint that is established, and
\* the initiator is established after the acceptor.
Established ==
    /\ \A e \in End :
          attr[e].bOpen /\ "DATA" \in Cmds(wire[e]) \cup Cmds(attr[e].pSendBuff)
              => attr[e].ucConnectStatus = "ok"
    /\ \A c \in Conn :
          attr[In(c)].bOpen /\ "RSP_TELL" \in Cmds(wire[In(c)]) \cup Cmds(attr[In(c)].pSendBuff)
              => attr[In(c)].ucConnectStatus = "ok"
    /\ \A c \in Conn :
          attr[Out(c)].bOpen /\ attr[Out(c)].ucConnectStatus = "ok" /\ attr[In(c)].bOpen
              => attr[In(c)].ucConnectStatus = "ok"

IInv == TypeOK /\ ShellIsLive /\ Lifecycle /\ ManagerPhase /\ PassingPhase
        /\ ArmedEvent /\ Established

-----------------------------------------------------------------------------
(* Facts about endpoints and about the commands in a buffer. *)

\* An endpoint is one of the two sides of a connection, and Other is the other one.
LEMMA EndFacts ==
    /\ \A c \in Conn : Out(c) \in End /\ In(c) \in End /\ Out(c) # In(c)
    /\ \A e \in End : /\ e[1] \in Conn /\ e[2] \in Side
                      /\ e[2] = "out" => e = Out(e[1]) /\ Other(e) = In(e[1])
                      /\ e[2] = "in" => e = In(e[1]) /\ Other(e) = Out(e[1])
                      /\ Other(e) \in End /\ Other(e) # e /\ Other(Other(e)) = e
    /\ \A c, d \in Conn : /\ Out(c) = Out(d) => c = d
                          /\ In(c) = In(d) => c = d
                          /\ Out(c) # In(d)
    /\ \A c \in Conn : Other(Out(c)) = In(c) /\ Other(In(c)) = Out(c)
    /\ NoShell \notin End
  BY BoundAssumption DEF End, Out, In, Other, Side, Conn, NoShell

\* An empty buffer holds no command.
LEMMA CmdsEmpty == Cmds(<<>>) = {}
  BY DEF Cmds

\* Encode appends one message: the buffer gains exactly its command.
LEMMA CmdsAppend ==
    ASSUME NEW s \in Seq(Msg), NEW m \in Msg
    PROVE  Append(s, m) \in Seq(Msg) /\ Cmds(Append(s, m)) = Cmds(s) \cup {m.cmd}
  BY DEF Cmds

\* CBuffer::Write of a whole buffer: the commands of both.
LEMMA CmdsConcat ==
    ASSUME NEW s \in Seq(Msg), NEW t \in Seq(Msg)
    PROVE  s \o t \in Seq(Msg) /\ Cmds(s \o t) = Cmds(s) \cup Cmds(t)
  <1>1. s \o t \in Seq(Msg) /\ Len(s \o t) = Len(s) + Len(t)
    OBVIOUS
  <1>2. \A i \in 1..Len(s) : (s \o t)[i] = s[i]
    OBVIOUS
  <1>3. \A i \in 1..Len(t) : (s \o t)[Len(s) + i] = t[i]
    OBVIOUS
  <1>4. Cmds(s \o t) \subseteq Cmds(s) \cup Cmds(t)
    <2> SUFFICES ASSUME NEW i \in 1..Len(s \o t)
                 PROVE  (s \o t)[i].cmd \in Cmds(s) \cup Cmds(t)
      BY Zenon DEF Cmds
    <2>1. CASE i \in 1..Len(s)
      BY Zenon, <2>1, <1>2 DEF Cmds
    <2>2. CASE i \notin 1..Len(s)
      <3>1. i - Len(s) \in 1..Len(t) /\ i = Len(s) + (i - Len(s))
        BY <2>2, <1>1
      <3>2. (s \o t)[i] = t[i - Len(s)]
        BY Zenon, <3>1, <1>3
      <3> QED
        BY Zenon, <3>1, <3>2 DEF Cmds
    <2> QED
      BY Zenon, <2>1, <2>2
  <1>5. Cmds(s) \subseteq Cmds(s \o t)
    BY <1>1, <1>2 DEF Cmds
  <1>6. Cmds(t) \subseteq Cmds(s \o t)
    <2> SUFFICES ASSUME NEW i \in 1..Len(t)
                 PROVE  t[i].cmd \in Cmds(s \o t)
      BY Zenon DEF Cmds
    <2>1. Len(s) + i \in 1..Len(s \o t) /\ (s \o t)[Len(s) + i] = t[i]
      BY <1>1, <1>3
    <2> QED
      BY Zenon, <2>1 DEF Cmds
  <1> QED
    BY Zenon, <1>1, <1>4, <1>5, <1>6

\* What WriteFD takes from a buffer and what it leaves were both in it.
LEMMA CmdsSubSeq ==
    ASSUME NEW s \in Seq(Msg), NEW k \in 0..Len(s)
    PROVE  /\ SubSeq(s, 1, k) \in Seq(Msg) /\ Cmds(SubSeq(s, 1, k)) \subseteq Cmds(s)
           /\ SubSeq(s, k + 1, Len(s)) \in Seq(Msg)
           /\ Cmds(SubSeq(s, k + 1, Len(s))) \subseteq Cmds(s)
           /\ Len(SubSeq(s, k + 1, Len(s))) = Len(s) - k
  <1>1. SubSeq(s, 1, k) \in Seq(Msg) /\ Len(SubSeq(s, 1, k)) = k
        /\ \A i \in 1..k : SubSeq(s, 1, k)[i] = s[i]
    OBVIOUS
  <1>2. SubSeq(s, k + 1, Len(s)) \in Seq(Msg) /\ Len(SubSeq(s, k + 1, Len(s))) = Len(s) - k
        /\ \A i \in 1..(Len(s) - k) : SubSeq(s, k + 1, Len(s))[i] = s[k + i]
    OBVIOUS
  <1>3. Cmds(SubSeq(s, k + 1, Len(s))) \subseteq Cmds(s)
    <2> SUFFICES ASSUME NEW i \in 1..(Len(s) - k) PROVE s[k + i].cmd \in Cmds(s)
      BY <1>2 DEF Cmds
    <2> QED
      BY k + i \in 1..Len(s) DEF Cmds
  <1>4. Cmds(SubSeq(s, 1, k)) \subseteq Cmds(s)
    BY <1>1 DEF Cmds
  <1> QED
    BY Zenon, <1>1, <1>2, <1>3, <1>4

\* Decoding takes one message off what can be read and adds none.
LEMMA CmdsHeadTail ==
    ASSUME NEW s \in Seq(Msg), s # <<>>
    PROVE  /\ Head(s) \in Msg /\ Head(s).cmd \in Cmds(s)
           /\ Tail(s) \in Seq(Msg) /\ Cmds(Tail(s)) \subseteq Cmds(s)
  <1>1. Head(s) = s[1] /\ Len(s) >= 1 /\ s[1] \in Msg
    OBVIOUS
  <1>2. Tail(s) \in Seq(Msg) /\ Len(Tail(s)) = Len(s) - 1
        /\ \A i \in 1..(Len(s) - 1) : Tail(s)[i] = s[i + 1]
    OBVIOUS
  <1>3. Cmds(Tail(s)) \subseteq Cmds(s)
    <2> SUFFICES ASSUME NEW i \in 1..(Len(s) - 1) PROVE s[i + 1].cmd \in Cmds(s)
      BY <1>2 DEF Cmds
    <2> QED
      BY i + 1 \in 1..Len(s), <1>1 DEF Cmds
  <1> QED
    BY <1>1, <1>2, <1>3 DEF Cmds

\* A buffer with no command is empty.
LEMMA CmdsNone ==
    ASSUME NEW s \in Seq(Msg), Cmds(s) = {}
    PROVE  s = <<>>
  <1> SUFFICES ASSUME s # <<>> PROVE FALSE
    BY Zenon
  <1> QED
    BY Zenon, CmdsHeadTail

-----------------------------------------------------------------------------
(* Steps of one endpoint. *)

\* What an endpoint step does apart from the endpoint itself and the wires.
Frame(e) ==
    /\ UNCHANGED <<at, initiator, nSeq>>
    /\ step' \in [Conn -> Step]
    /\ \A c \in Conn : step'[c].kind = "tell" =>
          step[c].kind = "tell" \/ at[c] \notin {"none", "manager"}
    /\ workerIndex' \subseteq Conn
    /\ \A c \in workerIndex : c \in workerIndex' \/ e = Out(c)
    /\ rcvd' \in [End -> Seq(0..MaxMsg)]
    /\ nMsg' \in 0..MaxMsg /\ nBeat' \in 0..MaxBeat /\ nCrash' \in 0..MaxCrash

\* The shell map with, possibly, the endpoint as the way to the peer.
ShellOf(e, sh) ==
    /\ sh \in [Worker -> End \cup {NoShell}]
    /\ \A w \in Worker : sh[w] = shell[w] \/ (sh[w] = e /\ Owner(e) = w)

\* What may become of the connection of an endpoint before it is written out.
Sound(e, r) ==
    /\ attr[e].ucConnectStatus = "ok" => r.ucConnectStatus = "ok"
    /\ "DATA" \in Cmds(r.pSendBuff) => r.ucConnectStatus = "ok"
    /\ e[2] = "in" /\ "RSP_TELL" \in Cmds(r.pSendBuff) => r.ucConnectStatus = "ok"
    /\ e[2] = "out" /\ r.ucConnectStatus = "ok" =>
          attr[e].ucConnectStatus = "ok" \/ "RSP_TELL" \in Cmds(wire[In(e[1])])
    /\ e[2] = "out" /\ at[e[1]] = "manager" => Cmds(r.pSendBuff) \subseteq {"REQ_CONNECT"}

\* An endpoint that encodes, writes and reads keeps the invariant.
LEMMA LocalStep ==
    ASSUME IInv, NEW e \in End, Frame(e), attr[e].bOpen,
           NEW r \in Attr, Sound(e, r),
           NEW q \in Attr, q.bOpen, q.ucConnectStatus = r.ucConnectStatus,
           Cmds(q.pSendBuff) \subseteq Cmds(r.pSendBuff),
           q.bWriteEvent /\ q.ucConnectStatus # "ok" =>
               e[2] = "out" /\ (q.pSendBuff = <<>> => e[1] \in workerIndex'),
           NEW x \in Seq(Msg), Cmds(x) \subseteq Cmds(wire[e]) \cup Cmds(r.pSendBuff),
           NEW y \in Seq(Msg), Cmds(y) \subseteq Cmds(wire[Other(e)]),
           attr' = [attr EXCEPT ![e] = q],
           wire' = [wire EXCEPT ![e] = x, ![Other(e)] = y],
           ShellOf(e, shell')
    PROVE  IInv'
  <1>t. TypeOK
    BY Zenon DEF IInv
  <1>a. attr'[e] = q /\ \A d \in End : d # e => attr'[d] = attr[d]
    BY Zenon, <1>t DEF TypeOK
  <1>w. /\ wire'[e] = x /\ wire'[Other(e)] = y
        /\ \A d \in End : d # e /\ d # Other(e) => wire'[d] = wire[d]
    BY Zenon, <1>t, EndFacts DEF TypeOK
  <1>o. \A d \in End : Owner(d)' = Owner(d)
    BY Zenon DEF Owner, Frame
  <1>1. TypeOK'
    BY Zenon, <1>t, EndFacts DEF TypeOK, Frame, ShellOf
  <1>2. ShellIsLive'
    BY SMTT(20), <1>a, <1>o DEF IInv, ShellIsLive, ShellOf
  <1>3. Lifecycle'
    BY <1>a, EndFacts DEF IInv, Lifecycle, Frame
  <1>4. ManagerPhase'
    <2> SUFFICES ASSUME NEW c \in Conn, at[c] \in {"none", "manager"}
                 PROVE  /\ wire'[In(c)] = <<>>
                        /\ Cmds(wire'[Out(c)]) \subseteq {"REQ_CONNECT"}
                        /\ Cmds(attr'[Out(c)].pSendBuff) \subseteq {"REQ_CONNECT"}
                        /\ step'[c].kind # "tell"
      BY Zenon DEF ManagerPhase, Frame, Cmds
    <2>1. /\ wire[In(c)] = <<>> /\ Cmds(wire[Out(c)]) \subseteq {"REQ_CONNECT"}
          /\ Cmds(attr[Out(c)].pSendBuff) \subseteq {"REQ_CONNECT"} /\ step[c].kind # "tell"
      BY Zenon DEF IInv, ManagerPhase
    <2>2. e # In(c)
      BY Zenon DEF IInv, Lifecycle
    <2>3. CASE e = Out(c)
      <3>1. at[c] = "manager" /\ e[2] = "out" /\ e[1] = c /\ Other(e) = In(c)
        BY Zenon, <2>3, EndFacts DEF IInv, Lifecycle, Out
      <3>2. Cmds(r.pSendBuff) \subseteq {"REQ_CONNECT"}
        BY Zenon, <3>1 DEF Sound
      <3>3. y = <<>>
        BY Zenon, <3>1, <2>1, CmdsEmpty, CmdsNone
      <3>4. wire'[In(c)] = y /\ wire'[Out(c)] = x /\ attr'[Out(c)] = q
        BY Zenon, <1>a, <1>w, <2>3, <3>1
      <3>5. Cmds(x) \subseteq {"REQ_CONNECT"} /\ Cmds(q.pSendBuff) \subseteq {"REQ_CONNECT"}
        BY Zenon, <2>1, <2>3, <3>2
      <3>6. step'[c].kind # "tell"
        BY Zenon, <2>1 DEF Frame
      <3> QED
        BY Zenon, <3>3, <3>4, <3>5, <3>6
    <2>4. CASE e # Out(c)
      <3>1. Other(e) # In(c) /\ Other(e) # Out(c)
        BY <2>2, <2>4, EndFacts
      <3> QED
        BY Zenon, <1>a, <1>w, <2>1, <2>2, <2>4, <3>1, EndFacts DEF Frame
    <2> QED
      BY Zenon, <2>3, <2>4
  <1>5. PassingPhase'
    <2> SUFFICES ASSUME NEW c \in Conn, at[c] \in {"none", "manager", "passed"}
                 PROVE  /\ attr'[Out(c)].ucConnectStatus # "ok"
                        /\ "RSP_TELL" \notin Cmds(wire'[In(c)])
                        /\ "DATA" \notin Cmds(wire'[In(c)])
      BY Zenon DEF PassingPhase, Frame, Cmds
    <2>1. /\ attr[Out(c)].ucConnectStatus # "ok"
          /\ "RSP_TELL" \notin Cmds(wire[In(c)]) /\ "DATA" \notin Cmds(wire[In(c)])
      BY Zenon DEF IInv, PassingPhase
    <2>2. e # In(c)
      BY Zenon DEF IInv, Lifecycle
    <2>3. CASE e = Out(c)
      <3>1. e[2] = "out" /\ e[1] = c /\ Other(e) = In(c)
        BY Zenon, <2>3, EndFacts DEF Out
      <3> QED
        BY <1>a, <1>w, <2>1, <2>3, <3>1 DEF Sound
    <2>4. CASE e # Out(c)
      BY Zenon, <1>a, <1>w, <2>1, <2>2, <2>4, EndFacts
    <2> QED
      BY Zenon, <2>3, <2>4
  <1>6. ArmedEvent'
    <2> SUFFICES ASSUME NEW d \in End, attr'[d].bWriteEvent, attr'[d].ucConnectStatus # "ok"
                 PROVE  d[2] = "out" /\ (attr'[d].pSendBuff = <<>> => d[1] \in workerIndex')
      BY Zenon DEF ArmedEvent
    <2>1. CASE d = e
      BY Zenon, <2>1, <1>a
    <2>2. CASE d # e
      BY SMTT(20), <2>2, <1>a, EndFacts DEF IInv, ArmedEvent, Frame
    <2> QED
      BY Zenon, <2>1, <2>2
  <1>7. Established'
    <2>1. ASSUME NEW d \in End, attr'[d].bOpen,
                 "DATA" \in Cmds(wire'[d]) \cup Cmds(attr'[d].pSendBuff)
          PROVE  attr'[d].ucConnectStatus = "ok"
      <3>1. CASE d = e
        BY <2>1, <3>1, <1>a, <1>w DEF IInv, Established, Sound
      <3>2. CASE d # e
        <4>1. Cmds(wire'[d]) \subseteq Cmds(wire[d])
          BY Zenon, <3>2, <1>w
        <4> QED
          BY <4>1, <2>1, <3>2, <1>a DEF IInv, Established
      <3> QED
        BY Zenon, <3>1, <3>2
    <2>2. ASSUME NEW c \in Conn, attr'[In(c)].bOpen,
                 "RSP_TELL" \in Cmds(wire'[In(c)]) \cup Cmds(attr'[In(c)].pSendBuff)
          PROVE  attr'[In(c)].ucConnectStatus = "ok"
      <3>1. CASE In(c) = e
        BY <2>2, <3>1, <1>a, <1>w, EndFacts DEF IInv, Established, Sound, In
      <3>2. CASE In(c) # e
        <4>1. Cmds(wire'[In(c)]) \subseteq Cmds(wire[In(c)])
          BY Zenon, <3>2, <1>w, EndFacts
        <4> QED
          BY Zenon, <4>1, <2>2, <3>2, <1>a, EndFacts DEF IInv, Established
      <3> QED
        BY Zenon, <3>1, <3>2
    <2>3. ASSUME NEW c \in Conn, attr'[Out(c)].bOpen, attr'[Out(c)].ucConnectStatus = "ok",
                 attr'[In(c)].bOpen
          PROVE  attr'[In(c)].ucConnectStatus = "ok"
      <3>1. CASE e = Out(c)
        <4>1. e[2] = "out" /\ e[1] = c /\ In(c) # e
          BY Zenon, <3>1, EndFacts DEF Out
        <4>2. attr'[In(c)] = attr[In(c)]
          BY Zenon, <4>1, <1>a, EndFacts
        <4> QED
          BY <2>3, <3>1, <4>1, <4>2, <1>a DEF IInv, Established, Sound
      <3>2. CASE e = In(c)
        BY <2>3, <3>2, <1>a, EndFacts DEF IInv, Established, Sound
      <3>3. CASE e # Out(c) /\ e # In(c)
        BY Zenon, <2>3, <3>3, <1>a, EndFacts DEF IInv, Established
      <3> QED
        BY Zenon, <3>1, <3>2, <3>3
    <2> QED
      BY Zenon, <2>1, <2>2, <2>3 DEF Established, Cmds
  <1> QED
    BY Zenon, <1>1, <1>2, <1>3, <1>4, <1>5, <1>6, <1>7 DEF IInv

\* Destroying an endpoint keeps the invariant.
LEMMA DestroyStep ==
    ASSUME IInv, NEW e \in End, Frame(e), attr[e].bOpen,
           NEW sh, ShellOf(e, sh), DestroyConnect(e, sh)
    PROVE  IInv'
  <1>t. TypeOK
    BY Zenon DEF IInv
  <1>c. Closed \in Attr /\ ~Closed.bOpen /\ ~Closed.bWriteEvent
        /\ Closed.ucConnectStatus = "init" /\ Closed.pSendBuff = <<>>
    BY DEF Closed, Attr
  <1>a. attr'[e] = Closed /\ \A d \in End : d # e => attr'[d] = attr[d]
    BY Zenon, <1>t DEF TypeOK, DestroyConnect
  <1>w. wire'[Other(e)] = <<>> /\ \A d \in End : d # Other(e) => wire'[d] = wire[d]
    BY Zenon, <1>t, EndFacts DEF TypeOK, DestroyConnect
  <1>v. \A d \in End : Cmds(wire'[d]) \subseteq Cmds(wire[d]) /\ (wire[d] = <<>> => wire'[d] = <<>>)
    BY Zenon, <1>w, CmdsEmpty, EndFacts
  <1>o. \A d \in End : Owner(d)' = Owner(d)
    BY Zenon DEF Owner, Frame
  <1>1. TypeOK'
    <2>1. attr' \in [End -> Attr]
      BY Zenon, <1>t, <1>c DEF TypeOK, DestroyConnect
    <2>2. wire' \in [End -> Seq(Msg)]
      BY <1>t, EndFacts DEF TypeOK, DestroyConnect
    <2>3. shell' \in [Worker -> End \cup {NoShell}]
      BY Zenon DEF DestroyConnect, DelMsgShell, ShellOf
    <2> QED
      BY Zenon, <1>t, <2>1, <2>2, <2>3 DEF TypeOK, Frame
  <1>2. ShellIsLive'
    <2> SUFFICES ASSUME NEW w \in Worker, shell'[w] # NoShell
                 PROVE  attr'[shell'[w]].bOpen /\ Owner(shell[w])' = w
      BY Zenon DEF ShellIsLive
    <2>1. shell'[w] = sh[w] /\ sh[w] # e
      BY Zenon DEF DestroyConnect, DelMsgShell
    <2>2. sh[w] = shell[w] /\ shell[w] \in End
      BY Zenon, <2>1, <1>t DEF ShellOf, TypeOK
    <2>3. attr[shell[w]].bOpen /\ Owner(shell[w]) = w
      BY Zenon, <2>1, <2>2, EndFacts DEF IInv, ShellIsLive
    <2>4. shell'[w] = shell[w] /\ attr'[shell[w]] = attr[shell[w]] /\ initiator' = initiator
      BY Zenon, <2>1, <2>2, <1>a DEF Frame
    <2> QED
      BY Zenon, <2>3, <2>4 DEF Owner
  <1>3. Lifecycle'
    <2>1. \A d \in End : attr'[d].bOpen => attr[d].bOpen
      BY Zenon, <1>a, <1>c
    <2>2. \A d \in End : ~attr'[d].bOpen => attr'[d] = Closed
      BY Zenon, <1>a DEF IInv, Lifecycle
    <2> QED
      BY Zenon, <2>1, <2>2, EndFacts DEF IInv, Lifecycle, Frame
  <1>4. ManagerPhase'
    <2> SUFFICES ASSUME NEW c \in Conn, at[c] \in {"none", "manager"}
                 PROVE  /\ wire'[In(c)] = <<>>
                        /\ Cmds(wire'[Out(c)]) \subseteq {"REQ_CONNECT"}
                        /\ Cmds(attr'[Out(c)].pSendBuff) \subseteq {"REQ_CONNECT"}
                        /\ step'[c].kind # "tell"
      BY Zenon DEF ManagerPhase, Frame, Cmds
    <2>1. /\ wire[In(c)] = <<>> /\ Cmds(wire[Out(c)]) \subseteq {"REQ_CONNECT"}
          /\ Cmds(attr[Out(c)].pSendBuff) \subseteq {"REQ_CONNECT"} /\ step[c].kind # "tell"
      BY Zenon DEF IInv, ManagerPhase
    <2>2. Cmds(attr'[Out(c)].pSendBuff) \subseteq Cmds(attr[Out(c)].pSendBuff)
      BY Zenon, <1>a, <1>c, CmdsEmpty, EndFacts
    <2> QED
      BY Zenon, <1>v, <2>1, <2>2, EndFacts DEF Frame
  <1>5. PassingPhase'
    <2> SUFFICES ASSUME NEW c \in Conn, at[c] \in {"none", "manager", "passed"}
                 PROVE  /\ attr'[Out(c)].ucConnectStatus # "ok"
                        /\ "RSP_TELL" \notin Cmds(wire'[In(c)])
                        /\ "DATA" \notin Cmds(wire'[In(c)])
      BY Zenon DEF PassingPhase, Frame, Cmds
    <2>1. /\ attr[Out(c)].ucConnectStatus # "ok"
          /\ "RSP_TELL" \notin Cmds(wire[In(c)]) /\ "DATA" \notin Cmds(wire[In(c)])
      BY Zenon DEF IInv, PassingPhase
    <2>2. attr'[Out(c)].ucConnectStatus # "ok"
      BY Zenon, <2>1, <1>a, <1>c, EndFacts
    <2>3. Cmds(wire'[In(c)]) \subseteq Cmds(wire[In(c)])
      BY Zenon, <1>v, EndFacts
    <2> QED
      BY Zenon, <2>1, <2>2, <2>3
  <1>6. ArmedEvent'
    <2> SUFFICES ASSUME NEW d \in End, attr'[d].bWriteEvent, attr'[d].ucConnectStatus # "ok"
                 PROVE  d[2] = "out" /\ (attr'[d].pSendBuff = <<>> => d[1] \in workerIndex')
      BY Zenon DEF ArmedEvent
    <2>1. d # e
      BY Zenon, <1>a, <1>c
    <2> QED
      BY <2>1, <1>a, EndFacts DEF IInv, ArmedEvent, Frame
  <1>7. Established'
    <2>1. ASSUME NEW d \in End, attr'[d].bOpen
          PROVE  d # e /\ attr'[d] = attr[d] /\ Cmds(wire'[d]) \subseteq Cmds(wire[d])
      BY Zenon, <2>1, <1>a, <1>c, <1>v
    <2>2. ASSUME NEW d \in End, attr'[d].bOpen,
                 "DATA" \in Cmds(wire'[d]) \cup Cmds(attr'[d].pSendBuff)
          PROVE  attr'[d].ucConnectStatus = "ok"
      BY Zenon, <2>1, <2>2 DEF IInv, Established
    <2>3. ASSUME NEW c \in Conn, attr'[In(c)].bOpen,
                 "RSP_TELL" \in Cmds(wire'[In(c)]) \cup Cmds(attr'[In(c)].pSendBuff)
          PROVE  attr'[In(c)].ucConnectStatus = "ok"
      BY Zenon, <2>1, <2>3, EndFacts DEF IInv, Established
    <2>4. ASSUME NEW c \in Conn, attr'[Out(c)].bOpen, attr'[Out(c)].ucConnectStatus = "ok",
                 attr'[In(c)].bOpen
          PROVE  attr'[In(c)].ucConnectStatus = "ok"
      BY <2>1, <2>4, EndFacts DEF IInv, Established
    <2> QED
      BY Zenon, <2>2, <2>3, <2>4 DEF Established, Cmds
  <1> QED
    BY Zenon, <1>1, <1>2, <1>3, <1>4, <1>5, <1>6, <1>7 DEF IInv

\* An armed write event before the connection is established.
Armed(e, q) ==
    q.bWriteEvent /\ q.ucConnectStatus # "ok" =>
        e[2] = "out" /\ (q.pSendBuff = <<>> => e[1] \in workerIndex')

\* WriteFD followed by the write-event update leaves a well-formed connection; an

\* event stays armed only for a rest that is to be sent.
LEMMA WrittenFacts ==
    ASSUME NEW r \in Attr, NEW k \in 0..Len(r.pSendBuff)
    PROVE  /\ Written(r, k) \in Attr
           /\ Written(r, k).bOpen = r.bOpen
           /\ Written(r, k).ucConnectStatus = r.ucConnectStatus
           /\ Cmds(Written(r, k).pSendBuff) \subseteq Cmds(r.pSendBuff)
           /\ r.pSendBuff # <<>> /\ Written(r, k).bWriteEvent => Written(r, k).pSendBuff # <<>>
  <1> DEFINE q == Written(r, k)
             rest == SubSeq(r.pSendBuff, k + 1, Len(r.pSendBuff))
  <1>1. r.pSendBuff \in Seq(Msg)
    BY Zenon DEF Attr
  <1>2. rest \in Seq(Msg) /\ Cmds(rest) \subseteq Cmds(r.pSendBuff)
        /\ Len(rest) = Len(r.pSendBuff) - k
    BY Zenon, <1>1, CmdsSubSeq
  <1>3. CASE r.pSendBuff = <<>>
    BY Zenon, <1>3 DEF Written
  <1>4. CASE r.pSendBuff # <<>>
    <2>1. q = [r EXCEPT !.pSendBuff = rest, !.bWriteEvent = k < Len(r.pSendBuff)]
      BY Zenon, <1>4 DEF Written
    <2>2. (k < Len(r.pSendBuff)) \in BOOLEAN
      OBVIOUS
    <2> HIDE DEF q, rest
    <2>3. q \in Attr /\ q.bOpen = r.bOpen /\ q.ucConnectStatus = r.ucConnectStatus
          /\ q.pSendBuff = rest /\ q.bWriteEvent = (k < Len(r.pSendBuff))
      BY Zenon, <2>1, <2>2, <1>2 DEF Attr
    <2>4. k < Len(r.pSendBuff) => rest # <<>>
      <3>1. Len(r.pSendBuff) \in Nat /\ k \in Nat
        BY <1>1
      <3>2. rest = <<>> => Len(rest) = 0
        OBVIOUS
      <3> QED
        BY <3>1, <3>2, <1>2
    <2> QED
      BY Zenon, <2>3, <2>4, <1>2 DEF q
  <1> QED
    BY Zenon, <1>3, <1>4

\* Writing k messages of an endpoint's connection r, which leaves it as q.
LEMMA WriteOutStep ==
    ASSUME IInv, NEW e \in End, Frame(e), attr[e].bOpen,
           NEW r \in Attr, Sound(e, r), NEW k \in 0..Len(r.pSendBuff),
           NEW q \in Attr, q.bOpen, q.ucConnectStatus = r.ucConnectStatus,
           Cmds(q.pSendBuff) \subseteq Cmds(r.pSendBuff), Armed(e, q),
           NEW y \in Seq(Msg), Cmds(y) \subseteq Cmds(wire[Other(e)]),
           NEW net, net = [wire EXCEPT ![Other(e)] = y],
           attr' = [attr EXCEPT ![e] = q],
           wire' = Carry(net, e, SubSeq(r.pSendBuff, 1, k)),
           ShellOf(e, shell')
    PROVE  IInv'
  <1> DEFINE ms == SubSeq(r.pSendBuff, 1, k)
             x == IF PeerGone(e) THEN <<>> ELSE wire[e] \o ms
  <1>1. r.pSendBuff \in Seq(Msg) /\ wire[e] \in Seq(Msg) /\ wire \in [End -> Seq(Msg)]
    BY Zenon DEF Attr, IInv, TypeOK
  <1>2. ms \in Seq(Msg) /\ Cmds(ms) \subseteq Cmds(r.pSendBuff)
    BY Zenon, <1>1, CmdsSubSeq
  <1>3. x \in Seq(Msg) /\ Cmds(x) \subseteq Cmds(wire[e]) \cup Cmds(r.pSendBuff)
    <2> HIDE DEF ms
    <2>1. CASE PeerGone(e)
      BY <2>1, CmdsEmpty
    <2>2. CASE ~PeerGone(e)
      <3>1. wire[e] \o ms \in Seq(Msg) /\ Cmds(wire[e] \o ms) = Cmds(wire[e]) \cup Cmds(ms)
        BY Zenon, <1>1, <1>2, CmdsConcat
      <3>2. x = wire[e] \o ms
        BY Zenon, <2>2
      <3> HIDE DEF x
      <3> QED
        BY Zenon, <3>1, <3>2, <1>2
    <2> QED
      BY Zenon, <2>1, <2>2
  <1>4. wire' = [wire EXCEPT ![e] = x, ![Other(e)] = y]
    BY Zenon, <1>1, EndFacts DEF Carry
  <1> HIDE DEF x, ms
  <1> QED
    BY Zenon, <1>3, <1>4, LocalStep DEF Armed

\* Writing out an endpoint's connection r, or destroying it, keeps the invariant.
LEMMA WriteFDStep ==
    ASSUME IInv, NEW e \in End, Frame(e), attr[e].bOpen,
           NEW r \in Attr, r.bOpen, Sound(e, r),
           r.ucConnectStatus # "ok" => e[2] = "out" /\ r.pSendBuff # <<>>,
           NEW y \in Seq(Msg), Cmds(y) \subseteq Cmds(wire[Other(e)]),
           NEW net, net = [wire EXCEPT ![Other(e)] = y],
           NEW sh, ShellOf(e, sh), NEW least \in Nat,
           WriteFD(e, r, sh, net, least)
    PROVE  IInv'
  <1>1. CASE PeerGone(e) /\ DestroyConnect(e, sh)
    BY Zenon, <1>1, DestroyStep
  <1>2. ASSUME NEW k \in least..Len(r.pSendBuff),
               attr' = [attr EXCEPT ![e] = Written(r, k)],
               wire' = Carry(net, e, SubSeq(r.pSendBuff, 1, k)),
               shell' = sh
        PROVE  IInv'
    <2>1. k \in 0..Len(r.pSendBuff)
      BY DEF Attr
    <2>2. Armed(e, Written(r, k))
      BY Zenon, <2>1, WrittenFacts DEF Armed
    <2> QED
      BY Zenon, <1>2, <2>1, <2>2, WrittenFacts, WriteOutStep
  <1> QED
    BY Zenon, <1>1, <1>2 DEF WriteFD

\* The messages the workers send, and that application data is no handshake command.
LEMMA MessageFacts ==
    /\ \A cmd \in Cmd : M(cmd) \in Msg /\ M(cmd).cmd = cmd
    /\ \A i \in 0..MaxMsg : Data(i) \in Msg /\ Data(i).cmd = "DATA"
    /\ "DATA" \notin HandshakeCmd
    /\ {"REQ_CONNECT", "RSP_CONNECT", "REQ_TELL", "RSP_TELL", "RSP_SYS_ERROR",
        "REQ_BEAT", "RSP_BEAT", "DATA"} \subseteq Cmd
  BY BoundAssumption DEF M, Data, Msg, Cmd, HandshakeCmd

\* Encoding puts a message into exactly one of the two buffers, and only RSP_TELL or

\* an established connection makes the status ok.
LEMMA EncodeFacts ==
    ASSUME NEW r \in Attr, NEW m \in Msg
    PROVE  /\ Encode(r, m) \in Attr /\ Encode(r, m).bOpen = r.bOpen
           /\ Encode(r, m).bWriteEvent = r.bWriteEvent
           /\ Waits(r, m) => /\ Encode(r, m).pSendBuff = r.pSendBuff
                             /\ Encode(r, m).ucConnectStatus = r.ucConnectStatus
           /\ ~Waits(r, m) =>
                 /\ Cmds(Encode(r, m).pSendBuff) = Cmds(r.pSendBuff) \cup {m.cmd}
                 /\ Encode(r, m).pSendBuff # <<>>
                 /\ Encode(r, m).ucConnectStatus =
                       IF r.ucConnectStatus = "ok" \/ m.cmd = "RSP_TELL"
                       THEN "ok" ELSE "connecting"
  <1>1. r.pSendBuff \in Seq(Msg) /\ r.pWaitForSendBuff \in Seq(Msg)
    BY Zenon DEF Attr
  <1>2. CASE Waits(r, m)
    BY Zenon, <1>1, <1>2, CmdsAppend DEF Encode, Attr
  <1>3. CASE ~Waits(r, m)
    <2> DEFINE b == Append(r.pSendBuff, m)
               st == IF r.ucConnectStatus = "ok" \/ m.cmd = "RSP_TELL"
                     THEN "ok" ELSE "connecting"
    <2>1. Encode(r, m) = [r EXCEPT !.pSendBuff = b, !.ucConnectStatus = st]
      BY Zenon, <1>3 DEF Encode
    <2>2. b \in Seq(Msg) /\ Cmds(b) = Cmds(r.pSendBuff) \cup {m.cmd} /\ b # <<>>
      <3>1. b \in Seq(Msg) /\ Len(b) # 0
        BY <1>1
      <3>2. Cmds(b) = Cmds(r.pSendBuff) \cup {m.cmd}
        BY Zenon, <1>1, CmdsAppend
      <3>3. b = <<>> => Len(b) = 0
        OBVIOUS
      <3> HIDE DEF b
      <3> QED
        BY Zenon, <3>1, <3>2, <3>3
    <2>3. st \in {"init", "connecting", "ok"}
      BY Zenon
    <2> HIDE DEF b
    <2> QED
      BY Zenon, <2>1, <2>2, <2>3, <1>3 DEF Attr
  <1> QED
    BY Zenon, <1>2, <1>3

\* Sending a message that the endpoint may send keeps the invariant.
LEMMA SendToStep ==
    ASSUME IInv, NEW e \in End, Frame(e), attr[e].bOpen,
           NEW r \in Attr, r.bOpen, Sound(e, r), Armed(e, r),
           NEW y \in Seq(Msg), Cmds(y) \subseteq Cmds(wire[Other(e)]),
           NEW net, net = [wire EXCEPT ![Other(e)] = y],
           NEW sh, ShellOf(e, sh),
           NEW m \in Msg, SendTo(e, r, sh, net, m),
           e[2] = "out" => m.cmd # "RSP_TELL",
           e[2] = "out" /\ at[e[1]] = "manager" /\ ~Waits(r, m) => m.cmd = "REQ_CONNECT",
           e[2] = "in" /\ ~Waits(r, m) => r.ucConnectStatus = "ok" \/ m.cmd = "RSP_TELL"
    PROVE  IInv'
  <1> DEFINE q == Encode(r, m)
  <1>1. CASE Waits(r, m)
    <2>1. /\ q \in Attr /\ q.bOpen /\ q.ucConnectStatus = r.ucConnectStatus
          /\ q.pSendBuff = r.pSendBuff /\ q.bWriteEvent = r.bWriteEvent
      BY Zenon, <1>1, EncodeFacts
    <2>2. attr' = [attr EXCEPT ![e] = q] /\ wire' = net /\ shell' = sh
      BY Zenon, <1>1 DEF SendTo
    <2>3. wire' = [wire EXCEPT ![e] = wire[e], ![Other(e)] = y] /\ wire[e] \in Seq(Msg)
      BY Zenon, <2>2, EndFacts DEF IInv, TypeOK
    <2> HIDE DEF q
    <2> QED
      BY Zenon, <2>1, <2>2, <2>3, LocalStep DEF Armed
  <1>2. CASE ~Waits(r, m)
    <2>1. /\ q \in Attr /\ q.bOpen /\ q.pSendBuff # <<>>
          /\ Cmds(q.pSendBuff) = Cmds(r.pSendBuff) \cup {m.cmd}
          /\ q.ucConnectStatus = IF r.ucConnectStatus = "ok" \/ m.cmd = "RSP_TELL"
                                 THEN "ok" ELSE "connecting"
      BY Zenon, <1>2, EncodeFacts
    <2>2. WriteFD(e, q, sh, net, 0)
      BY Zenon, <1>2 DEF SendTo
    <2>3. m.cmd = "DATA" => r.ucConnectStatus = "ok"
      BY Zenon, <1>2, MessageFacts DEF Waits
    <2>4. e[2] \in {"in", "out"}
      BY Zenon, EndFacts DEF Side
    <2> HIDE DEF q
    <2>5. Sound(e, q)
      BY Zenon, <1>2, <2>1, <2>3, <2>4 DEF Sound
    <2>6. q.ucConnectStatus # "ok" => e[2] = "out" /\ q.pSendBuff # <<>>
      BY Zenon, <1>2, <2>1, <2>4
    <2> QED
      BY Zenon, <2>1, <2>2, <2>5, <2>6, WriteFDStep
  <1> QED
    BY Zenon, <1>1, <1>2

-----------------------------------------------------------------------------
(* The connection of an endpoint as it stands, and with a message decoded. *)

\* A step that touches only an endpoint, the wires, the shells and the counters.
LEMMA FrameSame ==
    ASSUME IInv, NEW e, UNCHANGED <<at, initiator, workerIndex, step, nSeq>>,
           rcvd' \in [End -> Seq(0..MaxMsg)], nMsg' \in 0..MaxMsg,
           nBeat' \in 0..MaxBeat, nCrash' \in 0..MaxCrash
    PROVE  Frame(e)
  BY Zenon DEF IInv, TypeOK, Frame

\* A step that also changes the handshake step of a connection.
LEMMA FrameStep ==
    ASSUME IInv, NEW e, UNCHANGED <<at, initiator, workerIndex, rcvd, counters>>,
           NEW c \in Conn, NEW s \in Step, step' = [step EXCEPT ![c] = s],
           s.kind = "tell" => step[c].kind = "tell" \/ at[c] \notin {"none", "manager"}
    PROVE  Frame(e)
  BY Zenon DEF IInv, TypeOK, Frame, counters

\* The connection of an endpoint, unchanged, meets what the step lemmas ask of it.
LEMMA AsItStands ==
    ASSUME IInv, NEW e \in End
    PROVE  /\ attr[e] \in Attr /\ Sound(e, attr[e])
           /\ workerIndex' = workerIndex => Armed(e, attr[e])
           /\ wire[Other(e)] \in Seq(Msg)
           /\ wire = [wire EXCEPT ![Other(e)] = wire[Other(e)]]
           /\ Owner(e) \in Worker
           /\ ShellOf(e, shell) /\ ShellOf(e, [shell EXCEPT ![Owner(e)] = e])
  <1>t. TypeOK
    BY Zenon DEF IInv
  <1>1. attr[e] \in Attr /\ wire[Other(e)] \in Seq(Msg)
        /\ wire = [wire EXCEPT ![Other(e)] = wire[Other(e)]]
    BY Zenon, <1>t, EndFacts DEF TypeOK
  <1>2. Owner(e) \in Worker
    BY Zenon, <1>t, EndFacts DEF TypeOK, Owner, Worker, Peer
  <1>3. ShellOf(e, shell) /\ ShellOf(e, [shell EXCEPT ![Owner(e)] = e])
    BY Zenon, <1>t, <1>2 DEF TypeOK, ShellOf
  <1>4. workerIndex' = workerIndex => Armed(e, attr[e])
    BY Zenon DEF IInv, ArmedEvent, Armed
  <1>5. Sound(e, attr[e])
    <2>1. CASE attr[e].bOpen
      <3>1. "DATA" \in Cmds(attr[e].pSendBuff) => attr[e].ucConnectStatus = "ok"
        BY Zenon, <2>1 DEF IInv, Established
      <3>2. e[2] = "in" /\ "RSP_TELL" \in Cmds(attr[e].pSendBuff)
                => attr[e].ucConnectStatus = "ok"
        BY <2>1, EndFacts DEF IInv, Established
      <3>3. e[2] = "out" /\ at[e[1]] = "manager"
                => Cmds(attr[e].pSendBuff) \subseteq {"REQ_CONNECT"}
        BY Zenon, EndFacts DEF IInv, ManagerPhase
      <3> QED
        BY Zenon, <3>1, <3>2, <3>3 DEF Sound
    <2>2. CASE ~attr[e].bOpen
      <3>1. attr[e].pSendBuff = <<>> /\ attr[e].ucConnectStatus = "init"
        BY <2>2 DEF IInv, Lifecycle, Closed
      <3> QED
        BY Zenon, <3>1, CmdsEmpty DEF Sound
    <2> QED
      BY Zenon, <2>1, <2>2
  <1> QED
    BY Zenon, <1>1, <1>2, <1>3, <1>4, <1>5

\* So does the connection after ProtoCodec::Decode of the next message.
LEMMA ReadFacts ==
    ASSUME IInv, NEW e \in End, NEW cmd, CanRead(e, cmd),
           cmd = "RSP_TELL" => e[2] = "out"
    PROVE  /\ Decoded(e) \in Attr /\ Decoded(e).bOpen
           /\ Decoded(e).pSendBuff = attr[e].pSendBuff
           /\ Decoded(e).bWriteEvent = attr[e].bWriteEvent
           /\ Decoded(e).ucConnectStatus = "ok" <=>
                 attr[e].ucConnectStatus = "ok" \/ cmd = "RSP_TELL"
           /\ Sound(e, Decoded(e))
           /\ workerIndex' = workerIndex => Armed(e, Decoded(e))
           /\ Incoming(e) \in Msg /\ cmd \in Cmds(wire[Other(e)])
           /\ Read(e) = [wire EXCEPT ![Other(e)] = Tail(wire[Other(e)])]
           /\ Tail(wire[Other(e)]) \in Seq(Msg)
           /\ Cmds(Tail(wire[Other(e)])) \subseteq Cmds(wire[Other(e)])
  <1>1. attr[e] \in Attr /\ wire[Other(e)] \in Seq(Msg) /\ attr[e].bOpen
        /\ wire[Other(e)] # <<>> /\ Incoming(e).cmd = cmd
    BY Zenon, AsItStands DEF CanRead
  <1>2. Incoming(e) \in Msg /\ cmd \in Cmds(wire[Other(e)])
        /\ Tail(wire[Other(e)]) \in Seq(Msg)
        /\ Cmds(Tail(wire[Other(e)])) \subseteq Cmds(wire[Other(e)])
    BY Zenon, <1>1, CmdsHeadTail DEF Incoming
  <1>3. Read(e) = [wire EXCEPT ![Other(e)] = Tail(wire[Other(e)])]
    BY Zenon DEF Read
  <1>4. "RSP_TELL" \in HandshakeCmd
    BY Zenon DEF HandshakeCmd
  <1> DEFINE r == Decoded(e)
  <1>5. /\ r \in Attr /\ r.bOpen /\ r.pSendBuff = attr[e].pSendBuff
        /\ r.bWriteEvent = attr[e].bWriteEvent
        /\ r.ucConnectStatus = "ok" <=> attr[e].ucConnectStatus = "ok" \/ cmd = "RSP_TELL"
    BY Zenon, <1>1, <1>4 DEF Decoded, Decode, Attr
  <1> HIDE DEF r
  <1>6. Sound(e, r)
    <2>1. Sound(e, attr[e])
      BY Zenon, AsItStands
    <2>2. cmd = "RSP_TELL" => "RSP_TELL" \in Cmds(wire[In(e[1])])
      BY Zenon, <1>2, EndFacts
    <2> QED
      BY Zenon, <2>1, <2>2, <1>5 DEF Sound
  <1>7. workerIndex' = workerIndex => Armed(e, r)
    BY Zenon, <1>5, AsItStands DEF Armed
  <1> QED
    BY Zenon, <1>1, <1>2, <1>3, <1>5, <1>6, <1>7 DEF r

\* Reading a message without an answer keeps the invariant.
LEMMA AbsorbStep ==
    ASSUME IInv, NEW e \in End, NEW cmd, CanRead(e, cmd),
           cmd = "RSP_TELL" => e[2] = "out", Frame(e), workerIndex' = workerIndex,
           NEW q \in Attr, q.bOpen, q.pSendBuff = Decoded(e).pSendBuff,
           q.ucConnectStatus = Decoded(e).ucConnectStatus,
           q.bWriteEvent = Decoded(e).bWriteEvent, Absorb(e, q)
    PROVE  IInv'
  <1>1. attr[e].bOpen /\ Sound(e, q) /\ Armed(e, q)
    BY Zenon, ReadFacts DEF Sound, Armed, CanRead
  <1>2. wire[e] \in Seq(Msg)
        /\ wire' = [wire EXCEPT ![e] = wire[e], ![Other(e)] = Tail(wire[Other(e)])]
    BY ReadFacts, EndFacts DEF Absorb, IInv, TypeOK
  <1>3. attr' = [attr EXCEPT ![e] = q] /\ ShellOf(e, shell')
    BY Zenon, AsItStands DEF Absorb
  <1> QED
    BY Zenon, <1>1, <1>2, <1>3, ReadFacts, LocalStep DEF Armed

-----------------------------------------------------------------------------
(* The actions. *)

\* SendTo over a published shell keeps the invariant.
LEMMA SendStep ==
    ASSUME IInv, NEW w \in Worker, Send(w), shell[w] # NoShell
    PROVE  IInv'
  <1> DEFINE e == shell[w]
  <1>1. e \in End /\ attr[e].bOpen
    BY Zenon DEF IInv, TypeOK, ShellIsLive
  <1>2. nMsg + 1 \in 0..MaxMsg /\ nMsg' = nMsg + 1
    BY BoundAssumption DEF Send, IInv, TypeOK
  <1>3. Data(nMsg + 1) \in Msg /\ Data(nMsg + 1).cmd = "DATA"
    BY Zenon, <1>2, MessageFacts
  <1>4. /\ SendTo(e, attr[e], shell, wire, Data(nMsg + 1))
        /\ UNCHANGED <<at, initiator, workerIndex, step, rcvd, nSeq, nBeat, nCrash>>
    BY Zenon DEF Send
  <1>5. Frame(e)
    BY Zenon, <1>2, <1>4, FrameSame DEF IInv, TypeOK
  <1>6. ~Waits(attr[e], Data(nMsg + 1)) => attr[e].ucConnectStatus = "ok"
    BY Zenon, <1>3, MessageFacts DEF Waits
  <1>7. e[2] = "out" /\ at[e[1]] = "manager" => attr[e].ucConnectStatus # "ok"
    BY <1>1, EndFacts DEF IInv, PassingPhase
  <1> HIDE DEF e
  <1> QED
    BY Zenon, <1>1, <1>3, <1>4, <1>5, <1>6, <1>7, AsItStands, SendToStep

\* IoWrite of a non-empty pSendBuff keeps the invariant.
LEMMA IoWriteSendStep ==
    ASSUME IInv, NEW e \in End, IoWriteSend(e)
    PROVE  IInv'
  <1>1. Frame(e)
    BY Zenon, FrameSame DEF IoWriteSend, counters, IInv, TypeOK
  <1>2. attr[e].ucConnectStatus # "ok" => e[2] = "out" /\ attr[e].pSendBuff # <<>>
    BY Zenon DEF IoWriteSend, IInv, ArmedEvent
  <1>3. attr[e].bOpen /\ WriteFD(e, attr[e], shell, wire, 1)
    BY Zenon DEF IoWriteSend
  <1> QED
    BY Zenon, <1>1, <1>2, <1>3, AsItStands, WriteFDStep

\* A handshake step's timeout, by sending again or by giving up, keeps the invariant.
LEMMA StepTimeoutStep ==
    ASSUME IInv, NEW c \in Conn, StepTimeout(c)
    PROVE  IInv'
  <1> DEFINE e == Out(c)
             m == M(StepCmd(step[c].kind))
  <1>1. e \in End /\ e[1] = c /\ e[2] = "out"
    BY Zenon, EndFacts DEF Out
  <1>2. step[c] \in Step /\ step[c].kind \in {"connect", "tell"}
    BY Zenon DEF IInv, TypeOK, StepTimeout
  <1>3. m \in Msg /\ m.cmd \in {"REQ_CONNECT", "REQ_TELL"}
        /\ (step[c].kind # "tell" => m.cmd = "REQ_CONNECT")
    BY Zenon, <1>2, MessageFacts DEF StepCmd
  <1>4. at[c] = "manager" => step[c].kind # "tell"
    BY Zenon DEF IInv, ManagerPhase
  <1>5. UNCHANGED <<at, initiator, workerIndex, rcvd, counters>>
    BY Zenon DEF StepTimeout
  <1>6. ASSUME NEW s \in Step, s.kind \in {step[c].kind, "given_up"},
               step' = [step EXCEPT ![c] = s]
        PROVE  Frame(e)
    BY Zenon, <1>5, <1>6, FrameStep
  <1>7. CASE MayRetry(c) /\ attr[e].bOpen
    <2>1. step' = [step EXCEPT ![c].iTimeoutNum = @ + 1] /\ SendTo(e, attr[e], shell, wire, m)
      BY Zenon, <1>7 DEF StepTimeout
    <2>2. step' = [step EXCEPT ![c] = [step[c] EXCEPT !.iTimeoutNum = @ + 1]]
      BY Zenon, <2>1 DEF IInv, TypeOK
    <2>3. [step[c] EXCEPT !.iTimeoutNum = @ + 1] \in Step
          /\ [step[c] EXCEPT !.iTimeoutNum = @ + 1].kind = step[c].kind
      BY <1>2, <1>7, BoundAssumption DEF Step, MayRetry
    <2>4. Frame(e)
      BY Zenon, <2>2, <2>3, <1>6
    <2> HIDE DEF e, m
    <2> QED
      BY Zenon, <1>1, <1>3, <1>4, <1>5, <1>7, <2>1, <2>4, AsItStands, SendToStep
  <1>8. CASE ~(MayRetry(c) /\ attr[e].bOpen)
    <2>1. UNCHANGED <<attr, wire, shell>>
      BY Zenon, <1>8 DEF StepTimeout
    <2>2. PICK s \in Step : s.kind \in {step[c].kind, "given_up"} /\ step' = [step EXCEPT ![c] = s]
      <3>1. CASE MayRetry(c)
        <4>1. step' = [step EXCEPT ![c] = [step[c] EXCEPT !.iTimeoutNum = @ + 1]]
          BY Zenon, <3>1 DEF StepTimeout, IInv, TypeOK
        <4>2. [step[c] EXCEPT !.iTimeoutNum = @ + 1] \in Step
              /\ [step[c] EXCEPT !.iTimeoutNum = @ + 1].kind = step[c].kind
          BY <1>2, <3>1, BoundAssumption DEF Step, MayRetry
        <4> QED
          BY Zenon, <4>1, <4>2
      <3>2. CASE ~MayRetry(c)
        <4>1. step' = [step EXCEPT ![c] = GivenUp]
          BY Zenon, <3>2 DEF StepTimeout
        <4>2. GivenUp \in Step /\ GivenUp.kind = "given_up"
          BY BoundAssumption DEF GivenUp, Step
        <4> QED
          BY Zenon, <4>1, <4>2
      <3> QED
        BY Zenon, <3>1, <3>2
    <2>3. step' \in [Conn -> Step] /\ \A d \in Conn : step'[d].kind = "tell" => step[d].kind = "tell"
      BY Zenon, <2>2 DEF IInv, TypeOK
    <2>4. TypeOK'
      BY Zenon, <1>5, <2>1, <2>3 DEF IInv, TypeOK, counters
    <2>5. ManagerPhase'
      <3> SUFFICES ASSUME NEW d \in Conn, at[d] \in {"none", "manager"}
                   PROVE  /\ wire[In(d)] = <<>>
                          /\ Cmds(wire[Out(d)]) \subseteq {"REQ_CONNECT"}
                          /\ Cmds(attr[Out(d)].pSendBuff) \subseteq {"REQ_CONNECT"}
                          /\ step'[d].kind # "tell"
        BY Zenon, <1>5, <2>1 DEF ManagerPhase, Cmds
      <3> QED
        BY Zenon, <2>3 DEF IInv, ManagerPhase
    <2>6. (ShellIsLive /\ Lifecycle /\ PassingPhase /\ ArmedEvent /\ Established)'
      BY <1>5, <2>1 DEF IInv, ShellIsLive, Lifecycle, PassingPhase, ArmedEvent,
                        Established, Owner, Cmds, counters
    <2> QED
      BY Zenon, <2>4, <2>5, <2>6 DEF IInv
  <1> QED
    BY Zenon, <1>7, <1>8

\* The heartbeat of an idle connection keeps the invariant.
LEMMA IoTimeoutStep ==
    ASSUME IInv, NEW e \in End, IoTimeout(e)
    PROVE  IInv'
  <1> DEFINE r == [attr[e] EXCEPT !.timer = "beat"]
  <1>1. nBeat' \in 0..MaxBeat
    BY BoundAssumption DEF IoTimeout, IInv, TypeOK
  <1>2. Frame(e)
    BY Zenon, <1>1, FrameSame DEF IoTimeout, IInv, TypeOK
  <1>3. /\ r \in Attr /\ r.bOpen /\ r.pSendBuff = attr[e].pSendBuff
        /\ r.ucConnectStatus = attr[e].ucConnectStatus /\ r.bWriteEvent = attr[e].bWriteEvent
    BY Zenon, AsItStands DEF IoTimeout, Attr
  <1>4. attr[e].bOpen /\ SendTo(e, r, shell, wire, M("REQ_BEAT")) /\ workerIndex' = workerIndex
    BY Zenon DEF IoTimeout
  <1> HIDE DEF r
  <1>5. Sound(e, r) /\ Armed(e, r)
    BY Zenon, <1>3, <1>4, AsItStands DEF Sound, Armed
  <1>6. M("REQ_BEAT") \in Msg /\ M("REQ_BEAT").cmd = "REQ_BEAT" /\ "REQ_BEAT" \notin HandshakeCmd
    BY Zenon, MessageFacts DEF HandshakeCmd
  <1>7. ~Waits(r, M("REQ_BEAT")) => r.ucConnectStatus = "ok"
    BY Zenon, <1>6 DEF Waits
  <1>8. e[2] = "out" /\ at[e[1]] = "manager" => r.ucConnectStatus # "ok"
    BY <1>3, EndFacts DEF IInv, PassingPhase
  <1> QED
    BY Zenon, <1>2, <1>3, <1>4, <1>5, <1>6, <1>7, <1>8, AsItStands, SendToStep

\* An unanswered heartbeat keeps the invariant.
LEMMA BeatTimeoutStep ==
    ASSUME IInv, NEW e \in End, BeatTimeout(e)
    PROVE  IInv'
  <1>1. Frame(e) /\ attr[e].bOpen /\ workerIndex' = workerIndex
    BY Zenon, FrameSame DEF BeatTimeout, counters, IInv, TypeOK
  <1>2. CASE attr[e].bInner
    <2> DEFINE q == [attr[e] EXCEPT !.timer = "off"]
    <2>1. /\ q \in Attr /\ q.bOpen /\ q.pSendBuff = attr[e].pSendBuff
          /\ q.ucConnectStatus = attr[e].ucConnectStatus /\ q.bWriteEvent = attr[e].bWriteEvent
      BY Zenon, <1>1, AsItStands DEF Attr
    <2>2. attr' = [attr EXCEPT ![e] = q] /\ UNCHANGED <<wire, shell>>
      BY Zenon, <1>2 DEF BeatTimeout
    <2>3. wire[e] \in Seq(Msg)
          /\ wire' = [wire EXCEPT ![e] = wire[e], ![Other(e)] = wire[Other(e)]]
      BY Zenon, <2>2 DEF IInv, TypeOK
    <2> HIDE DEF q
    <2> QED
      BY Zenon, <1>1, <2>1, <2>2, <2>3, AsItStands, LocalStep DEF Armed
  <1>3. CASE ~attr[e].bInner
    BY Zenon, <1>1, <1>3, AsItStands, DestroyStep DEF BeatTimeout
  <1> QED
    BY Zenon, <1>2, <1>3

\* A read of end-of-file keeps the invariant.
LEMMA PeerClosedStep ==
    ASSUME IInv, NEW e \in End, PeerClosed(e)
    PROVE  IInv'
  <1>1. Frame(e) /\ attr[e].bOpen
    BY Zenon, FrameSame DEF PeerClosed, counters, IInv, TypeOK
  <1> QED
    BY Zenon, <1>1, AsItStands, DestroyStep DEF PeerClosed

\* Moving the waiting messages behind pSendBuff keeps the connection well formed.
LEMMA FlushFacts ==
    ASSUME NEW r \in Attr
    PROVE  /\ Flush(r) \in Attr /\ Flush(r).bOpen = r.bOpen
           /\ Flush(r).ucConnectStatus = r.ucConnectStatus
  <1>1. r.pSendBuff \in Seq(Msg) /\ r.pWaitForSendBuff \in Seq(Msg)
    BY Zenon DEF Attr
  <1> DEFINE b == r.pSendBuff \o r.pWaitForSendBuff
  <1>2. b \in Seq(Msg) /\ <<>> \in Seq(Msg)
    BY <1>1
  <1>3. Flush(r) = [r EXCEPT !.pSendBuff = b, !.pWaitForSendBuff = <<>>]
    BY Zenon DEF Flush
  <1> HIDE DEF b
  <1> QED
    BY Zenon, <1>2, <1>3 DEF Attr

\* IoWrite of an empty pSendBuff, which begins the handshake or sends what waited,

\* keeps the invariant.
LEMMA IoWriteEmptyStep ==
    ASSUME IInv, NEW e \in End, IoWriteEmpty(e)
    PROVE  IInv'
  <1> DEFINE begin == e[2] = "out" /\ e[1] \in workerIndex
             r == IF begin
                  THEN Encode([attr[e] EXCEPT !.bInner = TRUE], M("REQ_CONNECT"))
                  ELSE Flush(attr[e])
  <1>1. /\ attr[e].bOpen /\ attr[e].bWriteEvent /\ attr[e].pSendBuff = <<>>
        /\ workerIndex' = IF begin THEN workerIndex \ {e[1]} ELSE workerIndex
        /\ step' = [step EXCEPT ![e[1]] =
                       IF begin THEN [kind |-> "connect", iTimeoutNum |-> 0] ELSE @]
        /\ UNCHANGED <<at, initiator, rcvd, counters>>
    BY Zenon DEF IoWriteEmpty
  <1>2. Frame(e)
    <2>1. [kind |-> "connect", iTimeoutNum |-> 0] \in Step
      BY BoundAssumption DEF Step
    <2>2. step' \in [Conn -> Step]
          /\ \A c \in Conn : step'[c].kind = "tell" => step[c].kind = "tell"
      BY Zenon, <1>1, <2>1, EndFacts DEF IInv, TypeOK
    <2>3. workerIndex' \subseteq Conn /\ \A c \in workerIndex : c \in workerIndex' \/ e = Out(c)
      BY Zenon, <1>1, EndFacts DEF IInv, TypeOK
    <2> QED
      BY Zenon, <1>1, <2>2, <2>3 DEF Frame, IInv, TypeOK, counters
  <1>3. r \in Attr /\ r.bOpen /\ Sound(e, r) /\ (~begin => r.ucConnectStatus = "ok")
    <2>1. CASE begin
      <3> DEFINE p == [attr[e] EXCEPT !.bInner = TRUE]
      <3>1. /\ p \in Attr /\ p.bOpen /\ p.pSendBuff = <<>>
            /\ p.ucConnectStatus = attr[e].ucConnectStatus
        BY Zenon, <1>1, AsItStands DEF Attr
      <3>2. r = Encode(p, M("REQ_CONNECT"))
        BY Zenon, <2>1
      <3> HIDE DEF p, r
      <3>3. M("REQ_CONNECT") \in Msg /\ M("REQ_CONNECT").cmd = "REQ_CONNECT"
            /\ ~Waits(p, M("REQ_CONNECT"))
        BY Zenon, MessageFacts DEF Waits, HandshakeCmd
      <3>4. /\ r \in Attr /\ r.bOpen /\ Cmds(r.pSendBuff) = {"REQ_CONNECT"}
            /\ r.ucConnectStatus = IF p.ucConnectStatus = "ok" THEN "ok" ELSE "connecting"
        BY SMTT(20), <3>1, <3>2, <3>3, EncodeFacts, CmdsEmpty
      <3>5. Sound(e, r)
        BY Zenon, <3>1, <3>4 DEF Sound
      <3> QED
        BY Zenon, <2>1, <3>4, <3>5
    <2>2. CASE ~begin
      <3>1. attr[e].ucConnectStatus = "ok"
        BY Zenon, <1>1, <2>2 DEF IInv, ArmedEvent
      <3>2. r = Flush(attr[e])
        BY Zenon, <2>2
      <3>3. r \in Attr /\ r.bOpen /\ r.ucConnectStatus = "ok"
        BY Zenon, <1>1, <3>1, <3>2, AsItStands, FlushFacts
      <3>4. e[2] = "out" => at[e[1]] # "manager"
        BY <3>1, EndFacts DEF IInv, PassingPhase
      <3> HIDE DEF r
      <3>5. Sound(e, r)
        BY Zenon, <3>1, <3>3, <3>4 DEF Sound
      <3> QED
        BY Zenon, <3>3, <3>5
    <2> QED
      BY Zenon, <2>1, <2>2
  <1>4. ASSUME NEW k \in 0..Len(r.pSendBuff),
               attr' = [attr EXCEPT ![e] = [Written(r, k) EXCEPT !.bWriteEvent = ~begin /\ @]],
               wire' = Carry(wire, e, SubSeq(r.pSendBuff, 1, k)),
               shell' = shell
        PROVE  IInv'
    <2> DEFINE q == [Written(r, k) EXCEPT !.bWriteEvent = ~begin /\ @]
    <2> HIDE DEF r
    <2>1. Written(r, k) \in Attr
      BY Zenon, <1>3, WrittenFacts
    <2>2. (~begin /\ Written(r, k).bWriteEvent) \in BOOLEAN
      BY Zenon
    <2>3. /\ q \in Attr /\ q.bOpen = Written(r, k).bOpen
          /\ q.ucConnectStatus = Written(r, k).ucConnectStatus
          /\ q.pSendBuff = Written(r, k).pSendBuff
      BY Zenon, <2>1, <2>2 DEF Attr
    <2>4. q.bWriteEvent => ~begin
      BY Zenon, <2>1, <2>2 DEF Attr
    <2> HIDE DEF q
    <2>5. /\ q.bOpen /\ q.ucConnectStatus = r.ucConnectStatus
          /\ Cmds(q.pSendBuff) \subseteq Cmds(r.pSendBuff)
      BY Zenon, <2>3, <1>3, WrittenFacts
    <2>6. Armed(e, q)
      BY Zenon, <2>4, <2>5, <1>3 DEF Armed
    <2>7. attr' = [attr EXCEPT ![e] = q] /\ ShellOf(e, shell')
      BY Zenon, <1>4, AsItStands DEF q
    <2> QED
      BY Zenon, <1>1, <1>2, <1>3, <1>4, <2>3, <2>5, <2>6, <2>7, AsItStands, WriteOutStep
  <1>5. CASE PeerGone(e) /\ DestroyConnect(e, shell)
    BY Zenon, <1>1, <1>2, <1>5, AsItStands, DestroyStep
  <1> QED
    BY Zenon, <1>4, <1>5 DEF IoWriteEmpty

\* The Manager's answer keeps the invariant.
LEMMA RecvRspConnectStep ==
    ASSUME IInv, NEW c \in Conn, RecvRspConnect(c)
    PROVE  IInv'
  <1> DEFINE e == Out(c)
             s == [kind |-> "tell", iTimeoutNum |-> 0]
  <1>1. e \in End /\ e[1] = c /\ e[2] = "out" /\ Other(e) = In(c)
    BY Zenon, EndFacts DEF Out
  <1>2. CanRead(e, "RSP_CONNECT") /\ UNCHANGED <<at, initiator, workerIndex, rcvd, counters>>
    BY Zenon DEF RecvRspConnect
  <1>3. at[c] \notin {"none", "manager"}
    BY Zenon, <1>1, <1>2 DEF CanRead, IInv, ManagerPhase
  <1>4. attr[e].bOpen
    BY Zenon, <1>2 DEF CanRead
  <1>5. CASE step[c].kind = "connect"
    <2>1. step' = [step EXCEPT ![c] = s] /\ SendTo(e, Decoded(e), shell, Read(e), M("REQ_TELL"))
      BY Zenon, <1>5 DEF RecvRspConnect
    <2>2. s \in Step
      BY BoundAssumption DEF Step
    <2>3. Frame(e)
      BY Zenon, <1>2, <1>3, <2>1, <2>2, FrameStep
    <2>4. M("REQ_TELL") \in Msg /\ M("REQ_TELL").cmd = "REQ_TELL"
      BY Zenon, MessageFacts
    <2> HIDE DEF e
    <2> QED
      BY Zenon, <1>1, <1>2, <1>3, <1>4, <2>1, <2>3, <2>4, AsItStands, ReadFacts, SendToStep
  <1>6. CASE step[c].kind # "connect"
    <2>1. Absorb(e, Decoded(e)) /\ UNCHANGED step
      BY Zenon, <1>6 DEF RecvRspConnect
    <2>2. Frame(e)
      BY Zenon, <1>2, <2>1, FrameSame DEF counters, IInv, TypeOK
    <2> HIDE DEF e
    <2> QED
      BY Zenon, <1>1, <1>2, <2>1, <2>2, ReadFacts, AbsorbStep
  <1> QED
    BY Zenon, <1>5, <1>6

\* The error answer to a repeated CONNECT keeps the invariant.
LEMMA RecvSysErrorStep ==
    ASSUME IInv, NEW c \in Conn, RecvSysError(c)
    PROVE  IInv'
  <1> DEFINE e == Out(c)
             s == IF step[c].kind = "connect" THEN GivenUp ELSE step[c]
  <1>1. e \in End /\ e[2] = "out"
    BY Zenon, EndFacts DEF Out
  <1>2. /\ CanRead(e, "RSP_SYS_ERROR") /\ Absorb(e, Decoded(e))
        /\ UNCHANGED <<at, initiator, workerIndex, rcvd, counters>>
        /\ step' = [step EXCEPT ![c] = s]
    BY Zenon DEF RecvSysError
  <1>3. s \in Step /\ (s.kind = "tell" => step[c].kind = "tell")
    BY BoundAssumption DEF IInv, TypeOK, GivenUp, Step
  <1>4. Frame(e)
    BY Zenon, <1>2, <1>3, FrameStep
  <1> HIDE DEF e
  <1> QED
    BY Zenon, <1>1, <1>2, <1>4, ReadFacts, AbsorbStep

\* The answer to TELL, which publishes the shell and sends what waited, keeps the

\* invariant.
LEMMA RecvRspTellStep ==
    ASSUME IInv, NEW c \in Conn, RecvRspTell(c)
    PROVE  IInv'
  <1> DEFINE e == Out(c)
             r == Flush(Decoded(e))
  <1>1. e \in End /\ e[1] = c /\ e[2] = "out" /\ Other(e) = In(c)
    BY Zenon, EndFacts DEF Out
  <1>2. CanRead(e, "RSP_TELL") /\ UNCHANGED <<at, initiator, workerIndex, rcvd, counters>>
    BY Zenon DEF RecvRspTell
  <1>3. attr[e].bOpen
    BY Zenon, <1>2 DEF CanRead
  <1>4. CASE step[c].kind = "tell"
    <2>1. step' = [step EXCEPT ![c] = NoStep]
          /\ WriteFD(e, r, [shell EXCEPT ![Owner(e)] = e], Read(e), 0)
      BY Zenon, <1>4 DEF RecvRspTell
    <2>2. NoStep \in Step /\ NoStep.kind = "none"
      BY BoundAssumption DEF Step, NoStep
    <2>3. Frame(e)
      BY Zenon, <1>2, <2>1, <2>2, FrameStep
    <2> HIDE DEF e
    <2>4. Decoded(e) \in Attr /\ Decoded(e).bOpen /\ Decoded(e).ucConnectStatus = "ok"
          /\ Sound(e, Decoded(e)) /\ "RSP_TELL" \in Cmds(wire[Other(e)])
      BY Zenon, <1>1, <1>2, ReadFacts
    <2>6. r \in Attr /\ r.bOpen /\ r.ucConnectStatus = "ok"
      BY Zenon, <2>4, FlushFacts
    <2>7. at[c] # "manager"
      BY Zenon, <1>1, <2>4 DEF IInv, PassingPhase
    <2> HIDE DEF r
    <2>8. Sound(e, r)
      BY Zenon, <1>1, <2>4, <2>6, <2>7 DEF Sound
    <2> QED
      BY Zenon, <1>1, <1>2, <1>3, <2>1, <2>3, <2>6, <2>8, AsItStands, ReadFacts, WriteFDStep
  <1>5. CASE step[c].kind # "tell"
    <2>1. Absorb(e, Decoded(e)) /\ UNCHANGED step
      BY Zenon, <1>5 DEF RecvRspTell
    <2>2. Frame(e)
      BY Zenon, <1>2, <2>1, FrameSame DEF counters, IInv, TypeOK
    <2> HIDE DEF e
    <2> QED
      BY Zenon, <1>1, <1>2, <2>1, <2>2, ReadFacts, AbsorbStep
  <1> QED
    BY Zenon, <1>4, <1>5

\* CmdToldWorker keeps the invariant.
LEMMA RecvReqTellStep ==
    ASSUME IInv, NEW c \in Conn, RecvReqTell(c)
    PROVE  IInv'
  <1> DEFINE e == In(c)
             r == [Decoded(e) EXCEPT !.bInner = TRUE]
  <1>1. e \in End /\ e[1] = c /\ e[2] = "in"
    BY Zenon, EndFacts DEF In
  <1>2. /\ CanRead(e, "REQ_TELL")
        /\ SendTo(e, r, [shell EXCEPT ![Owner(e)] = e], Read(e), M("RSP_TELL"))
        /\ UNCHANGED <<at, initiator, workerIndex, step, rcvd, counters>>
    BY Zenon DEF RecvReqTell
  <1>3. Frame(e) /\ attr[e].bOpen
    BY Zenon, <1>2, FrameSame DEF counters, IInv, TypeOK, CanRead
  <1> HIDE DEF e
  <1>4. /\ r \in Attr /\ r.bOpen /\ r.pSendBuff = Decoded(e).pSendBuff
        /\ r.ucConnectStatus = Decoded(e).ucConnectStatus
        /\ r.bWriteEvent = Decoded(e).bWriteEvent
    BY Zenon, <1>1, <1>2, ReadFacts DEF Attr
  <1> HIDE DEF r
  <1>5. Sound(e, r) /\ Armed(e, r)
    BY Zenon, <1>1, <1>2, <1>4, ReadFacts DEF Sound, Armed
  <1>6. M("RSP_TELL") \in Msg /\ M("RSP_TELL").cmd = "RSP_TELL"
    BY Zenon, MessageFacts
  <1> QED
    BY Zenon, <1>1, <1>2, <1>3, <1>4, <1>5, <1>6, AsItStands, ReadFacts, SendToStep

\* A repeated CONNECT that reaches the worker keeps the invariant.
LEMMA RecvReqConnectStep ==
    ASSUME IInv, NEW c \in Conn, RecvReqConnect(c)
    PROVE  IInv'
  <1> DEFINE e == In(c)
             r == [Decoded(e) EXCEPT !.pSendBuff = Append(@, M("RSP_SYS_ERROR"))]
             y == Tail(wire[Other(e)])
  <1>1. e \in End /\ e[1] = c /\ e[2] = "in"
    BY Zenon, EndFacts DEF In
  <1>2. /\ CanRead(e, "REQ_CONNECT")
        /\ UNCHANGED <<at, initiator, workerIndex, step, rcvd, counters, shell>>
    BY Zenon DEF RecvReqConnect
  <1>3. Frame(e) /\ attr[e].bOpen
    BY Zenon, <1>2, FrameSame DEF counters, IInv, TypeOK, CanRead
  <1>4. PICK k \in 0..Len(r.pSendBuff) :
          /\ attr' = [attr EXCEPT ![e] = [Written(r, k) EXCEPT !.bWriteEvent = r.bWriteEvent]]
          /\ wire' = Carry(Read(e), e, SubSeq(r.pSendBuff, 1, k))
    BY Zenon DEF RecvReqConnect
  <1> HIDE DEF e
  <1>5. M("RSP_SYS_ERROR") \in Msg /\ M("RSP_SYS_ERROR").cmd = "RSP_SYS_ERROR"
    BY Zenon, MessageFacts
  <1>6. /\ r \in Attr /\ r.bOpen /\ r.ucConnectStatus = Decoded(e).ucConnectStatus
        /\ r.bWriteEvent = Decoded(e).bWriteEvent
        /\ Cmds(r.pSendBuff) = Cmds(Decoded(e).pSendBuff) \cup {"RSP_SYS_ERROR"}
    <2> DEFINE d == Decoded(e)
               b == Append(d.pSendBuff, M("RSP_SYS_ERROR"))
    <2>1. d \in Attr /\ d.bOpen
      BY Zenon, <1>1, <1>2, ReadFacts
    <2> HIDE DEF d
    <2>2. d.pSendBuff \in Seq(Msg)
      BY Zenon, <2>1 DEF Attr
    <2>3. b \in Seq(Msg) /\ Cmds(b) = Cmds(d.pSendBuff) \cup {"RSP_SYS_ERROR"}
      BY Zenon, <2>2, <1>5, CmdsAppend
    <2>4. r = [d EXCEPT !.pSendBuff = b]
      BY Zenon DEF d
    <2> HIDE DEF b, r
    <2> QED
      BY Zenon, <2>1, <2>3, <2>4 DEF Attr, d
  <1> HIDE DEF r
  <1>7. Sound(e, r)
    BY Zenon, <1>1, <1>2, <1>6, ReadFacts DEF Sound
  <1> DEFINE q == [Written(r, k) EXCEPT !.bWriteEvent = r.bWriteEvent]
  <1>8. Written(r, k) \in Attr /\ r.bWriteEvent \in BOOLEAN
    BY Zenon, <1>6, WrittenFacts DEF Attr
  <1>9. /\ q \in Attr /\ q.bOpen = Written(r, k).bOpen
        /\ q.ucConnectStatus = Written(r, k).ucConnectStatus
        /\ q.pSendBuff = Written(r, k).pSendBuff /\ q.bWriteEvent = r.bWriteEvent
    BY Zenon, <1>8 DEF Attr
  <1>10. attr' = [attr EXCEPT ![e] = q]
    BY Zenon, <1>4
  <1> HIDE DEF q
  <1>11. /\ q.bOpen /\ q.ucConnectStatus = r.ucConnectStatus
         /\ Cmds(q.pSendBuff) \subseteq Cmds(r.pSendBuff)
    BY Zenon, <1>6, <1>9, WrittenFacts
  <1>12. Armed(e, q)
    BY Zenon, <1>1, <1>2, <1>6, <1>9, <1>11, ReadFacts DEF Armed
  <1>13. y \in Seq(Msg) /\ Cmds(y) \subseteq Cmds(wire[Other(e)])
         /\ Read(e) = [wire EXCEPT ![Other(e)] = y]
    BY Zenon, <1>1, <1>2, ReadFacts
  <1>14. ShellOf(e, shell')
    BY Zenon, <1>1, <1>2, AsItStands
  <1> HIDE DEF y
  <1> QED
    BY Zenon, <1>1, <1>3, <1>4, <1>6, <1>7, <1>9, <1>10, <1>11, <1>12, <1>13, <1>14, WriteOutStep

\* CmdBeat keeps the invariant.
LEMMA RecvReqBeatStep ==
    ASSUME IInv, NEW e \in End, RecvReqBeat(e)
    PROVE  IInv'
  <1>1. /\ CanRead(e, "REQ_BEAT") /\ SendTo(e, Decoded(e), shell, Read(e), M("RSP_BEAT"))
        /\ UNCHANGED <<at, initiator, workerIndex, step, rcvd, counters>>
    BY Zenon DEF RecvReqBeat
  <1>2. Frame(e) /\ attr[e].bOpen
    BY Zenon, <1>1, FrameSame DEF counters, IInv, TypeOK, CanRead
  <1>3. M("RSP_BEAT") \in Msg /\ M("RSP_BEAT").cmd = "RSP_BEAT" /\ "RSP_BEAT" \notin HandshakeCmd
    BY Zenon, MessageFacts DEF HandshakeCmd
  <1>4. ~Waits(Decoded(e), M("RSP_BEAT")) => Decoded(e).ucConnectStatus = "ok"
    BY Zenon, <1>3 DEF Waits
  <1>5. e[2] = "out" /\ at[e[1]] = "manager" => Decoded(e).ucConnectStatus # "ok"
    <2>1. Decoded(e).ucConnectStatus = "ok" => attr[e].ucConnectStatus = "ok"
      BY Zenon, <1>1, "REQ_BEAT" # "RSP_TELL", ReadFacts
    <2>2. e[2] = "out" /\ at[e[1]] = "manager" => attr[e].ucConnectStatus # "ok"
      BY EndFacts DEF IInv, PassingPhase
    <2> QED
      BY Zenon, <2>1, <2>2
  <1> QED
    BY Zenon, <1>1, <1>2, <1>3, <1>4, <1>5, AsItStands, ReadFacts, SendToStep

\* The answer to a heartbeat keeps the invariant.
LEMMA RecvRspBeatStep ==
    ASSUME IInv, NEW e \in End, RecvRspBeat(e)
    PROVE  IInv'
  <1> DEFINE q == [Decoded(e) EXCEPT !.timer = IF @ = "beat" THEN "armed" ELSE @]
  <1>1. /\ CanRead(e, "RSP_BEAT") /\ Absorb(e, q)
        /\ UNCHANGED <<at, initiator, workerIndex, step, rcvd, counters>>
    BY Zenon DEF RecvRspBeat
  <1>2. Frame(e)
    BY Zenon, <1>1, FrameSame DEF counters, IInv, TypeOK
  <1>3. Decoded(e) \in Attr /\ Decoded(e).bOpen
    BY Zenon, <1>1, ReadFacts
  <1>4. /\ q \in Attr /\ q.bOpen /\ q.pSendBuff = Decoded(e).pSendBuff
        /\ q.ucConnectStatus = Decoded(e).ucConnectStatus
        /\ q.bWriteEvent = Decoded(e).bWriteEvent
    BY Zenon, <1>3 DEF Attr
  <1> HIDE DEF q
  <1> QED
    BY Zenon, <1>1, <1>2, <1>4, AbsorbStep

\* Delivering an application message keeps the invariant.
LEMMA RecvDataStep ==
    ASSUME IInv, NEW e \in End, RecvData(e)
    PROVE  IInv'
  <1>1. /\ CanRead(e, "DATA") /\ Absorb(e, Decoded(e))
        /\ UNCHANGED <<at, initiator, workerIndex, step, counters>>
        /\ rcvd' = [rcvd EXCEPT ![e] = Append(@, Incoming(e).id)]
    BY Zenon DEF RecvData
  <1>2. Incoming(e).id \in 0..MaxMsg
    BY Zenon, <1>1, ReadFacts DEF Msg
  <1>3. rcvd' \in [End -> Seq(0..MaxMsg)]
    BY <1>1, <1>2 DEF IInv, TypeOK
  <1>4. Frame(e)
    BY Zenon, <1>1, <1>3, FrameSame DEF counters, IInv, TypeOK
  <1> QED
    BY Zenon, <1>1, <1>4, ReadFacts, AbsorbStep

-----------------------------------------------------------------------------
(* Opening a connection, the remote Manager, the fd passing and crashes. *)

\* Opening a connection on the first send keeps the invariant.
LEMMA AutoSendStep ==
    ASSUME IInv, NEW w \in Worker, Send(w), shell[w] = NoShell
    PROVE  IInv'
  <1> DEFINE c == nSeq + 1
             q == [CreateFdAttr EXCEPT !.bWriteEvent = TRUE,
                                       !.pWaitForSendBuff = <<Data(nMsg + 1)>>]
  <1>t. TypeOK
    BY Zenon DEF IInv
  <1>1. c \in Conn /\ nSeq' = c /\ c \in 0..MaxConn
    BY <1>t, BoundAssumption DEF Send, AutoSend, TypeOK, Conn
  <1>2. nMsg' \in 0..MaxMsg /\ Data(nMsg + 1) \in Msg
    <2>1. nMsg + 1 \in 0..MaxMsg /\ nMsg' = nMsg + 1
      BY <1>t, BoundAssumption DEF Send, TypeOK
    <2> QED
      BY Zenon, <2>1, MessageFacts
  <1>3. q \in Attr /\ q.bOpen /\ q.ucConnectStatus = "init" /\ q.pSendBuff = <<>>
    <2>1. <<Data(nMsg + 1)>> \in Seq(Msg) /\ <<>> \in Seq(Msg)
      BY <1>2
    <2> HIDE DEF c
    <2> QED
      BY Zenon, <2>1 DEF CreateFdAttr, Closed, Attr
  <1>4. /\ attr' = [attr EXCEPT ![Out(c)] = q]
        /\ initiator' = [initiator EXCEPT ![c] = w]
        /\ workerIndex' = workerIndex \cup {c}
        /\ shell' = [shell EXCEPT ![w] = Out(c)]
        /\ UNCHANGED <<wire, step, rcvd, nBeat, nCrash>>
    BY Zenon DEF Send, AutoSend
  <1>5. PICK answer \in {"manager", "closed"} : at' = [at EXCEPT ![c] = answer]
    BY Zenon DEF Send, AutoSend
  <1>6. at[c] = "none"
    <2>1. c > nSeq
      BY <1>t DEF TypeOK
    <2> QED
      BY Zenon, <1>1, <2>1 DEF IInv, Lifecycle
  <1>7. \A d \in Conn : d > nSeq' => d > nSeq /\ d # c
    BY <1>1, <1>t DEF TypeOK, Conn
  <1> HIDE DEF c, q
  <1>8. /\ Out(c) \in End /\ attr'[Out(c)] = q
        /\ \A d \in End : d # Out(c) => attr'[d] = attr[d]
    BY Zenon, <1>1, <1>4, <1>t, EndFacts DEF TypeOK
  <1>9. ~attr[Out(c)].bOpen /\ ~attr[In(c)].bOpen /\ In(c) \in End
    BY Zenon, <1>1, <1>6, EndFacts DEF IInv, Lifecycle
  <1>10. at'[c] = answer /\ \A d \in Conn : d # c => at'[d] = at[d] /\ initiator'[d] = initiator[d]
    BY Zenon, <1>1, <1>4, <1>5, <1>t DEF TypeOK
  <1>11. TypeOK'
    <2>1. attr' \in [End -> Attr] /\ initiator' \in [Conn -> Worker]
      BY Zenon, <1>3, <1>4, <1>8, <1>t DEF TypeOK
    <2>2. at' \in [Conn -> {"none", "manager", "passed", "worker", "closed"}]
      BY Zenon, <1>5, <1>t DEF TypeOK
    <2>3. workerIndex' \subseteq Conn /\ shell' \in [Worker -> End \cup {NoShell}]
      BY Zenon, <1>1, <1>4, <1>8, <1>t DEF TypeOK
    <2> QED
      BY Zenon, <1>1, <1>2, <1>4, <1>t, <2>1, <2>2, <2>3 DEF TypeOK
  <1>12. ShellIsLive'
    <2> SUFFICES ASSUME NEW v \in Worker, shell'[v] # NoShell
                 PROVE  attr'[shell'[v]].bOpen /\ Owner(shell[v])' = v
      BY Zenon DEF ShellIsLive
    <2>1. CASE v = w
      <3>1. shell'[v] = Out(c) /\ Out(c)[1] = c /\ Out(c)[2] = "out"
        BY Zenon, <2>1, <1>4, <1>t DEF TypeOK, Out
      <3>2. Owner(shell[v])' = initiator'[c] /\ initiator'[c] = w
        BY Zenon, <3>1, <1>1, <1>4, <1>t DEF Owner, TypeOK
      <3> QED
        BY Zenon, <2>1, <3>1, <3>2, <1>3, <1>8
    <2>2. CASE v # w
      <3>1. shell'[v] = shell[v] /\ shell[v] \in End /\ shell[v] # NoShell
        BY Zenon, <2>2, <1>4, <1>t DEF TypeOK
      <3>2. attr[shell[v]].bOpen /\ Owner(shell[v]) = v
        BY Zenon, <3>1 DEF IInv, ShellIsLive
      <3>3. shell[v] # Out(c) /\ shell[v] # In(c) /\ shell[v][1] # c /\ shell[v][1] \in Conn
        BY <3>1, <3>2, <1>9, EndFacts DEF Side
      <3>4. Owner(shell[v])' = Owner(shell[v])
        BY Zenon, <3>1, <3>3, <1>10 DEF Owner
      <3> QED
        BY Zenon, <3>1, <3>2, <3>3, <3>4, <1>8
    <2> QED
      BY Zenon, <2>1, <2>2
  <1>13. Lifecycle'
    <2>1. \A d \in End : ~attr'[d].bOpen => attr'[d] = Closed
      BY Zenon, <1>3, <1>8 DEF IInv, Lifecycle
    <2>2. \A d \in Conn : d > nSeq' => at'[d] = "none"
      BY Zenon, <1>7, <1>10 DEF IInv, Lifecycle
    <2>3. \A d \in Conn : at'[d] = "none" => ~attr'[Out(d)].bOpen
      BY <1>1, <1>5, <1>8, <1>10, EndFacts DEF IInv, Lifecycle
    <2>4. \A d \in Conn : at'[d] # "worker" => ~attr'[In(d)].bOpen
      <3> SUFFICES ASSUME NEW d \in Conn, at'[d] # "worker" PROVE ~attr'[In(d)].bOpen
        OBVIOUS
      <3>1. In(d) \in End /\ In(d) # Out(c)
        BY Zenon, <1>1, EndFacts
      <3>2. attr'[In(d)] = attr[In(d)]
        BY Zenon, <3>1, <1>8
      <3>3. CASE d = c
        BY Zenon, <3>2, <3>3, <1>9
      <3>4. CASE d # c
        BY Zenon, <3>2, <3>4, <1>10 DEF IInv, Lifecycle
      <3> QED
        BY Zenon, <3>3, <3>4
    <2> QED
      BY Zenon, <2>1, <2>2, <2>3, <2>4 DEF Lifecycle
  <1>14. ManagerPhase'
    <2> SUFFICES ASSUME NEW d \in Conn, at'[d] \in {"none", "manager"}
                 PROVE  /\ wire[In(d)] = <<>>
                        /\ Cmds(wire[Out(d)]) \subseteq {"REQ_CONNECT"}
                        /\ Cmds(attr'[Out(d)].pSendBuff) \subseteq {"REQ_CONNECT"}
                        /\ step[d].kind # "tell"
      BY Zenon, <1>4 DEF ManagerPhase, Cmds
    <2>1. at[d] \in {"none", "manager"}
      BY Zenon, <1>6, <1>10
    <2>2. Cmds(attr'[Out(d)].pSendBuff) \subseteq {"REQ_CONNECT"}
      <3>1. CASE d = c
        BY Zenon, <3>1, <1>3, <1>8, CmdsEmpty
      <3>2. CASE d # c
        <4>1. Out(d) \in End /\ Out(d) # Out(c)
          BY Zenon, <3>2, <1>1, EndFacts
        <4>2. attr'[Out(d)] = attr[Out(d)]
          BY Zenon, <4>1, <1>8
        <4>3. Cmds(attr[Out(d)].pSendBuff) \subseteq {"REQ_CONNECT"}
          BY Zenon, <2>1 DEF IInv, ManagerPhase
        <4> QED
          BY Zenon, <4>2, <4>3
      <3> QED
        BY Zenon, <3>1, <3>2
    <2> QED
      BY Zenon, <2>1, <2>2 DEF IInv, ManagerPhase
  <1>15. PassingPhase'
    <2> SUFFICES ASSUME NEW d \in Conn, at'[d] \in {"none", "manager", "passed"}
                 PROVE  /\ attr'[Out(d)].ucConnectStatus # "ok"
                        /\ "RSP_TELL" \notin Cmds(wire[In(d)])
                        /\ "DATA" \notin Cmds(wire[In(d)])
      BY Zenon, <1>4 DEF PassingPhase, Cmds
    <2>1. at[d] \in {"none", "manager", "passed"}
      BY Zenon, <1>6, <1>10
    <2> QED
      BY Zenon, <2>1, <1>3, <1>8, EndFacts DEF IInv, PassingPhase
  <1>16. ArmedEvent'
    <2> SUFFICES ASSUME NEW d \in End, attr'[d].bWriteEvent, attr'[d].ucConnectStatus # "ok"
                 PROVE  d[2] = "out" /\ (attr'[d].pSendBuff = <<>> => d[1] \in workerIndex')
      BY Zenon DEF ArmedEvent
    <2>1. CASE d = Out(c)
      BY Zenon, <2>1, <1>4 DEF Out
    <2>2. CASE d # Out(c)
      BY Zenon, <2>2, <1>4, <1>8 DEF IInv, ArmedEvent
    <2> QED
      BY Zenon, <2>1, <2>2
  <1>17. Established'
    <2>1. ASSUME NEW d \in End, attr'[d].bOpen,
                 "DATA" \in Cmds(wire[d]) \cup Cmds(attr'[d].pSendBuff)
          PROVE  attr'[d].ucConnectStatus = "ok"
      <3>1. CASE d = Out(c)
        BY Zenon, <2>1, <3>1, <1>1, <1>3, <1>6, <1>8, CmdsEmpty DEF IInv, ManagerPhase
      <3>2. CASE d # Out(c)
        BY Zenon, <2>1, <3>2, <1>8 DEF IInv, Established
      <3> QED
        BY Zenon, <3>1, <3>2
    <2>2. ASSUME NEW d \in Conn, attr'[In(d)].bOpen,
                 "RSP_TELL" \in Cmds(wire[In(d)]) \cup Cmds(attr'[In(d)].pSendBuff)
          PROVE  attr'[In(d)].ucConnectStatus = "ok"
      BY <2>2, <1>1, <1>8, EndFacts DEF IInv, Established
    <2>3. ASSUME NEW d \in Conn, attr'[Out(d)].bOpen, attr'[Out(d)].ucConnectStatus = "ok",
                 attr'[In(d)].bOpen
          PROVE  attr'[In(d)].ucConnectStatus = "ok"
      BY <2>3, <1>1, <1>3, <1>8, EndFacts DEF IInv, Established
    <2> QED
      BY Zenon, <1>4, <2>1, <2>2, <2>3 DEF Established, Cmds
  <1> QED
    BY Zenon, <1>11, <1>12, <1>13, <1>14, <1>15, <1>16, <1>17 DEF IInv

\* Worker::FdTransfer keeps the invariant.
LEMMA FdTransferStep ==
    ASSUME IInv, NEW c \in Conn, FdTransfer(c)
    PROVE  IInv'
  <1>t. TypeOK
    BY Zenon DEF IInv
  <1>1. /\ at[c] = "passed" /\ at' = [at EXCEPT ![c] = "worker"]
        /\ attr' = [attr EXCEPT ![In(c)] = CreateFdAttr]
        /\ UNCHANGED <<wire, initiator, workerIndex, shell, step, rcvd, counters>>
    BY Zenon DEF FdTransfer
  <1>2. /\ CreateFdAttr \in Attr /\ CreateFdAttr.bOpen /\ ~CreateFdAttr.bWriteEvent
        /\ CreateFdAttr.pSendBuff = <<>>
    <2>1. <<>> \in Seq(Msg)
      OBVIOUS
    <2>2. CreateFdAttr \in Attr
      BY Zenon, <2>1 DEF CreateFdAttr, Closed, Attr
    <2>3. CreateFdAttr.bOpen = TRUE /\ CreateFdAttr.pSendBuff = <<>>
      BY Zenon DEF CreateFdAttr, Closed
    <2>4. CreateFdAttr.bWriteEvent = FALSE
      BY Zenon DEF CreateFdAttr, Closed
    <2> QED
      BY Zenon, <2>2, <2>3, <2>4
  <1>3. attr'[In(c)] = CreateFdAttr /\ \A d \in End : d # In(c) => attr'[d] = attr[d]
    BY Zenon, <1>1, <1>t, EndFacts DEF TypeOK
  <1>4. at'[c] = "worker" /\ \A d \in Conn : d # c => at'[d] = at[d]
    BY Zenon, <1>1, <1>t DEF TypeOK
  <1>5. ~attr[In(c)].bOpen /\ attr[Out(c)].ucConnectStatus # "ok"
        /\ "RSP_TELL" \notin Cmds(wire[In(c)]) /\ "DATA" \notin Cmds(wire[In(c)])
    BY Zenon, <1>1 DEF IInv, Lifecycle, PassingPhase
  <1>6. TypeOK'
    BY Zenon, <1>1, <1>2, <1>t, EndFacts DEF TypeOK, counters
  <1>7. ShellIsLive'
    <2>1. \A d \in End : attr[d].bOpen => attr'[d].bOpen
      BY Zenon, <1>2, <1>3
    <2>2. \A v \in Worker : shell[v] # NoShell => attr[shell[v]].bOpen /\ Owner(shell[v]) = v
                                                  /\ shell[v] \in End
      BY Zenon, <1>t DEF IInv, ShellIsLive, TypeOK
    <2> QED
      BY Zenon, <1>1, <2>1, <2>2 DEF ShellIsLive, Owner
  <1>8. Lifecycle'
    <2>1. \A d \in End : ~attr'[d].bOpen => attr'[d] = Closed
      BY Zenon, <1>2, <1>3 DEF IInv, Lifecycle
    <2>2. \A d \in Conn : d > nSeq' => at'[d] = "none"
      BY Zenon, <1>1, <1>4 DEF IInv, Lifecycle, counters
    <2>3. \A d \in Conn : at'[d] = "none" => ~attr'[Out(d)].bOpen
      BY <1>3, <1>4, EndFacts DEF IInv, Lifecycle
    <2>4. \A d \in Conn : at'[d] # "worker" => ~attr'[In(d)].bOpen
      BY <1>3, <1>4, EndFacts DEF IInv, Lifecycle
    <2> QED
      BY Zenon, <2>1, <2>2, <2>3, <2>4 DEF Lifecycle
  <1>9. ManagerPhase'
    <2> SUFFICES ASSUME NEW d \in Conn, at'[d] \in {"none", "manager"}
                 PROVE  /\ wire[In(d)] = <<>>
                        /\ Cmds(wire[Out(d)]) \subseteq {"REQ_CONNECT"}
                        /\ Cmds(attr'[Out(d)].pSendBuff) \subseteq {"REQ_CONNECT"}
                        /\ step[d].kind # "tell"
      BY Zenon, <1>1 DEF ManagerPhase, Cmds
    <2>1. at[d] \in {"none", "manager"} /\ attr'[Out(d)] = attr[Out(d)]
      BY Zenon, <1>3, <1>4, EndFacts
    <2> QED
      BY Zenon, <2>1 DEF IInv, ManagerPhase
  <1>10. PassingPhase'
    <2> SUFFICES ASSUME NEW d \in Conn, at'[d] \in {"none", "manager", "passed"}
                 PROVE  /\ attr'[Out(d)].ucConnectStatus # "ok"
                        /\ "RSP_TELL" \notin Cmds(wire[In(d)])
                        /\ "DATA" \notin Cmds(wire[In(d)])
      BY Zenon, <1>1 DEF PassingPhase, Cmds
    <2>1. at[d] \in {"none", "manager", "passed"} /\ attr'[Out(d)] = attr[Out(d)]
      BY Zenon, <1>3, <1>4, EndFacts
    <2> QED
      BY Zenon, <2>1 DEF IInv, PassingPhase
  <1>11. ArmedEvent'
    <2>1. \A d \in End : attr'[d].bWriteEvent => attr'[d] = attr[d]
      BY Zenon, <1>2, <1>3
    <2> QED
      BY Zenon, <1>1, <2>1 DEF IInv, ArmedEvent
  <1>12. Established'
    <2>1. ASSUME NEW d \in End, attr'[d].bOpen,
                 "DATA" \in Cmds(wire[d]) \cup Cmds(attr'[d].pSendBuff)
          PROVE  attr'[d].ucConnectStatus = "ok"
      <3>1. d # In(c)
        BY Zenon, <2>1, <1>2, <1>3, <1>5, CmdsEmpty
      <3> QED
        BY Zenon, <2>1, <3>1, <1>3 DEF IInv, Established
    <2>2. ASSUME NEW d \in Conn, attr'[In(d)].bOpen,
                 "RSP_TELL" \in Cmds(wire[In(d)]) \cup Cmds(attr'[In(d)].pSendBuff)
          PROVE  attr'[In(d)].ucConnectStatus = "ok"
      <3>1. d # c
        BY Zenon, <2>2, <1>2, <1>3, <1>5, CmdsEmpty
      <3> QED
        BY <2>2, <3>1, <1>3, EndFacts DEF IInv, Established
    <2>3. ASSUME NEW d \in Conn, attr'[Out(d)].bOpen, attr'[Out(d)].ucConnectStatus = "ok",
                 attr'[In(d)].bOpen
          PROVE  attr'[In(d)].ucConnectStatus = "ok"
      BY <2>3, <1>3, <1>5, EndFacts DEF IInv, Established
    <2> QED
      BY Zenon, <1>1, <2>1, <2>2, <2>3 DEF Established, Cmds
  <1> QED
    BY Zenon, <1>6, <1>7, <1>8, <1>9, <1>10, <1>11, <1>12 DEF IInv

\* The remote Manager's answer and the passing of the fd keep the invariant.
LEMMA MgrTransferFdStep ==
    ASSUME IInv, NEW c \in Conn, MgrTransferFd(c)
    PROVE  IInv'
  <1>t. TypeOK
    BY Zenon DEF IInv
  <1> DEFINE ws == wire[Out(c)]
  <1>1. /\ at[c] = "manager" /\ ws # <<>>
        /\ UNCHANGED <<attr, initiator, workerIndex, shell, step, rcvd, counters>>
    BY Zenon DEF MgrTransferFd
  <1>2. ws \in Seq(Msg) /\ wire[In(c)] = <<>>
    BY Zenon, <1>1, <1>t, EndFacts DEF TypeOK, IInv, ManagerPhase
  <1>3. PICK x \in Seq(Msg), y \in Seq(Msg), a \in {"passed", "closed"} :
          /\ Cmds(x) \subseteq Cmds(ws) /\ Cmds(y) \subseteq {"RSP_CONNECT"}
          /\ wire' = [wire EXCEPT ![Out(c)] = x, ![In(c)] = y]
          /\ at' = [at EXCEPT ![c] = a]
    <2>1. PICK n \in 1..Len(ws), found \in BOOLEAN, passed \in BOOLEAN :
            LET known == found /\ Head(ws).cmd = "REQ_CONNECT" IN
            /\ wire' = [wire EXCEPT ![Out(c)] = IF passed /\ known
                                                THEN SubSeq(@, n + 1, Len(@)) ELSE <<>>,
                                    ![In(c)] = IF known /\ attr[Out(c)].bOpen
                                               THEN @ \o MgrAnswer ELSE @]
            /\ at' = [at EXCEPT ![c] = IF passed /\ known THEN "passed" ELSE "closed"]
      BY Zenon DEF MgrTransferFd
    <2> DEFINE known == found /\ Head(ws).cmd = "REQ_CONNECT"
               xx == IF passed /\ known THEN SubSeq(ws, n + 1, Len(ws)) ELSE <<>>
               yy == IF known /\ attr[Out(c)].bOpen THEN <<>> \o MgrAnswer ELSE <<>>
               aa == IF passed /\ known THEN "passed" ELSE "closed"
    <2>2. wire' = [wire EXCEPT ![Out(c)] = xx, ![In(c)] = yy]
      BY Zenon, <1>2, <1>t, <2>1, EndFacts DEF TypeOK
    <2>3. at' = [at EXCEPT ![c] = aa] /\ aa \in {"passed", "closed"}
      BY Zenon, <2>1
    <2> HIDE DEF known
    <2>4. xx \in Seq(Msg) /\ Cmds(xx) \subseteq Cmds(ws)
      <3>1. n \in 0..Len(ws) /\ <<>> \in Seq(Msg)
        BY <1>2
      <3> HIDE DEF ws
      <3> QED
        BY Zenon, <1>2, <3>1, CmdsSubSeq, CmdsEmpty
    <2>5. yy \in Seq(Msg) /\ Cmds(yy) \subseteq {"RSP_CONNECT"}
      <3>1. <<>> \o MgrAnswer = Append(<<>>, M("RSP_CONNECT"))
        BY DEF MgrAnswer
      <3>2. <<>> \in Seq(Msg) /\ M("RSP_CONNECT") \in Msg /\ M("RSP_CONNECT").cmd = "RSP_CONNECT"
        BY MessageFacts
      <3>3. Append(<<>>, M("RSP_CONNECT")) \in Seq(Msg)
            /\ Cmds(Append(<<>>, M("RSP_CONNECT"))) = {} \cup {"RSP_CONNECT"}
        BY Zenon, <3>2, CmdsAppend, CmdsEmpty
      <3> QED
        BY Zenon, <3>1, <3>2, <3>3, CmdsEmpty
    <2> HIDE DEF xx, yy, aa
    <2> QED
      BY Zenon, <2>2, <2>3, <2>4, <2>5
  <1>6. wire'[Out(c)] = x /\ wire'[In(c)] = y
        /\ \A e \in End : e # Out(c) /\ e # In(c) => wire'[e] = wire[e]
    BY Zenon, <1>3, <1>t, EndFacts DEF TypeOK
  <1>7. at'[c] = a /\ \A d \in Conn : d # c => at'[d] = at[d]
    BY Zenon, <1>3, <1>t DEF TypeOK
  <1>8. TypeOK'
    <2>1. wire' \in [End -> Seq(Msg)]
      BY Zenon, <1>3, <1>t, EndFacts DEF TypeOK
    <2>2. at' \in [Conn -> {"none", "manager", "passed", "worker", "closed"}]
      BY Zenon, <1>3, <1>t DEF TypeOK
    <2> QED
      BY Zenon, <1>1, <2>1, <2>2, <1>t DEF TypeOK, counters
  <1>9. ShellIsLive' /\ ArmedEvent'
    BY Zenon, <1>1 DEF IInv, ShellIsLive, ArmedEvent, Owner
  <1>10. Lifecycle'
    BY Zenon, <1>1, <1>3, <1>7 DEF IInv, Lifecycle, counters
  <1> HIDE DEF ws
  <1>11. ManagerPhase'
    <2> SUFFICES ASSUME NEW d \in Conn, at'[d] \in {"none", "manager"}
                 PROVE  /\ wire'[In(d)] = <<>>
                        /\ Cmds(wire'[Out(d)]) \subseteq {"REQ_CONNECT"}
                        /\ Cmds(attr[Out(d)].pSendBuff) \subseteq {"REQ_CONNECT"}
                        /\ step[d].kind # "tell"
      BY Zenon, <1>1 DEF ManagerPhase, Cmds
    <2>1. d # c /\ at'[d] = at[d]
      BY Zenon, <1>3, <1>7
    <2>2. wire'[In(d)] = wire[In(d)] /\ wire'[Out(d)] = wire[Out(d)]
      BY <2>1, <1>6, EndFacts
    <2> QED
      BY Zenon, <2>1, <2>2 DEF IInv, ManagerPhase
  <1>12. PassingPhase'
    <2> SUFFICES ASSUME NEW d \in Conn, at'[d] \in {"none", "manager", "passed"}
                 PROVE  /\ attr[Out(d)].ucConnectStatus # "ok"
                        /\ "RSP_TELL" \notin Cmds(wire'[In(d)])
                        /\ "DATA" \notin Cmds(wire'[In(d)])
      BY Zenon, <1>1 DEF PassingPhase, Cmds
    <2>1. CASE d = c
      BY <2>1, <1>1, <1>3, <1>6 DEF IInv, PassingPhase
    <2>2. CASE d # c
      <3>1. wire'[In(d)] = wire[In(d)] /\ at'[d] = at[d]
        BY <2>2, <1>6, <1>7, EndFacts
      <3> QED
        BY Zenon, <3>1 DEF IInv, PassingPhase
    <2> QED
      BY Zenon, <2>1, <2>2
  <1>13. Established'
    <2>1. ~attr[In(c)].bOpen
      BY Zenon, <1>1 DEF IInv, Lifecycle
    <2>2. \A e \in End : attr[e].bOpen => Cmds(wire'[e]) \subseteq Cmds(wire[e])
      BY Zenon, <1>3, <1>6, <2>1 DEF ws
    <2>3. ASSUME NEW e \in End, attr[e].bOpen,
                 "DATA" \in Cmds(wire'[e]) \cup Cmds(attr[e].pSendBuff)
          PROVE  attr[e].ucConnectStatus = "ok"
      BY Zenon, <2>2, <2>3 DEF IInv, Established
    <2>4. ASSUME NEW d \in Conn, attr[In(d)].bOpen,
                 "RSP_TELL" \in Cmds(wire'[In(d)]) \cup Cmds(attr[In(d)].pSendBuff)
          PROVE  attr[In(d)].ucConnectStatus = "ok"
      BY Zenon, <2>2, <2>4, EndFacts DEF IInv, Established
    <2>5. \A d \in Conn : attr[Out(d)].bOpen /\ attr[Out(d)].ucConnectStatus = "ok"
             /\ attr[In(d)].bOpen => attr[In(d)].ucConnectStatus = "ok"
      BY Zenon DEF IInv, Established
    <2> QED
      BY Zenon, <1>1, <2>3, <2>4, <2>5 DEF Established, Cmds
  <1> QED
    BY Zenon, <1>8, <1>9, <1>10, <1>11, <1>12, <1>13 DEF IInv

\* An accepted socket closed before a worker owns it keeps the invariant.
LEMMA AcceptorClosesStep ==
    ASSUME IInv, NEW c \in Conn, AcceptorCloses(c)
    PROVE  IInv'
  <1>t. TypeOK
    BY Zenon DEF IInv
  <1>1. /\ at[c] \in {"manager", "passed"} /\ at' = [at EXCEPT ![c] = "closed"]
        /\ wire' = [wire EXCEPT ![Out(c)] = <<>>]
        /\ UNCHANGED <<attr, initiator, workerIndex, shell, step, rcvd, counters>>
    BY Zenon DEF AcceptorCloses
  <1>2. at'[c] = "closed" /\ \A d \in Conn : d # c => at'[d] = at[d]
    BY Zenon, <1>1, <1>t DEF TypeOK
  <1>3. \A e \in End : wire'[e] = <<>> \/ wire'[e] = wire[e]
    BY Zenon, <1>1, <1>t DEF TypeOK
  <1>4. TypeOK'
    BY <1>1, <1>t, EndFacts DEF TypeOK, counters
  <1>5. ShellIsLive' /\ ArmedEvent'
    BY Zenon, <1>1 DEF IInv, ShellIsLive, ArmedEvent, Owner
  <1>6. Lifecycle'
    BY Zenon, <1>1, <1>2 DEF IInv, Lifecycle, counters
  <1>7. ManagerPhase'
    <2> SUFFICES ASSUME NEW d \in Conn, at'[d] \in {"none", "manager"}
                 PROVE  /\ wire'[In(d)] = <<>>
                        /\ Cmds(wire'[Out(d)]) \subseteq {"REQ_CONNECT"}
                        /\ Cmds(attr[Out(d)].pSendBuff) \subseteq {"REQ_CONNECT"}
                        /\ step[d].kind # "tell"
      BY Zenon, <1>1 DEF ManagerPhase, Cmds
    <2>1. at[d] = at'[d]
      BY Zenon, <1>2
    <2> QED
      BY Zenon, <1>3, <2>1, CmdsEmpty, EndFacts DEF IInv, ManagerPhase
  <1>8. PassingPhase'
    <2> SUFFICES ASSUME NEW d \in Conn, at'[d] \in {"none", "manager", "passed"}
                 PROVE  /\ attr[Out(d)].ucConnectStatus # "ok"
                        /\ "RSP_TELL" \notin Cmds(wire'[In(d)])
                        /\ "DATA" \notin Cmds(wire'[In(d)])
      BY Zenon, <1>1 DEF PassingPhase, Cmds
    <2>1. at[d] = at'[d]
      BY Zenon, <1>2
    <2> QED
      BY Zenon, <1>3, <2>1, CmdsEmpty, EndFacts DEF IInv, PassingPhase
  <1>9. Established'
    <2>1. \A e \in End : Cmds(wire'[e]) \subseteq Cmds(wire[e])
      BY Zenon, <1>3, CmdsEmpty
    <2>2. ASSUME NEW e \in End, attr[e].bOpen,
                 "DATA" \in Cmds(wire'[e]) \cup Cmds(attr[e].pSendBuff)
          PROVE  attr[e].ucConnectStatus = "ok"
      BY Zenon, <2>1, <2>2 DEF IInv, Established
    <2>3. ASSUME NEW d \in Conn, attr[In(d)].bOpen,
                 "RSP_TELL" \in Cmds(wire'[In(d)]) \cup Cmds(attr[In(d)].pSendBuff)
          PROVE  attr[In(d)].ucConnectStatus = "ok"
      BY Zenon, <2>1, <2>3, EndFacts DEF IInv, Established
    <2>4. \A d \in Conn : attr[Out(d)].bOpen /\ attr[Out(d)].ucConnectStatus = "ok"
             /\ attr[In(d)].bOpen => attr[In(d)].ucConnectStatus = "ok"
      BY Zenon DEF IInv, Established
    <2> QED
      BY Zenon, <1>1, <2>2, <2>3, <2>4 DEF Established, Cmds
  <1> QED
    BY Zenon, <1>4, <1>5, <1>6, <1>7, <1>8, <1>9 DEF IInv

\* A worker that dies and restarts empty keeps the invariant.
LEMMA CrashStep ==
    ASSUME IInv, NEW w \in Worker, Crash(w)
    PROVE  IInv'
  <1> DEFINE dies == {e \in End : Owner(e) = w}
             coming == {c \in Conn : at[c] = "passed" /\ Owner(In(c)) = w}
             lost(e) == Other(e) \in dies /\ (e[2] = "out" => at[e[1]] # "manager")
  <1>t. TypeOK
    BY Zenon DEF IInv
  <1>1. /\ attr' = [e \in End |-> IF e \in dies THEN Closed ELSE attr[e]]
        /\ at' = [c \in Conn |-> IF c \in coming THEN "closed" ELSE at[c]]
        /\ wire' = [e \in End |-> IF lost(e) THEN <<>> ELSE wire[e]]
        /\ shell' = [shell EXCEPT ![w] = NoShell]
        /\ step' = [c \in Conn |-> IF initiator[c] = w THEN NoStep ELSE step[c]]
        /\ workerIndex' = {c \in workerIndex : initiator[c] # w}
        /\ UNCHANGED <<initiator, rcvd, nSeq, nMsg, nBeat>>
    BY Zenon DEF Crash
  <1>2. nCrash' \in 0..MaxCrash
    BY <1>t, BoundAssumption DEF Crash, TypeOK
  <1>3. /\ Closed \in Attr /\ Closed.bOpen = FALSE /\ Closed.pSendBuff = <<>>
        /\ Closed.ucConnectStatus = "init" /\ Closed.bWriteEvent = FALSE
    <2>1. <<>> \in Seq(Msg)
      OBVIOUS
    <2> QED
      BY Zenon, <2>1 DEF Closed, Attr
  <1>4. \A e \in End : attr'[e] = Closed \/ (e \notin dies /\ attr'[e] = attr[e])
    BY Zenon, <1>1
  <1>5. \A e \in End : wire'[e] = <<>> \/ wire'[e] = wire[e]
    BY Zenon, <1>1
  <1>6. \A c \in Conn : (c \in coming /\ at'[c] = "closed") \/ at'[c] = at[c]
    BY Zenon, <1>1
  <1>7. \A c \in Conn : step'[c] = NoStep \/ step'[c] = step[c]
    BY Zenon, <1>1
  <1>8. TypeOK'
    <2>1. attr' \in [End -> Attr]
      BY Zenon, <1>1, <1>3, <1>t DEF TypeOK
    <2>2. wire' \in [End -> Seq(Msg)]
      <3>1. <<>> \in Seq(Msg)
        OBVIOUS
      <3> HIDE DEF lost
      <3> QED
        BY Zenon, <1>1, <1>t, <3>1 DEF TypeOK
    <2>3. at' \in [Conn -> {"none", "manager", "passed", "worker", "closed"}]
      BY Zenon, <1>1, <1>t DEF TypeOK
    <2>4. NoStep \in Step
      BY BoundAssumption DEF NoStep, Step
    <2>5. step' \in [Conn -> Step]
      BY Zenon, <1>1, <2>4, <1>t DEF TypeOK
    <2>6. shell' \in [Worker -> End \cup {NoShell}] /\ workerIndex' \subseteq Conn
      BY Zenon, <1>1, <1>t DEF TypeOK
    <2> QED
      BY Zenon, <1>1, <1>2, <2>1, <2>2, <2>3, <2>5, <2>6, <1>t DEF TypeOK
  <1>9. ShellIsLive'
    <2> SUFFICES ASSUME NEW v \in Worker, shell'[v] # NoShell
                 PROVE  attr'[shell'[v]].bOpen /\ Owner(shell[v])' = v
      BY Zenon DEF ShellIsLive
    <2>1. v # w /\ shell'[v] = shell[v] /\ shell[v] \in End
      BY Zenon, <1>1, <1>t DEF TypeOK
    <2>2. attr[shell[v]].bOpen /\ Owner(shell[v]) = v
      BY Zenon, <2>1 DEF IInv, ShellIsLive
    <2>3. attr'[shell[v]] = attr[shell[v]]
      BY Zenon, <1>1, <2>1, <2>2
    <2>4. Owner(shell[v])' = Owner(shell[v])
      BY <1>1, <2>1 DEF Owner
    <2> QED
      BY Zenon, <2>1, <2>2, <2>3, <2>4
  <1>10. Lifecycle'
    <2>1. \A e \in End : attr'[e].bOpen => attr[e].bOpen
      BY Zenon, <1>3, <1>4
    <2>2. \A e \in End : ~attr'[e].bOpen => attr'[e] = Closed
      BY Zenon, <1>4 DEF IInv, Lifecycle
    <2>3. \A c \in Conn : c > nSeq' => at'[c] = "none"
      BY Zenon, <1>1, <1>6 DEF IInv, Lifecycle
    <2>4. \A c \in Conn : at'[c] = "none" => at[c] = "none"
      BY Zenon, <1>6
    <2>5. \A c \in Conn : at'[c] # "worker" => at[c] # "worker"
      BY Zenon, <1>6
    <2> QED
      BY Zenon, <2>1, <2>2, <2>3, <2>4, <2>5, EndFacts DEF IInv, Lifecycle
  <1> HIDE DEF dies, coming, lost
  <1>11. \A e \in End : Cmds(attr'[e].pSendBuff) \subseteq Cmds(attr[e].pSendBuff)
                        /\ Cmds(wire'[e]) \subseteq Cmds(wire[e])
    BY Zenon, <1>3, <1>4, <1>5, CmdsEmpty
  <1>12. ManagerPhase'
    <2> SUFFICES ASSUME NEW c \in Conn, at'[c] \in {"none", "manager"}
                 PROVE  /\ wire'[In(c)] = <<>>
                        /\ Cmds(wire'[Out(c)]) \subseteq {"REQ_CONNECT"}
                        /\ Cmds(attr'[Out(c)].pSendBuff) \subseteq {"REQ_CONNECT"}
                        /\ step'[c].kind # "tell"
      BY Zenon DEF ManagerPhase, Cmds
    <2>1. at[c] \in {"none", "manager"}
      BY Zenon, <1>6
    <2>2. step'[c].kind # "tell"
      BY <2>1, <1>7 DEF IInv, ManagerPhase, NoStep
    <2>3. wire'[In(c)] = <<>>
      BY Zenon, <2>1, <1>5, EndFacts DEF IInv, ManagerPhase
    <2> QED
      BY Zenon, <2>1, <2>2, <2>3, <1>11, EndFacts DEF IInv, ManagerPhase
  <1>13. PassingPhase'
    <2> SUFFICES ASSUME NEW c \in Conn, at'[c] \in {"none", "manager", "passed"}
                 PROVE  /\ attr'[Out(c)].ucConnectStatus # "ok"
                        /\ "RSP_TELL" \notin Cmds(wire'[In(c)])
                        /\ "DATA" \notin Cmds(wire'[In(c)])
      BY Zenon DEF PassingPhase, Cmds
    <2>1. at[c] \in {"none", "manager", "passed"}
      BY Zenon, <1>6
    <2>2. attr'[Out(c)].ucConnectStatus # "ok"
      BY Zenon, <2>1, <1>3, <1>4, EndFacts DEF IInv, PassingPhase
    <2> QED
      BY Zenon, <2>1, <2>2, <1>11, EndFacts DEF IInv, PassingPhase
  <1>14. ArmedEvent'
    <2> SUFFICES ASSUME NEW e \in End, attr'[e].bWriteEvent, attr'[e].ucConnectStatus # "ok"
                 PROVE  e[2] = "out" /\ (attr'[e].pSendBuff = <<>> => e[1] \in workerIndex')
      BY Zenon DEF ArmedEvent
    <2>1. e \notin dies /\ attr'[e] = attr[e]
      BY Zenon, <1>3, <1>4
    <2>2. e[2] = "out" /\ (attr[e].pSendBuff = <<>> => e[1] \in workerIndex)
      BY Zenon, <2>1 DEF IInv, ArmedEvent
    <2>3. initiator[e[1]] # w
      BY Zenon, <2>1, <2>2 DEF dies, Owner
    <2> QED
      BY Zenon, <1>1, <2>1, <2>2, <2>3
  <1>15. Established'
    <2>1. \A e \in End : attr'[e].bOpen => attr'[e] = attr[e]
      BY Zenon, <1>3, <1>4
    <2>2. ASSUME NEW e \in End, attr'[e].bOpen,
                 "DATA" \in Cmds(wire'[e]) \cup Cmds(attr'[e].pSendBuff)
          PROVE  attr'[e].ucConnectStatus = "ok"
      BY Zenon, <2>1, <2>2, <1>11 DEF IInv, Established
    <2>3. ASSUME NEW c \in Conn, attr'[In(c)].bOpen,
                 "RSP_TELL" \in Cmds(wire'[In(c)]) \cup Cmds(attr'[In(c)].pSendBuff)
          PROVE  attr'[In(c)].ucConnectStatus = "ok"
      BY Zenon, <2>1, <2>3, <1>11, EndFacts DEF IInv, Established
    <2>4. ASSUME NEW c \in Conn, attr'[Out(c)].bOpen, attr'[Out(c)].ucConnectStatus = "ok",
                 attr'[In(c)].bOpen
          PROVE  attr'[In(c)].ucConnectStatus = "ok"
      BY Zenon, <2>1, <2>4, EndFacts DEF IInv, Established
    <2> QED
      BY Zenon, <2>2, <2>3, <2>4 DEF Established, Cmds
  <1> QED
    BY Zenon, <1>8, <1>9, <1>10, <1>12, <1>13, <1>14, <1>15 DEF IInv

-----------------------------------------------------------------------------
(* The theorems. *)

\* The invariant holds initially.
LEMMA InitIInv == Init => IInv
  <1> SUFFICES ASSUME Init PROVE IInv
    BY Zenon
  <1>1. <<>> \in Seq(Msg) /\ <<>> \in Seq(0..MaxMsg) /\ NoStep \in Step /\ A \in Worker
    BY BoundAssumption DEF NoStep, Step, Worker
  <1>2. Closed \in Attr
    BY Zenon, <1>1 DEF Closed, Attr
  <1>3. \A e \in End : attr[e] = Closed /\ wire[e] = <<>>
    BY Zenon DEF Init
  <1>4. /\ Closed.bOpen = FALSE /\ Closed.pSendBuff = <<>> /\ Closed.bWriteEvent = FALSE
        /\ Closed.ucConnectStatus = "init"
    BY Zenon DEF Closed
  <1>5. TypeOK
    BY <1>1, <1>2, BoundAssumption DEF Init, TypeOK
  <1>6. ShellIsLive
    BY Zenon DEF Init, ShellIsLive
  <1>7. Lifecycle /\ ArmedEvent /\ Established
    BY Zenon, <1>3, <1>4, EndFacts DEF Init, Lifecycle, ArmedEvent, Established
  <1>8. ManagerPhase /\ PassingPhase
    BY Zenon, <1>3, <1>4, EndFacts, CmdsEmpty DEF Init, ManagerPhase, PassingPhase, NoStep
  <1> QED
    BY Zenon, <1>5, <1>6, <1>7, <1>8 DEF IInv

\* Every step of the link keeps the invariant.
LEMMA NextIInv == IInv /\ [Next]_vars => IInv'
  <1> SUFFICES ASSUME IInv, [Next]_vars PROVE IInv'
    BY Zenon
  <1>1. ASSUME NEW w \in Worker, Send(w) PROVE IInv'
    BY Zenon, <1>1, SendStep, AutoSendStep
  <1>2. ASSUME NEW w \in Worker, Crash(w) PROVE IInv'
    BY Zenon, <1>2, CrashStep
  <1>3. ASSUME NEW e \in End,
               \/ IoWriteSend(e) \/ IoWriteEmpty(e) \/ PeerClosed(e)
               \/ IoTimeout(e) \/ BeatTimeout(e)
               \/ RecvReqBeat(e) \/ RecvRspBeat(e) \/ RecvData(e)
        PROVE  IInv'
    BY Zenon, <1>3, IoWriteSendStep, IoWriteEmptyStep, PeerClosedStep, IoTimeoutStep,
       BeatTimeoutStep, RecvReqBeatStep, RecvRspBeatStep, RecvDataStep
  <1>4. ASSUME NEW c \in Conn,
               \/ StepTimeout(c)
               \/ RecvRspConnect(c) \/ RecvSysError(c) \/ RecvRspTell(c)
               \/ RecvReqConnect(c) \/ RecvReqTell(c)
               \/ MgrTransferFd(c) \/ AcceptorCloses(c) \/ FdTransfer(c)
        PROVE  IInv'
    BY Zenon, <1>4, StepTimeoutStep, RecvRspConnectStep, RecvSysErrorStep, RecvRspTellStep,
       RecvReqConnectStep, RecvReqTellStep, MgrTransferFdStep, AcceptorClosesStep,
       FdTransferStep
  <1>5. CASE UNCHANGED vars
    <2>1. TypeOK' /\ ShellIsLive' /\ Lifecycle' /\ ArmedEvent'
      BY Zenon, <1>5 DEF vars, IInv, TypeOK, ShellIsLive, Lifecycle, ArmedEvent, Owner
    <2>2. ManagerPhase' /\ PassingPhase'
      BY Zenon, <1>5 DEF vars, IInv, ManagerPhase, PassingPhase, Cmds
    <2>3. Established'
      BY Zenon, <1>5 DEF vars, IInv, Established, Cmds
    <2> QED
      BY Zenon, <2>1, <2>2, <2>3 DEF IInv
  <1> QED
    BY Zenon, <1>1, <1>2, <1>3, <1>4, <1>5 DEF Next

\* Every reachable state satisfies the inductive invariant.
THEOREM Invariance == Spec => []IInv
  BY InitIInv, NextIInv, PTL DEF Spec

\* Every variable keeps its type, for every number of connections, messages,
\* heartbeats, crashes and retries.
THEOREM TypeCorrect == Spec => []TypeOK
  <1>1. IInv => TypeOK
    BY Zenon DEF IInv
  <1> QED
    BY <1>1, Invariance, PTL

\* SendTo(identify) never finds a shell of a connection that DestroyConnect or a
\* crash has removed, whatever the order of handshakes, closes and crossing connects.
THEOREM ShellsAreLive == Spec => []ShellIsLive
  <1>1. IInv => ShellIsLive
    BY Zenon DEF IInv
  <1> QED
    BY <1>1, Invariance, PTL

\* The remote Manager, which discards what it reads behind the first message, never
\* gets to read anything but CONNECT.
THEOREM ManagerSafe == Spec => []ManagerReadsOnlyConnect
  <1>1. IInv => ManagerReadsOnlyConnect
    BY Zenon DEF IInv, ManagerPhase, ManagerReadsOnlyConnect
  <1> QED
    BY <1>1, Invariance, PTL

\* Application data leaves an endpoint only after the accepting worker has answered
\* TELL, also under retried, late and repeated handshake messages.
THEOREM HandshakeFirst == Spec => []DataAfterHandshake
  <1>1. IInv => DataAfterHandshake
    <2> SUFFICES ASSUME IInv, NEW e \in End, attr[e].bOpen, attr[Other(e)].bOpen,
                        "DATA" \in Cmds(wire[e]) \cup Cmds(attr[e].pSendBuff)
                 PROVE  attr[In(e[1])].ucConnectStatus = "ok"
      BY Zenon DEF DataAfterHandshake
    <2>1. attr[e].ucConnectStatus = "ok"
      BY Zenon DEF IInv, Established
    <2>2. CASE e[2] = "out"
      BY Zenon, <2>1, <2>2, EndFacts DEF IInv, Established
    <2>3. CASE e[2] = "in"
      BY Zenon, <2>1, <2>3, EndFacts
    <2> QED
      BY Zenon, <2>2, <2>3, EndFacts DEF Side
  <1> QED
    BY <1>1, Invariance, PTL

-----------------------------------------------------------------------------
(* The second inductive invariant, about what is on its way: the application messages
   between two endpoints, from those delivered to those that wait to be encoded, are one
   line of rising numbers (FlowInv), and the phase of the handshake bounds which commands
   a connection can carry and which buffers may hold data (CtlInv). Here: lines, writes,
   and the steps that open or lose connections; InnerLinkFlow has the others. *)

-----------------------------------------------------------------------------
(* The order of the application messages in a buffer. *)

\* The application messages of a buffer or a wire.
Ids(s) == {s[i].id : i \in {j \in 1..Len(s) : s[j].cmd = "DATA"}}

\* The elements of a sequence of message numbers.
Elems(s) == {s[i] : i \in 1..Len(s)}

\* Application messages stand in the order in which SendTo accepted them.
Rising(s) == \A i, j \in 1..Len(s) :
    i < j /\ s[i].cmd = "DATA" /\ s[j].cmd = "DATA" => s[i].id < s[j].id

Increasing(s) == \A i, j \in 1..Len(s) : i < j => s[i] < s[j]

Before(S, T) == \A a \in S, b \in T : a < b

\* What one endpoint has sent, in order: R was received at the other end, X is in the
\* kernel, P in pSendBuff and W waits for the handshake.
Line(R, X, P, W) ==
    /\ Increasing(R) /\ Rising(X) /\ Rising(P) /\ Rising(W)
    /\ Before(Elems(R), Ids(X)) /\ Before(Elems(R), Ids(P)) /\ Before(Ids(X), Ids(P))

Sent(R, X, P, W) == Elems(R) \cup Ids(X) \cup Ids(P) \cup Ids(W)

\* An empty buffer holds no message.
LEMMA IdsEmpty == Ids(<<>>) = {} /\ Rising(<<>>) /\ Elems(<<>>) = {} /\ Increasing(<<>>)
  BY DEF Ids, Rising, Elems, Increasing

\* A buffer without application data.
LEMMA IdsNone ==
    ASSUME NEW s \in Seq(Msg)
    PROVE  "DATA" \notin Cmds(s) <=> Ids(s) = {}
  BY Zenon DEF Ids, Cmds

\* The numbers of messages are natural numbers.
LEMMA IdsNat ==
    ASSUME NEW s \in Seq(Msg)
    PROVE  Ids(s) \subseteq 0..MaxMsg
  <1> SUFFICES ASSUME NEW i \in 1..Len(s), s[i].cmd = "DATA"
               PROVE  s[i].id \in 0..MaxMsg
    BY Zenon DEF Ids
  <1>1. s[i] \in Msg
    OBVIOUS
  <1> QED
    BY Zenon, <1>1 DEF Msg

\* Two buffers, one behind the other.
LEMMA IdsConcat ==
    ASSUME NEW s \in Seq(Msg), NEW t \in Seq(Msg)
    PROVE  /\ Ids(s \o t) = Ids(s) \cup Ids(t)
           /\ Rising(s) /\ Rising(t) /\ Before(Ids(s), Ids(t)) => Rising(s \o t)
  <1> DEFINE u == s \o t
  <1>1. u \in Seq(Msg) /\ Len(u) = Len(s) + Len(t) /\ Len(s) \in Nat /\ Len(t) \in Nat
    OBVIOUS
  <1>2. /\ \A i \in 1..Len(s) : u[i] = s[i]
        /\ \A i \in 1..Len(u) : i \notin 1..Len(s) => i - Len(s) \in 1..Len(t) /\ u[i] = t[i - Len(s)]
        /\ \A i \in 1..Len(t) : Len(s) + i \in 1..Len(u) /\ u[Len(s) + i] = t[i]
        /\ \A i \in 1..Len(s) : i \in 1..Len(u)
    OBVIOUS
  <1> HIDE DEF u
  <1>3. Ids(u) \subseteq Ids(s) \cup Ids(t)
    <2> SUFFICES ASSUME NEW i \in 1..Len(u), u[i].cmd = "DATA"
                 PROVE  u[i].id \in Ids(s) \cup Ids(t)
      BY Zenon DEF Ids
    <2>1. CASE i \in 1..Len(s)
      BY Zenon, <2>1, <1>2 DEF Ids
    <2>2. CASE i \notin 1..Len(s)
      BY Zenon, <2>2, <1>2 DEF Ids
    <2> QED
      BY Zenon, <2>1, <2>2
  <1>4. Ids(s) \subseteq Ids(u)
    <2> SUFFICES ASSUME NEW i \in 1..Len(s), s[i].cmd = "DATA"
                 PROVE  s[i].id \in Ids(u)
      BY Zenon DEF Ids
    <2>1. i \in 1..Len(u) /\ u[i] = s[i]
      BY Zenon, <1>2
    <2> QED
      BY Zenon, <2>1 DEF Ids
  <1>5. Ids(t) \subseteq Ids(u)
    <2> SUFFICES ASSUME NEW i \in 1..Len(t), t[i].cmd = "DATA"
                 PROVE  t[i].id \in Ids(u)
      BY Zenon DEF Ids
    <2>1. Len(s) + i \in 1..Len(u) /\ u[Len(s) + i] = t[i]
      BY Zenon, <1>2
    <2> QED
      BY Zenon, <2>1 DEF Ids
  <1>6. ASSUME Rising(s), Rising(t), Before(Ids(s), Ids(t)) PROVE Rising(u)
    <2> SUFFICES ASSUME NEW i \in 1..Len(u), NEW j \in 1..Len(u), i < j,
                        u[i].cmd = "DATA", u[j].cmd = "DATA"
                 PROVE  u[i].id < u[j].id
      BY Zenon DEF Rising
    <2>1. CASE j \in 1..Len(s)
      <3>1. i \in 1..Len(s)
        BY <2>1, <1>1
      <3>2. u[i] = s[i] /\ u[j] = s[j]
        BY Zenon, <2>1, <3>1, <1>2
      <3> QED
        BY Zenon, <2>1, <3>1, <3>2, <1>6 DEF Rising
    <2>2. CASE j \notin 1..Len(s) /\ i \in 1..Len(s)
      <3>1. u[i].id \in Ids(s)
        <4>1. u[i] = s[i]
          BY Zenon, <2>2, <1>2
        <4> QED
          BY Zenon, <2>2, <4>1 DEF Ids
      <3>2. u[j].id \in Ids(t)
        <4>1. j - Len(s) \in 1..Len(t) /\ u[j] = t[j - Len(s)]
          BY Zenon, <2>2, <1>2
        <4> QED
          BY Zenon, <4>1 DEF Ids
      <3> QED
        BY Zenon, <3>1, <3>2, <1>6 DEF Before
    <2>3. CASE j \notin 1..Len(s) /\ i \notin 1..Len(s)
      <3>1. i - Len(s) \in 1..Len(t) /\ j - Len(s) \in 1..Len(t) /\ i - Len(s) < j - Len(s)
        BY <2>3, <1>1, <1>2
      <3>2. u[i] = t[i - Len(s)] /\ u[j] = t[j - Len(s)]
        BY Zenon, <2>3, <1>2
      <3> QED
        BY Zenon, <3>1, <3>2, <1>6 DEF Rising
    <2> QED
      BY Zenon, <2>1, <2>2, <2>3
  <1> QED
    BY Zenon, <1>3, <1>4, <1>5, <1>6 DEF u

\* One message encoded behind a buffer.
LEMMA IdsAppend ==
    ASSUME NEW s \in Seq(Msg), NEW m \in Msg
    PROVE  /\ m.cmd = "DATA" => Ids(Append(s, m)) = Ids(s) \cup {m.id}
           /\ m.cmd # "DATA" => Ids(Append(s, m)) = Ids(s)
           /\ Rising(s) /\ (m.cmd = "DATA" => Before(Ids(s), {m.id})) => Rising(Append(s, m))
  <1> DEFINE t == <<m>>
  <1>1. t \in Seq(Msg) /\ Len(t) = 1 /\ t[1] = m /\ Append(s, m) = s \o t
    OBVIOUS
  <1> HIDE DEF t
  <1>2. Ids(t) = IF m.cmd = "DATA" THEN {m.id} ELSE {}
    <2>1. \A i \in 1..Len(t) : i = 1
      BY <1>1
    <2>2. Ids(t) \subseteq IF m.cmd = "DATA" THEN {m.id} ELSE {}
      BY Zenon, <1>1, <2>1 DEF Ids
    <2>3. m.cmd = "DATA" => m.id \in Ids(t)
      <3>1. 1 \in 1..Len(t)
        BY <1>1
      <3> QED
        BY Zenon, <1>1, <3>1 DEF Ids
    <2> QED
      BY Zenon, <2>2, <2>3
  <1>3. Rising(t)
    BY <1>1 DEF Rising
  <1>4. (m.cmd = "DATA" => Before(Ids(s), {m.id})) => Before(Ids(s), Ids(t))
    BY Zenon, <1>2 DEF Before
  <1>5. /\ Ids(s \o t) = Ids(s) \cup Ids(t)
        /\ Rising(s) /\ Rising(t) /\ Before(Ids(s), Ids(t)) => Rising(s \o t)
    BY Zenon, <1>1, IdsConcat
  <1>6. /\ m.cmd = "DATA" => Ids(s) \cup Ids(t) = Ids(s) \cup {m.id}
        /\ m.cmd # "DATA" => Ids(s) \cup Ids(t) = Ids(s)
    BY Zenon, <1>2
  <1> QED
    BY Zenon, <1>1, <1>3, <1>4, <1>5, <1>6

\* A buffer cut in two.
LEMMA IdsSubSeq ==
    ASSUME NEW s \in Seq(Msg), NEW k \in 0..Len(s)
    PROVE  /\ SubSeq(s, 1, k) \in Seq(Msg) /\ SubSeq(s, k + 1, Len(s)) \in Seq(Msg)
           /\ Ids(SubSeq(s, 1, k)) \subseteq Ids(s)
           /\ Ids(SubSeq(s, k + 1, Len(s))) \subseteq Ids(s)
           /\ Rising(s) => /\ Rising(SubSeq(s, 1, k)) /\ Rising(SubSeq(s, k + 1, Len(s)))
                           /\ Before(Ids(SubSeq(s, 1, k)), Ids(SubSeq(s, k + 1, Len(s))))
  <1> DEFINE a == SubSeq(s, 1, k)
             b == SubSeq(s, k + 1, Len(s))
  <1>0. Len(s) \in Nat /\ k \in Nat
    OBVIOUS
  <1>1. a \in Seq(Msg) /\ Len(a) = k /\ \A i \in 1..k : a[i] = s[i] /\ i \in 1..Len(s)
    OBVIOUS
  <1>2. b \in Seq(Msg) /\ Len(b) = Len(s) - k
        /\ \A i \in 1..Len(s) - k : b[i] = s[k + i] /\ k + i \in 1..Len(s)
    OBVIOUS
  <1> HIDE DEF a, b
  <1>3. Ids(a) \subseteq Ids(s)
    BY Zenon, <1>1 DEF Ids
  <1>4. Ids(b) \subseteq Ids(s)
    <2> SUFFICES ASSUME NEW i \in 1..Len(b), b[i].cmd = "DATA"
                 PROVE  b[i].id \in Ids(s)
      BY Zenon DEF Ids
    <2>1. k + i \in 1..Len(s) /\ s[k + i] = b[i]
      BY Zenon, <1>2
    <2> QED
      BY Zenon, <2>1 DEF Ids
  <1>5. ASSUME Rising(s) PROVE Rising(a)
    BY Zenon, <1>1, <1>5 DEF Rising
  <1>6. ASSUME Rising(s) PROVE Rising(b)
    <2> SUFFICES ASSUME NEW i \in 1..Len(b), NEW j \in 1..Len(b), i < j,
                        b[i].cmd = "DATA", b[j].cmd = "DATA"
                 PROVE  b[i].id < b[j].id
      BY Zenon DEF Rising
    <2>1. k + i < k + j /\ k + i \in 1..Len(s) /\ k + j \in 1..Len(s)
          /\ b[i] = s[k + i] /\ b[j] = s[k + j]
      BY <1>0, <1>2
    <2> QED
      BY Zenon, <2>1, <1>6 DEF Rising
  <1>7. ASSUME Rising(s) PROVE Before(Ids(a), Ids(b))
    <2> SUFFICES ASSUME NEW i \in 1..Len(a), NEW j \in 1..Len(b),
                        a[i].cmd = "DATA", b[j].cmd = "DATA"
                 PROVE  a[i].id < b[j].id
      BY Zenon DEF Before, Ids
    <2>1. i < k + j /\ i \in 1..Len(s) /\ k + j \in 1..Len(s)
          /\ a[i] = s[i] /\ b[j] = s[k + j]
      BY <1>0, <1>1, <1>2
    <2> QED
      BY Zenon, <2>1, <1>7 DEF Rising
  <1> QED
    BY Zenon, <1>1, <1>2, <1>3, <1>4, <1>5, <1>6, <1>7 DEF a, b

\* The message at the head of a wire and the rest.
LEMMA IdsHeadTail ==
    ASSUME NEW s \in Seq(Msg), s # <<>>
    PROVE  /\ Tail(s) \in Seq(Msg) /\ Ids(Tail(s)) \subseteq Ids(s)
           /\ Rising(s) => Rising(Tail(s))
           /\ Head(s).cmd = "DATA" => Head(s).id \in Ids(s)
           /\ Rising(s) /\ Head(s).cmd = "DATA" => Before({Head(s).id}, Ids(Tail(s)))
  <1> DEFINE b == Tail(s)
  <1>0. Len(s) \in Nat /\ Len(s) >= 1 /\ Head(s) = s[1] /\ 1 \in 1..Len(s)
    OBVIOUS
  <1>1. b \in Seq(Msg) /\ Len(b) = Len(s) - 1
        /\ \A i \in 1..Len(s) - 1 : b[i] = s[i + 1] /\ i + 1 \in 1..Len(s) /\ 1 < i + 1
    OBVIOUS
  <1> HIDE DEF b
  <1>2. Ids(b) \subseteq Ids(s)
    <2> SUFFICES ASSUME NEW i \in 1..Len(b), b[i].cmd = "DATA"
                 PROVE  b[i].id \in Ids(s)
      BY Zenon DEF Ids
    <2>1. i + 1 \in 1..Len(s) /\ s[i + 1] = b[i]
      BY Zenon, <1>1
    <2> QED
      BY Zenon, <2>1 DEF Ids
  <1>3. ASSUME Rising(s) PROVE Rising(b)
    <2> SUFFICES ASSUME NEW i \in 1..Len(b), NEW j \in 1..Len(b), i < j,
                        b[i].cmd = "DATA", b[j].cmd = "DATA"
                 PROVE  b[i].id < b[j].id
      BY Zenon DEF Rising
    <2>1. i + 1 < j + 1 /\ i + 1 \in 1..Len(s) /\ j + 1 \in 1..Len(s)
          /\ b[i] = s[i + 1] /\ b[j] = s[j + 1]
      BY <1>0, <1>1
    <2> QED
      BY Zenon, <2>1, <1>3 DEF Rising
  <1>4. Head(s).cmd = "DATA" => Head(s).id \in Ids(s)
    BY Zenon, <1>0 DEF Ids
  <1>5. ASSUME Rising(s), Head(s).cmd = "DATA" PROVE Before({Head(s).id}, Ids(b))
    <2> SUFFICES ASSUME NEW j \in 1..Len(b), b[j].cmd = "DATA"
                 PROVE  s[1].id < b[j].id
      BY Zenon, <1>0 DEF Before, Ids
    <2> QED
      BY Zenon, <1>0, <1>1, <1>5 DEF Rising
  <1> QED
    BY Zenon, <1>1, <1>2, <1>3, <1>4, <1>5 DEF b

\* Losing messages keeps the order.
LEMMA LineLess ==
    ASSUME NEW R, NEW X, NEW P, NEW W, Line(R, X, P, W),
           NEW X2, NEW P2, NEW W2, Rising(X2), Rising(P2), Rising(W2),
           Ids(X2) \subseteq Ids(X), Ids(P2) \subseteq Ids(P), Ids(W2) \subseteq Ids(W)
    PROVE  Line(R, X2, P2, W2) /\ Sent(R, X2, P2, W2) \subseteq Sent(R, X, P, W)
  BY Zenon DEF Line, Sent, Before

\* So does writing the first k messages of pSendBuff.
LEMMA LineWrite ==
    ASSUME NEW R, NEW X \in Seq(Msg), NEW P \in Seq(Msg), NEW W, Line(R, X, P, W),
           NEW k \in 0..Len(P)
    PROVE  /\ Line(R, X \o SubSeq(P, 1, k), SubSeq(P, k + 1, Len(P)), W)
           /\ Sent(R, X \o SubSeq(P, 1, k), SubSeq(P, k + 1, Len(P)), W) \subseteq Sent(R, X, P, W)
  <1>0. PICK X2, P2 : X2 = X \o SubSeq(P, 1, k) /\ P2 = SubSeq(P, k + 1, Len(P))
    BY Zenon
  <1> DEFINE a == SubSeq(P, 1, k)
  <1>1. /\ a \in Seq(Msg) /\ P2 \in Seq(Msg) /\ Ids(a) \subseteq Ids(P) /\ Ids(P2) \subseteq Ids(P)
        /\ Rising(P) => Rising(a) /\ Rising(P2) /\ Before(Ids(a), Ids(P2))
    BY Zenon, <1>0, IdsSubSeq
  <1>2. X2 = X \o a
    BY Zenon, <1>0
  <1> HIDE DEF a
  <1>3. /\ Ids(X2) = Ids(X) \cup Ids(a)
        /\ Rising(X) /\ Rising(a) /\ Before(Ids(X), Ids(a)) => Rising(X2)
    BY Zenon, <1>1, <1>2, IdsConcat
  <1>4. Rising(X) /\ Rising(P) /\ Before(Ids(X), Ids(P)) /\ Increasing(R) /\ Rising(W)
        /\ Before(Elems(R), Ids(X)) /\ Before(Elems(R), Ids(P))
    BY Zenon DEF Line
  <1>5. Before(Ids(X), Ids(a)) /\ Before(Ids(X2), Ids(P2))
        /\ Before(Elems(R), Ids(X2)) /\ Before(Elems(R), Ids(P2))
    BY Zenon, <1>1, <1>3, <1>4 DEF Before
  <1>6. Sent(R, X2, P2, W) \subseteq Sent(R, X, P, W)
    BY Zenon, <1>1, <1>3 DEF Sent
  <1> QED
    BY Zenon, <1>0, <1>1, <1>3, <1>4, <1>5, <1>6 DEF Line

\* The number that a message adds to a buffer.
New(m) == IF m.cmd = "DATA" THEN {m.id} ELSE {}

\* A new message, whose number is greater than all before it, goes to the end.
LEMMA LineAppend ==
    ASSUME NEW R, NEW X \in Seq(Msg), NEW P \in Seq(Msg), NEW W \in Seq(Msg), Line(R, X, P, W),
           NEW m \in Msg, Before(Sent(R, X, P, W), New(m))
    PROVE  /\ Line(R, X, Append(P, m), W) /\ Line(R, X, P, Append(W, m))
           /\ Sent(R, X, Append(P, m), W) \subseteq Sent(R, X, P, W) \cup New(m)
           /\ Sent(R, X, P, Append(W, m)) \subseteq Sent(R, X, P, W) \cup New(m)
  <1> DEFINE N == New(m)
  <1>1. Before(Elems(R), N) /\ Before(Ids(X), N) /\ Before(Ids(P), N) /\ Before(Ids(W), N)
    BY Zenon DEF Before, Sent
  <1>2. Ids(Append(P, m)) = Ids(P) \cup N /\ Ids(Append(W, m)) = Ids(W) \cup N
    <2>1. CASE m.cmd = "DATA"
      <3>1. Ids(Append(P, m)) = Ids(P) \cup {m.id} /\ Ids(Append(W, m)) = Ids(W) \cup {m.id}
        BY Zenon, <2>1, IdsAppend
      <3> QED
        BY Zenon, <2>1, <3>1 DEF New
    <2>2. CASE m.cmd # "DATA"
      <3>1. Ids(Append(P, m)) = Ids(P) /\ Ids(Append(W, m)) = Ids(W)
        BY Zenon, <2>2, IdsAppend
      <3> QED
        BY Zenon, <2>2, <3>1 DEF New
    <2> QED
      BY Zenon, <2>1, <2>2
  <1>3. m.cmd = "DATA" => Before(Ids(P), {m.id}) /\ Before(Ids(W), {m.id})
    BY Zenon, <1>1 DEF New
  <1>4. Rising(Append(P, m)) /\ Rising(Append(W, m))
    BY Zenon, <1>3, IdsAppend DEF Line
  <1> HIDE DEF N
  <1>5. PICK p2, w2 : p2 = Append(P, m) /\ w2 = Append(W, m)
    BY Zenon
  <1>6. /\ Ids(p2) = Ids(P) \cup N /\ Ids(w2) = Ids(W) \cup N /\ Rising(p2) /\ Rising(w2)
    BY Zenon, <1>2, <1>4, <1>5
  <1>7. Line(R, X, p2, W) /\ Line(R, X, P, w2)
    BY Zenon, <1>1, <1>6 DEF Line, Before
  <1>8. Sent(R, X, p2, W) = Sent(R, X, P, W) \cup N /\ Sent(R, X, P, w2) = Sent(R, X, P, W) \cup N
    BY Zenon, <1>6 DEF Sent
  <1> QED
    BY Zenon, <1>5, <1>7, <1>8 DEF N

\* Moving what waited behind an endpoint's pSendBuff keeps the order as long as no
\* application message has gone that way.
LEMMA LineFlush ==
    ASSUME NEW R, NEW X \in Seq(Msg), NEW P \in Seq(Msg), NEW W \in Seq(Msg), Line(R, X, P, W),
           Ids(W) = {} \/ (Elems(R) = {} /\ Ids(X) = {} /\ Ids(P) = {})
    PROVE  Line(R, X, P \o W, <<>>) /\ Sent(R, X, P \o W, <<>>) \subseteq Sent(R, X, P, W)
  <1>1. PICK p2 : p2 = P \o W
    BY Zenon
  <1>2. Rising(P) /\ Rising(W) /\ Before(Ids(P), Ids(W))
    BY Zenon DEF Line, Before
  <1>3. Ids(p2) = Ids(P) \cup Ids(W) /\ Rising(p2)
    BY Zenon, <1>1, <1>2, IdsConcat
  <1>4. Line(R, X, p2, <<>>)
    BY Zenon, <1>3, IdsEmpty DEF Line, Before
  <1>5. Sent(R, X, p2, <<>>) \subseteq Sent(R, X, P, W)
    BY Zenon, <1>3, IdsEmpty DEF Sent
  <1> QED
    BY Zenon, <1>1, <1>4, <1>5

\* Reading the message at the head of the wire keeps the order.
LEMMA LineRead ==
    ASSUME NEW R \in Seq(0..MaxMsg), NEW X \in Seq(Msg), NEW P, NEW W, Line(R, X, P, W), X # <<>>
    PROVE  /\ Line(R, Tail(X), P, W) /\ Sent(R, Tail(X), P, W) \subseteq Sent(R, X, P, W)
           /\ Head(X).cmd = "DATA" =>
                /\ Line(Append(R, Head(X).id), Tail(X), P, W)
                /\ Sent(Append(R, Head(X).id), Tail(X), P, W) \subseteq Sent(R, X, P, W)
  <1>0. PICK x2 : x2 = Tail(X)
    BY Zenon
  <1>1. Rising(X) /\ Rising(P) /\ Rising(W) /\ Increasing(R)
        /\ Before(Elems(R), Ids(X)) /\ Before(Elems(R), Ids(P)) /\ Before(Ids(X), Ids(P))
    BY Zenon DEF Line
  <1>2. /\ x2 \in Seq(Msg) /\ Ids(x2) \subseteq Ids(X) /\ Rising(x2)
        /\ Head(X).cmd = "DATA" => Head(X).id \in Ids(X) /\ Before({Head(X).id}, Ids(x2))
    BY Zenon, <1>0, <1>1, IdsHeadTail
  <1>3. Line(R, x2, P, W) /\ Sent(R, x2, P, W) \subseteq Sent(R, X, P, W)
    BY Zenon, <1>1, <1>2, LineLess
  <1>4. ASSUME Head(X).cmd = "DATA"
        PROVE  /\ Line(Append(R, Head(X).id), x2, P, W)
               /\ Sent(Append(R, Head(X).id), x2, P, W) \subseteq Sent(R, X, P, W)
    <2>1. PICK h : h = Head(X).id
      BY Zenon
    <2>2. h \in Ids(X) /\ Before({h}, Ids(x2)) /\ h \in 0..MaxMsg
      BY Zenon, <1>2, <1>4, <2>1, IdsNat
    <2>3. PICK r2 : r2 = Append(R, h)
      BY Zenon
    <2>4. /\ Len(R) \in Nat /\ Len(r2) = Len(R) + 1 /\ r2[Len(R) + 1] = h
          /\ \A i \in 1..Len(R) : r2[i] = R[i]
      BY <2>2, <2>3
    <2>5. Elems(r2) = Elems(R) \cup {h}
      <3>1. \A i \in 1..Len(r2) : i \in 1..Len(R) \/ i = Len(R) + 1
        BY <2>4
      <3>2. Elems(r2) \subseteq Elems(R) \cup {h}
        BY Zenon, <2>4, <3>1 DEF Elems
      <3>3. Elems(R) \subseteq Elems(r2)
        <4> SUFFICES ASSUME NEW i \in 1..Len(R) PROVE R[i] \in Elems(r2)
          BY Zenon DEF Elems
        <4>1. i \in 1..Len(r2) /\ r2[i] = R[i]
          BY <2>4
        <4> QED
          BY Zenon, <4>1 DEF Elems
      <3>4. h \in Elems(r2)
        <4>1. Len(R) + 1 \in 1..Len(r2)
          BY <2>4
        <4> QED
          BY Zenon, <4>1, <2>4 DEF Elems
      <3> QED
        BY Zenon, <3>2, <3>3, <3>4
    <2>6. Increasing(r2)
      <3> SUFFICES ASSUME NEW i \in 1..Len(r2), NEW j \in 1..Len(r2), i < j
                   PROVE  r2[i] < r2[j]
        BY Zenon DEF Increasing
      <3>1. i \in 1..Len(R) /\ r2[i] = R[i]
        BY <2>4
      <3>2. CASE j \in 1..Len(R)
        BY Zenon, <3>1, <3>2, <2>4, <1>1 DEF Increasing
      <3>3. CASE j \notin 1..Len(R)
        <4>1. j = Len(R) + 1
          BY <3>3, <2>4
        <4>2. R[i] \in Elems(R)
          BY Zenon, <3>1 DEF Elems
        <4> QED
          BY Zenon, <3>1, <4>1, <4>2, <2>2, <2>4, <1>1 DEF Before
      <3> QED
        BY Zenon, <3>2, <3>3
    <2>7. Line(r2, x2, P, W)
      BY Zenon, <2>2, <2>5, <2>6, <1>1, <1>2 DEF Line, Before
    <2>8. Sent(r2, x2, P, W) \subseteq Sent(R, X, P, W)
      BY Zenon, <2>2, <2>5, <1>2 DEF Sent
    <2> QED
      BY Zenon, <2>1, <2>3, <2>7, <2>8
  <1> QED
    BY Zenon, <1>0, <1>3, <1>4

-----------------------------------------------------------------------------
(* What a write leaves of a connection. *)

\* Application data in pSendBuff has its write event.
Arm(r) == "DATA" \in Cmds(r.pSendBuff) => r.bWriteEvent

\* The connection r with pSendBuff partly written becomes q, and the kernel queue w
\* becomes x; what is written to a peer that is gone is lost with the rest.
Pushed(w, gone, r, x, q) ==
    /\ q \in Attr
    /\ q.bOpen = r.bOpen /\ q.ucConnectStatus = r.ucConnectStatus
    /\ q.pWaitForSendBuff = r.pWaitForSendBuff
    /\ \E k \in 0..Len(r.pSendBuff) :
          /\ q.pSendBuff = SubSeq(r.pSendBuff, k + 1, Len(r.pSendBuff))
          /\ x = w \o SubSeq(r.pSendBuff, 1, k) \/ (gone /\ x = <<>>)

\* The write event after a write.
Rearmed(r, q) ==
    /\ q.bWriteEvent /\ q.pSendBuff = <<>> => r.bWriteEvent /\ r.pSendBuff = <<>>
    /\ Arm(q)

\* A step that writes at endpoint e.
Wrote(e, r, y, sh, x, q) ==
    /\ Pushed(wire[e], PeerGone(e), r, x, q) /\ Rearmed(r, q)
    /\ attr' = [attr EXCEPT ![e] = q]
    /\ wire' = [wire EXCEPT ![e] = x, ![Other(e)] = y]
    /\ shell' = sh

LEMMA PushedFacts ==
    ASSUME NEW w \in Seq(Msg), NEW gone, NEW r \in Attr, NEW x, NEW q, Pushed(w, gone, r, x, q)
    PROVE  /\ x \in Seq(Msg)
           /\ Cmds(x) \subseteq Cmds(w) \cup Cmds(r.pSendBuff)
           /\ Cmds(q.pSendBuff) \subseteq Cmds(r.pSendBuff)
           /\ w = <<>> /\ r.pSendBuff = <<>> => x = <<>> /\ q.pSendBuff = <<>>
           /\ \A R : Line(R, w, r.pSendBuff, r.pWaitForSendBuff) =>
                 /\ Line(R, x, q.pSendBuff, q.pWaitForSendBuff)
                 /\ Sent(R, x, q.pSendBuff, q.pWaitForSendBuff)
                        \subseteq Sent(R, w, r.pSendBuff, r.pWaitForSendBuff)
  <1>1. PICK p : p = r.pSendBuff
    BY Zenon
  <1>2. p \in Seq(Msg)
    BY Zenon, <1>1 DEF Attr
  <1>3. PICK k \in 0..Len(p) :
          /\ q.pSendBuff = SubSeq(p, k + 1, Len(p))
          /\ x = w \o SubSeq(p, 1, k) \/ (gone /\ x = <<>>)
    BY Zenon, <1>1 DEF Pushed
  <1>4. PICK a, b : a = SubSeq(p, 1, k) /\ b = SubSeq(p, k + 1, Len(p))
    BY Zenon
  <1>5. /\ a \in Seq(Msg) /\ b \in Seq(Msg)
        /\ Cmds(a) \subseteq Cmds(p) /\ Cmds(b) \subseteq Cmds(p)
    BY Zenon, <1>2, <1>4, CmdsSubSeq
  <1>6. w \o a \in Seq(Msg) /\ Cmds(w \o a) = Cmds(w) \cup Cmds(a)
    BY Zenon, <1>5, CmdsConcat
  <1>8. p = <<>> => a = <<>> /\ b = <<>>
    <2>1. p = <<>> => k = 0 /\ Len(p) = 0
      OBVIOUS
    <2> QED
      BY <1>2, <1>4, <2>1
  <1>9. w = <<>> /\ a = <<>> => w \o a = <<>>
    OBVIOUS
  <1>10. x = w \o a \/ (gone /\ x = <<>>)
    BY Zenon, <1>3, <1>4
  <1>11. Cmds(x) \subseteq Cmds(w) \cup Cmds(p) /\ x \in Seq(Msg)
    <2>1. CASE x = w \o a
      BY Zenon, <2>1, <1>5, <1>6
    <2>2. CASE x = <<>>
      BY <2>2, CmdsEmpty
    <2> QED
      BY Zenon, <1>10, <2>1, <2>2
  <1>12. ASSUME NEW R, NEW W, Rising(W), Line(R, w, p, W)
         PROVE  Line(R, x, b, W) /\ Sent(R, x, b, W) \subseteq Sent(R, w, p, W)
    <2>1. CASE x = w \o a
      <3>1. x = w \o SubSeq(p, 1, k) /\ b = SubSeq(p, k + 1, Len(p))
        BY Zenon, <2>1, <1>4
      <3>2. /\ Line(R, w \o SubSeq(p, 1, k), SubSeq(p, k + 1, Len(p)), W)
            /\ Sent(R, w \o SubSeq(p, 1, k), SubSeq(p, k + 1, Len(p)), W) \subseteq Sent(R, w, p, W)
        BY Zenon, <1>2, <1>12, LineWrite
      <3> QED
        BY Zenon, <3>1, <3>2
    <2>2. CASE x = <<>>
      <3>1. Rising(b) /\ Ids(b) \subseteq Ids(p)
        BY Zenon, <1>2, <1>4, <1>12, IdsSubSeq DEF Line
      <3>2. Rising(x) /\ Ids(x) \subseteq Ids(w) /\ Ids(W) \subseteq Ids(W)
        BY Zenon, <2>2, IdsEmpty
      <3> QED
        BY Zenon, <3>1, <3>2, <1>12, LineLess
    <2> QED
      BY Zenon, <1>10, <2>1, <2>2
  <1>13. q.pSendBuff = b /\ q.pWaitForSendBuff = r.pWaitForSendBuff
    BY Zenon, <1>3, <1>4 DEF Pushed
  <1>14. \A R : Line(R, w, r.pSendBuff, r.pWaitForSendBuff) =>
                 /\ Line(R, x, q.pSendBuff, q.pWaitForSendBuff)
                 /\ Sent(R, x, q.pSendBuff, q.pWaitForSendBuff)
                        \subseteq Sent(R, w, r.pSendBuff, r.pWaitForSendBuff)
    BY Zenon, <1>1, <1>12, <1>13 DEF Line
  <1>15. w = <<>> /\ r.pSendBuff = <<>> => x = <<>> /\ q.pSendBuff = <<>>
    BY Zenon, <1>1, <1>8, <1>9, <1>10, <1>13
  <1> QED
    BY Zenon, <1>1, <1>5, <1>11, <1>13, <1>14, <1>15

\* A wire with something on it keeps its first message, unless the peer is gone.
KeepsHead(w, gone, x) == w # <<>> /\ ~gone => x # <<>> /\ Head(x) = Head(w)

\* What is written goes behind what is on the wire.
LEMMA PushedHead ==
    ASSUME NEW w \in Seq(Msg), NEW gone, NEW r \in Attr, NEW x, NEW q, Pushed(w, gone, r, x, q)
    PROVE  KeepsHead(w, gone, x)
  <1> SUFFICES ASSUME w # <<>>, ~gone PROVE x # <<>> /\ Head(x) = Head(w)
    BY Zenon DEF KeepsHead
  <1>1. PICK a \in Seq(Msg) : x = w \o a
    <2>1. PICK k \in 0..Len(r.pSendBuff) : x = w \o SubSeq(r.pSendBuff, 1, k)
      BY Zenon DEF Pushed
    <2>2. SubSeq(r.pSendBuff, 1, k) \in Seq(Msg)
      BY Zenon, CmdsSubSeq DEF Attr
    <2> QED
      BY Zenon, <2>1, <2>2
  <1> QED
    BY <1>1

\* The fields of Written.
LEMMA WrittenPushed ==
    ASSUME NEW r \in Attr, NEW k \in 0..Len(r.pSendBuff), NEW q, q = Written(r, k)
    PROVE  /\ q \in Attr /\ q.bOpen = r.bOpen /\ q.ucConnectStatus = r.ucConnectStatus
           /\ q.pWaitForSendBuff = r.pWaitForSendBuff
           /\ q.pSendBuff = SubSeq(r.pSendBuff, k + 1, Len(r.pSendBuff))
           /\ Rearmed(r, q)
  <1>1. PICK p : p = r.pSendBuff
    BY Zenon
  <1>2. p \in Seq(Msg) /\ Len(p) \in Nat /\ k \in 0..Len(p)
    BY <1>1 DEF Attr
  <1>3. CASE p = <<>>
    <2>1. q = r
      BY Zenon, <1>1, <1>3 DEF Written
    <2>2. Len(p) = 0 /\ k = 0
      BY <1>2, <1>3
    <2>3. SubSeq(p, k + 1, Len(p)) = <<>>
      BY <1>2, <1>3, <2>2
    <2>4. "DATA" \notin Cmds(r.pSendBuff)
      BY Zenon, <1>1, <1>3, CmdsEmpty
    <2> QED
      BY Zenon, <1>1, <1>3, <2>1, <2>3, <2>4 DEF Rearmed, Arm
  <1>4. CASE p # <<>>
    <2>1. PICK b : b = SubSeq(p, k + 1, Len(p))
      BY Zenon
    <2>2. b \in Seq(Msg) /\ Len(b) = Len(p) - k
      BY <1>2, <2>1
    <2>3. q = [r EXCEPT !.pSendBuff = b, !.bWriteEvent = k < Len(p)]
      BY Zenon, <1>1, <1>4, <2>1 DEF Written
    <2>4. (k < Len(p)) \in BOOLEAN
      OBVIOUS
    <2>5. /\ q \in Attr /\ q.bOpen = r.bOpen /\ q.ucConnectStatus = r.ucConnectStatus
          /\ q.pWaitForSendBuff = r.pWaitForSendBuff /\ q.pSendBuff = b
          /\ q.bWriteEvent = (k < Len(p))
      BY Zenon, <2>2, <2>3, <2>4 DEF Attr
    <2>6. b # <<>> <=> k < Len(p)
      <3>1. b = <<>> <=> Len(b) = 0
        BY <2>2
      <3> QED
        BY <1>2, <2>2, <3>1
    <2>7. b = <<>> => "DATA" \notin Cmds(b)
      BY Zenon, CmdsEmpty
    <2>8. Rearmed(r, q)
      BY Zenon, <2>5, <2>6, <2>7 DEF Rearmed, Arm
    <2> QED
      BY Zenon, <1>1, <2>1, <2>5, <2>8
  <1> QED
    BY Zenon, <1>3, <1>4

\* WriteFD writes, or destroys the connection.
LEMMA WriteFDWrote ==
    ASSUME TypeOK, NEW e \in End, NEW r \in Attr, NEW y, NEW sh, NEW least \in Nat,
           NEW net, net = [wire EXCEPT ![Other(e)] = y], WriteFD(e, r, sh, net, least)
    PROVE  \/ PeerGone(e) /\ DestroyConnect(e, sh)
           \/ \E x, q : Wrote(e, r, y, sh, x, q)
  <1>1. CASE PeerGone(e) /\ DestroyConnect(e, sh)
    BY Zenon, <1>1
  <1>2. ASSUME NEW k \in least..Len(r.pSendBuff),
               attr' = [attr EXCEPT ![e] = Written(r, k)],
               wire' = Carry(net, e, SubSeq(r.pSendBuff, 1, k)),
               shell' = sh
        PROVE  \E x, q : Wrote(e, r, y, sh, x, q)
    <2>1. k \in 0..Len(r.pSendBuff)
      BY DEF Attr
    <2>2. PICK q : q = Written(r, k)
      BY Zenon
    <2>3. PICK x : x = IF PeerGone(e) THEN <<>> ELSE wire[e] \o SubSeq(r.pSendBuff, 1, k)
      BY Zenon
    <2>5. wire' = [wire EXCEPT ![e] = x, ![Other(e)] = y]
      BY ZenonT(60), <1>2, <2>3, EndFacts DEF Carry, TypeOK
    <2>6. Pushed(wire[e], PeerGone(e), r, x, q) /\ Rearmed(r, q)
      BY Zenon, <2>1, <2>2, <2>3, WrittenPushed DEF Pushed
    <2> QED
      BY Zenon, <1>2, <2>2, <2>5, <2>6 DEF Wrote
  <1> QED
    BY Zenon, <1>1, <1>2 DEF WriteFD

\* The buffers after Encode: the message waits, or stands behind pSendBuff.
LEMMA EncodeBuffers ==
    ASSUME NEW r \in Attr, NEW m \in Msg
    PROVE  /\ Waits(r, m) => /\ Encode(r, m).pWaitForSendBuff = Append(r.pWaitForSendBuff, m)
                             /\ Encode(r, m).pSendBuff = r.pSendBuff
           /\ ~Waits(r, m) => /\ Encode(r, m).pWaitForSendBuff = r.pWaitForSendBuff
                              /\ Encode(r, m).pSendBuff = Append(r.pSendBuff, m)
  <1>1. CASE Waits(r, m)
    <2>1. PICK b : b = Append(r.pWaitForSendBuff, m)
      BY Zenon
    <2>2. Encode(r, m) = [r EXCEPT !.pWaitForSendBuff = b]
      BY Zenon, <1>1, <2>1 DEF Encode
    <2> QED
      BY Zenon, <1>1, <2>1, <2>2 DEF Attr
  <1>2. CASE ~Waits(r, m)
    <2>1. PICK b : b = Append(r.pSendBuff, m)
      BY Zenon
    <2>2. PICK st : Encode(r, m) = [r EXCEPT !.pSendBuff = b, !.ucConnectStatus = st]
      BY Zenon, <1>2, <2>1 DEF Encode
    <2> QED
      BY Zenon, <1>2, <2>1, <2>2 DEF Attr
  <1> QED
    BY Zenon, <1>1, <1>2

\* SendTo writes the encoded message with what is before it, or lets it wait, or
\* destroys the connection.
LEMMA SendToWrote ==
    ASSUME TypeOK, NEW e \in End, NEW r \in Attr, Arm(r), NEW y, NEW sh, NEW m \in Msg,
           NEW net, net = [wire EXCEPT ![Other(e)] = y], SendTo(e, r, sh, net, m)
    PROVE  \/ PeerGone(e) /\ DestroyConnect(e, sh)
           \/ \E x, q : Wrote(e, Encode(r, m), y, sh, x, q)
  <1> DEFINE q == Encode(r, m)
  <1>1. q \in Attr
    BY Zenon, EncodeFacts
  <1>2. CASE Waits(r, m)
    <2>1. attr' = [attr EXCEPT ![e] = q] /\ shell' = sh /\ wire' = net
      BY Zenon, <1>2 DEF SendTo
    <2>2. q.pSendBuff = r.pSendBuff /\ q.bWriteEvent = r.bWriteEvent
      BY Zenon, <1>2, EncodeFacts
    <2> HIDE DEF q
    <2>3. wire' = [wire EXCEPT ![e] = wire[e], ![Other(e)] = y]
      BY Zenon, <2>1, EndFacts DEF TypeOK
    <2>4. PICK p : p = q.pSendBuff
      BY Zenon
    <2>5. p \in Seq(Msg) /\ wire[e] \in Seq(Msg)
      BY Zenon, <1>1, <2>4 DEF Attr, TypeOK
    <2>6. /\ 0 \in 0..Len(p) /\ p = SubSeq(p, 0 + 1, Len(p))
          /\ wire[e] = wire[e] \o SubSeq(p, 1, 0)
      BY <2>5
    <2>7. Pushed(wire[e], PeerGone(e), q, wire[e], q)
      BY Zenon, <1>1, <2>4, <2>6 DEF Pushed
    <2>8. Rearmed(q, q)
      BY Zenon, <2>2 DEF Rearmed, Arm
    <2> QED
      BY Zenon, <2>1, <2>3, <2>7, <2>8 DEF Wrote, q
  <1>3. CASE ~Waits(r, m)
    <2>1. WriteFD(e, q, sh, net, 0)
      BY Zenon, <1>3 DEF SendTo
    <2> HIDE DEF q
    <2> QED
      BY Zenon, <1>1, <2>1, WriteFDWrote, 0 \in Nat DEF q
  <1> QED
    BY Zenon, <1>2, <1>3

-----------------------------------------------------------------------------
(* The phases of one connection.  idx: the handshake is not begun; a: who holds the *)
(* accepted socket; kind: the registered step; rin: what the acceptor has received; *)
(* wo, wi: the wires; ao, ai: the two connections; led: a shell leads to the        *)
(* acceptor's.                                                                      *)

\* Nothing has happened before the first write event.
Unbegun(idx, a, kind, rin, wo, wi, ao) ==
    idx \/ a = "none" =>
        /\ kind = "none" /\ a \notin {"passed", "worker"} /\ rin = <<>>
        /\ wo = <<>> /\ wi = <<>> /\ ao.pSendBuff = <<>> /\ ao.ucConnectStatus # "ok"

\* While StepConnectWorker waits, TELL was not sent, and the Manager's answer is the
\* first thing the initiator will read.
InConnect(a, kind, wo, wi, ao, ai) ==
    kind = "connect" =>
        /\ "REQ_TELL" \notin Cmds(wo) /\ "REQ_TELL" \notin Cmds(ao.pSendBuff)
        /\ "RSP_TELL" \notin Cmds(wi) /\ "RSP_TELL" \notin Cmds(ai.pSendBuff)
        /\ ao.bOpen => /\ wi # <<>> => Head(wi).cmd = "RSP_CONNECT"
                       /\ a \in {"passed", "worker"} => wi # <<>>

\* A registered step belongs to a connection that is not established, and the
\* acceptor has received nothing over such a connection.
InStep(kind, rin, ao) ==
    /\ kind \in {"connect", "tell"} => ao.ucConnectStatus # "ok"
    /\ ao.bOpen /\ ao.ucConnectStatus # "ok" => rin = <<>>

\* Neither application data nor the answer to TELL waits at the accepting end.
InEnd(ai, led) ==
    /\ "DATA" \notin Cmds(ai.pWaitForSendBuff) /\ "RSP_TELL" \notin Cmds(ai.pWaitForSendBuff)
    /\ led => ai.ucConnectStatus = "ok"

\* The initiator's write event without data means that the handshake is not begun.
OutEvent(idx, ao) == ao.bWriteEvent /\ ao.pSendBuff = <<>> => idx

Ctl(idx, a, kind, rin, wo, wi, ao, ai, led) ==
    /\ Unbegun(idx, a, kind, rin, wo, wi, ao) /\ InConnect(a, kind, wo, wi, ao, ai)
    /\ InStep(kind, rin, ao) /\ InEnd(ai, led) /\ OutEvent(idx, ao) /\ Arm(ao) /\ Arm(ai)

\* Some worker sends to its peer through endpoint e.
Led(sh, e) == \E w \in Worker : sh[w] = e

CtlInv ==
    \A c \in Conn : Ctl(c \in workerIndex, at[c], step[c].kind, rcvd[In(c)], wire[Out(c)],
                        wire[In(c)], attr[Out(c)], attr[In(c)],
                        Led(shell, In(c)))

\* A step of one endpoint is a matter of its connection only.
LEMMA LocalCtl ==
    ASSUME TypeOK, CtlInv, NEW e \in End, NEW q, NEW x, NEW y,
           attr' = [attr EXCEPT ![e] = q], wire' = [wire EXCEPT ![e] = x, ![Other(e)] = y],
           at' = at,
           \A c \in Conn : c # e[1] => step'[c] = step[c] /\ (c \in workerIndex' <=> c \in workerIndex),
           \A d \in End : d # e => rcvd'[d] = rcvd[d],
           \A w \in Worker : shell'[w] \in {shell[w], e, NoShell},
           e[2] = "out" =>
               Ctl(e[1] \in workerIndex', at[e[1]], step'[e[1]].kind, rcvd[In(e[1])], x, y,
                   q, attr[In(e[1])], Led(shell, In(e[1]))),
           e[2] = "in" =>
               Ctl(e[1] \in workerIndex', at[e[1]], step'[e[1]].kind, rcvd'[In(e[1])], y, x,
                   attr[Out(e[1])], q, Led(shell', In(e[1])))
    PROVE  CtlInv'
  <1> SUFFICES ASSUME NEW c \in Conn
               PROVE  Ctl(c \in workerIndex', at'[c], step'[c].kind, rcvd'[In(c)], wire'[Out(c)],
                          wire'[In(c)], attr'[Out(c)], attr'[In(c)],
                          Led(shell', In(c)))
    BY Zenon DEF CtlInv
  <1>0. e[2] \in {"out", "in"} /\ attr'[e] = q /\ wire'[e] = x /\ wire'[Other(e)] = y
        /\ (\A d \in End : d # e => attr'[d] = attr[d])
        /\ (\A d \in End : d # e /\ d # Other(e) => wire'[d] = wire[d])
    BY SMTT(20), EndFacts DEF TypeOK, Side
  <1>2. Ctl(c \in workerIndex, at[c], step[c].kind, rcvd[In(c)], wire[Out(c)],
            wire[In(c)], attr[Out(c)], attr[In(c)], Led(shell, In(c)))
    BY Zenon DEF CtlInv
  <1>3. CASE c # e[1]
    <2>1. Out(c) # e /\ In(c) # e /\ Out(c) # Other(e) /\ In(c) # Other(e)
      <3>1. PICK d \in Conn : d = e[1]
        BY Zenon, EndFacts
      <3>2. Out(c) # Out(d) /\ In(c) # In(d) /\ Out(c) # In(d) /\ In(c) # Out(d)
        <4>1. c # d
          BY Zenon, <1>3, <3>1
        <4>2. /\ Out(c) = Out(d) => c = d
              /\ In(c) = In(d) => c = d
              /\ Out(c) # In(d) /\ Out(d) # In(c)
          BY Zenon, EndFacts
        <4> QED BY Zenon, <4>1, <4>2
      <3>3. (e = Out(d) /\ Other(e) = In(d)) \/ (e = In(d) /\ Other(e) = Out(d))
        BY Zenon, <1>0, <3>1, EndFacts
      <3> QED BY Zenon, <3>2, <3>3
    <2>2. Led(shell', In(c)) => Led(shell, In(c))
      <3>1. In(c) # e /\ In(c) # NoShell
        BY Zenon, <2>1, EndFacts
      <3> QED BY Zenon, <3>1 DEF Led
    <2>3. /\ attr'[Out(c)] = attr[Out(c)] /\ attr'[In(c)] = attr[In(c)]
          /\ wire'[Out(c)] = wire[Out(c)] /\ wire'[In(c)] = wire[In(c)] /\ rcvd'[In(c)] = rcvd[In(c)]
          /\ step'[c] = step[c] /\ at'[c] = at[c] /\ (c \in workerIndex' <=> c \in workerIndex)
      BY Zenon, <1>0, <1>3, <2>1, EndFacts
    <2>4. Ctl(c \in workerIndex', at'[c], step'[c].kind, rcvd'[In(c)], wire'[Out(c)],
              wire'[In(c)], attr'[Out(c)], attr'[In(c)], Led(shell', In(c)))
      BY Zenon, <1>2, <2>2, <2>3 DEF Ctl, Unbegun, InConnect, InStep, InEnd, OutEvent
    <2> QED
      BY Zenon, <2>4
  <1>4. CASE c = e[1] /\ e[2] = "out"
    <2>1. Out(c) = e /\ In(c) = Other(e) /\ In(c) # e /\ In(c) \in End
      BY Zenon, <1>4, EndFacts
    <2>2. Led(shell', In(c)) => Led(shell, In(c))
      <3>1. In(c) # e /\ In(c) # NoShell
        BY Zenon, <2>1, EndFacts
      <3> QED BY Zenon, <3>1 DEF Led
    <2>3. Ctl(c \in workerIndex', at'[c], step'[c].kind, rcvd'[In(c)], wire'[Out(c)],
              wire'[In(c)], attr'[Out(c)], attr'[In(c)], Led(shell, In(c)))
      BY Zenon, <1>0, <1>4, <2>1
    <2>4. Ctl(c \in workerIndex', at'[c], step'[c].kind, rcvd'[In(c)], wire'[Out(c)],
              wire'[In(c)], attr'[Out(c)], attr'[In(c)], Led(shell', In(c)))
      BY Zenon, <2>2, <2>3 DEF Ctl, InEnd
    <2> QED
      BY Zenon, <2>4
  <1>5. CASE c = e[1] /\ e[2] = "in"
    <2>1. In(c) = e /\ Out(c) = Other(e) /\ Out(c) # e /\ Out(c) \in End
      BY Zenon, <1>5, EndFacts
    <2> QED
      BY Zenon, <1>0, <1>5, <2>1
  <1> QED
    BY Zenon, <1>0, <1>3, <1>4, <1>5

\* What a step of endpoint e leaves alone.
Aside(e) ==
    /\ at' = at
    /\ \A c \in Conn : c # e[1] => step'[c] = step[c] /\ (c \in workerIndex' <=> c \in workerIndex)
    /\ \A d \in End : d # e => rcvd'[d] = rcvd[d]

\* Destroying an endpoint.
LEMMA DestroyCtl ==
    ASSUME IInv, CtlInv, NEW e \in End, attr[e].bOpen, Aside(e),
           NEW sh, DestroyConnect(e, sh), \A w \in Worker : sh[w] \in {shell[w], e},
           e[2] = "in" => step' = step /\ workerIndex' = workerIndex /\ rcvd' = rcvd,
           e[1] \in workerIndex' => e[1] \in workerIndex /\ step'[e[1]].kind = step[e[1]].kind,
           step'[e[1]].kind = "connect" => step[e[1]].kind = "connect" \/ e[1] \in workerIndex
    PROVE  CtlInv'
  <1> DEFINE c == e[1]
  <1>t. TypeOK
    BY Zenon DEF IInv
  <1>1. c \in Conn /\ e[2] \in {"out", "in"} /\ Out(c) \in End /\ In(c) \in End /\ Other(e) \in End
    BY Zenon, EndFacts DEF Side
  <1> HIDE DEF c
  <1>2. PICK idx, a, kind, rin, wo, wi, ao, ai, led :
          /\ idx = (c \in workerIndex) /\ a = at[c] /\ kind = step[c].kind /\ rin = rcvd[In(c)]
          /\ wo = wire[Out(c)] /\ wi = wire[In(c)] /\ ao = attr[Out(c)] /\ ai = attr[In(c)]
          /\ led = Led(shell, In(c))
    BY Zenon
  <1>3. Ctl(idx, a, kind, rin, wo, wi, ao, ai, led)
    BY Zenon, <1>1, <1>2 DEF CtlInv
  <1>4. /\ attr' = [attr EXCEPT ![e] = Closed]
        /\ wire' = [wire EXCEPT ![e] = wire[e], ![Other(e)] = <<>>]
    BY Zenon, <1>t, EndFacts DEF DestroyConnect, TypeOK
  <1>5. \A w \in Worker : shell'[w] \in {shell[w], e, NoShell} /\ shell'[w] # e
    BY Zenon, EndFacts DEF DestroyConnect, DelMsgShell
  <1>6. ~Closed.bOpen /\ ~Closed.bWriteEvent /\ Closed.ucConnectStatus = "init"
        /\ Closed.pSendBuff = <<>> /\ Closed.pWaitForSendBuff = <<>> /\ Cmds(Closed.pSendBuff) = {}
        /\ Cmds(Closed.pWaitForSendBuff) = {}
    BY Zenon, CmdsEmpty DEF Closed
  <1>7. a \notin {"passed", "worker"} => ai = Closed
    BY Zenon, <1>1, <1>2 DEF IInv, Lifecycle
  <1>8. PICK idx2, kind2 : idx2 = (c \in workerIndex') /\ kind2 = step'[c].kind
    BY Zenon
  <1>9. CASE e[2] = "out"
    <2>0. e = Out(c) /\ Other(e) = In(c) /\ a # "none"
      <3>1. e = Out(c) /\ Other(e) = In(c)
        BY Zenon, <1>9, EndFacts DEF c
      <3> QED
        BY Zenon, <3>1, <1>1, <1>2 DEF IInv, Lifecycle
    <2>1. /\ idx2 => idx /\ kind2 = kind
          /\ kind2 = "connect" => kind = "connect" \/ idx
      BY Zenon, <1>2, <1>8 DEF c
    <2>2. Unbegun(idx2, a, kind2, rin, wo, <<>>, Closed)
      BY Zenon, <1>3, <1>6, <2>0, <2>1 DEF Ctl, Unbegun
    <2>3. InConnect(a, kind2, wo, <<>>, Closed, ai)
      <3>1. CASE kind = "connect"
        BY Zenon, <3>1, <1>3, <1>6, CmdsEmpty DEF Ctl, InConnect
      <3>2. CASE idx
        BY Zenon, <3>2, <1>3, <1>6, <1>7, CmdsEmpty DEF Ctl, InConnect, Unbegun
      <3>3. CASE kind2 # "connect"
        BY Zenon, <3>3 DEF InConnect
      <3> QED
        BY Zenon, <2>1, <3>1, <3>2, <3>3
    <2>4. InStep(kind2, rin, Closed) /\ OutEvent(idx2, Closed) /\ Arm(Closed)
      BY Zenon, <1>6 DEF InStep, OutEvent, Arm
    <2>5. Ctl(idx2, a, kind2, rin, wo, <<>>, Closed, ai, led)
      BY Zenon, <1>3, <2>2, <2>3, <2>4 DEF Ctl
    <2> QED
      BY Zenon, <1>t, <1>2, <1>4, <1>5, <1>8, <1>9, <2>0, <2>5, LocalCtl DEF Aside, c
  <1>10. CASE e[2] = "in"
    <2>0. e = In(c) /\ Other(e) = Out(c)
      BY Zenon, <1>10, EndFacts DEF c
    <2>1. step' = step /\ workerIndex' = workerIndex /\ rcvd' = rcvd
      BY Zenon, <1>10
    <2>2. ~Led(shell', In(c))
      BY Zenon, <1>5, <2>0 DEF Led
    <2>3. Unbegun(idx, a, kind, rin, <<>>, wi, ao)
      BY Zenon, <1>3 DEF Ctl, Unbegun
    <2>4. InConnect(a, kind, <<>>, wi, ao, Closed)
      BY Zenon, <1>3, <1>6, CmdsEmpty DEF Ctl, InConnect
    <2>5. InEnd(Closed, Led(shell', In(c))) /\ Arm(Closed)
      BY Zenon, <1>6, <2>2 DEF InEnd, Arm
    <2>6. Ctl(idx, a, kind, rin, <<>>, wi, ao, Closed, Led(shell', In(c)))
      BY Zenon, <1>3, <2>3, <2>4, <2>5 DEF Ctl
    <2>7. Ctl(e[1] \in workerIndex', at[e[1]], step'[e[1]].kind, rcvd'[In(e[1])], <<>>, wire[e],
              attr[Out(e[1])], Closed, Led(shell', In(e[1])))
      BY Zenon, <1>2, <2>0, <2>1, <2>6 DEF c
    <2> QED
      BY Zenon, <1>t, <1>4, <1>5, <1>10, <2>7, "out" # "in", LocalCtl DEF Aside
  <1> QED
    BY Zenon, <1>1, <1>9, <1>10

\* Destroying the initiator's end.
LEMMA DestroyOutCtl ==
    ASSUME IInv, CtlInv, NEW c \in Conn, NEW e \in End, e = Out(c), attr[e].bOpen, Aside(e),
           NEW sh, DestroyConnect(e, sh), \A w \in Worker : sh[w] \in {shell[w], e},
           c \in workerIndex' => c \in workerIndex /\ step'[c].kind = step[c].kind,
           step'[c].kind = "connect" => step[c].kind = "connect" \/ c \in workerIndex
    PROVE  CtlInv'
  <1>1. e[1] = c /\ e[2] # "in"
    BY Zenon DEF Out
  <1>2. /\ e[1] \in workerIndex' => e[1] \in workerIndex /\ step'[e[1]].kind = step[e[1]].kind
        /\ step'[e[1]].kind = "connect" => step[e[1]].kind = "connect" \/ e[1] \in workerIndex
    BY Zenon, <1>1
  <1> QED
    BY Zenon, <1>1, <1>2, DestroyCtl

\* Destroying the acceptor's end.
LEMMA DestroyInCtl ==
    ASSUME IInv, CtlInv, NEW c \in Conn, NEW e \in End, e = In(c), attr[e].bOpen,
           at' = at, step' = step, workerIndex' = workerIndex, rcvd' = rcvd,
           NEW sh, DestroyConnect(e, sh), \A w \in Worker : sh[w] \in {shell[w], e}
    PROVE  CtlInv'
  <1>1. Aside(e)
    BY Zenon DEF Aside
  <1> QED
    BY Zenon, <1>1, DestroyCtl

\* Writing, or only changing the connection, at the initiator's end.
LEMMA OutWroteCtl ==
    ASSUME IInv, CtlInv, NEW c \in Conn, NEW e \in End, e = Out(c), attr[e].bOpen, Aside(e),
           NEW r \in Attr, r.bOpen, NEW y \in Seq(Msg), NEW sh, NEW x, NEW q,
           Wrote(e, r, y, sh, x, q), \A w \in Worker : sh[w] \in {shell[w], e},
           c \in workerIndex' => /\ c \in workerIndex /\ step'[c].kind = step[c].kind
                                 /\ r.pSendBuff = <<>> /\ r.ucConnectStatus # "ok" /\ y = <<>>,
           step'[c].kind = "connect" => /\ step[c].kind = "connect" \/ c \in workerIndex
                                        /\ y = wire[In(c)]
                                        /\ "REQ_TELL" \notin Cmds(r.pSendBuff),
           step'[c].kind \in {"connect", "tell"} => r.ucConnectStatus # "ok",
           r.ucConnectStatus # "ok" => attr[e].ucConnectStatus # "ok",
           r.bWriteEvent /\ r.pSendBuff = <<>> => c \in workerIndex'
    PROVE  CtlInv'
  <1>t. TypeOK /\ e[1] = c /\ e[2] = "out" /\ Other(e) = In(c)
    BY Zenon, EndFacts DEF IInv, Out
  <1>1. Out(c) \in End /\ In(c) \in End /\ wire[Out(c)] \in Seq(Msg) /\ rcvd[In(c)] = rcvd[In(c)]
    BY Zenon, <1>t, EndFacts DEF TypeOK
  <1>2. PICK idx, a, kind, rin, wo, wi, ao, ai, led :
          /\ idx = (c \in workerIndex) /\ a = at[c] /\ kind = step[c].kind /\ rin = rcvd[In(c)]
          /\ wo = wire[Out(c)] /\ wi = wire[In(c)] /\ ao = attr[Out(c)] /\ ai = attr[In(c)]
          /\ led = Led(shell, In(c))
    BY Zenon
  <1>3. Ctl(idx, a, kind, rin, wo, wi, ao, ai, led)
    BY Zenon, <1>1, <1>2 DEF CtlInv
  <1>4. a # "none" /\ (a \notin {"passed", "worker"} => ai = Closed) /\ Cmds(Closed.pSendBuff) = {}
    BY Zenon, <1>1, <1>2, CmdsEmpty DEF IInv, Lifecycle, Closed
  <1>5. /\ attr' = [attr EXCEPT ![e] = q] /\ wire' = [wire EXCEPT ![e] = x, ![Other(e)] = y]
        /\ \A w \in Worker : shell'[w] \in {shell[w], e, NoShell}
        /\ Pushed(wo, PeerGone(e), r, x, q) /\ Rearmed(r, q)
    BY Zenon, <1>2 DEF Wrote
  <1>6. /\ Cmds(x) \subseteq Cmds(wo) \cup Cmds(r.pSendBuff)
        /\ Cmds(q.pSendBuff) \subseteq Cmds(r.pSendBuff)
        /\ wo = <<>> /\ r.pSendBuff = <<>> => x = <<>> /\ q.pSendBuff = <<>>
        /\ q.ucConnectStatus = r.ucConnectStatus /\ q.bOpen = r.bOpen
    <2>1. wo \in Seq(Msg)
      BY Zenon, <1>1, <1>2
    <2>2. /\ Cmds(x) \subseteq Cmds(wo) \cup Cmds(r.pSendBuff)
          /\ Cmds(q.pSendBuff) \subseteq Cmds(r.pSendBuff)
          /\ wo = <<>> /\ r.pSendBuff = <<>> => x = <<>> /\ q.pSendBuff = <<>>
      BY Zenon, <2>1, <1>5, PushedFacts
    <2>3. q.ucConnectStatus = r.ucConnectStatus /\ q.bOpen = r.bOpen
      BY Zenon, <1>5 DEF Pushed
    <2> QED
      BY Zenon, <2>2, <2>3
  <1>7. PICK idx2, kind2 : idx2 = (c \in workerIndex') /\ kind2 = step'[c].kind
    BY Zenon
  <1>8. /\ idx2 => /\ idx /\ kind2 = kind /\ r.pSendBuff = <<>> /\ r.ucConnectStatus # "ok" /\ y = <<>>
        /\ kind2 = "connect" => (kind = "connect" \/ idx) /\ y = wi /\ "REQ_TELL" \notin Cmds(r.pSendBuff)
        /\ kind2 \in {"connect", "tell"} => r.ucConnectStatus # "ok"
        /\ r.ucConnectStatus # "ok" => ao.ucConnectStatus # "ok"
        /\ r.bWriteEvent /\ r.pSendBuff = <<>> => idx2
        /\ ao.bOpen /\ r.bOpen
    BY Zenon, <1>2, <1>7
  <1>9. Unbegun(idx2, a, kind2, rin, x, y, q)
    BY Zenon, <1>3, <1>4, <1>6, <1>8 DEF Ctl, Unbegun
  <1>10. InConnect(a, kind2, x, y, q, ai)
    <2>1. CASE kind2 # "connect"
      BY Zenon, <2>1 DEF InConnect
    <2>2. CASE kind2 = "connect" /\ kind = "connect"
      BY Zenon, <2>2, <1>3, <1>6, <1>8 DEF Ctl, InConnect
    <2>3. CASE kind2 = "connect" /\ idx
      <3>1. wo = <<>> /\ wi = <<>> /\ ai = Closed /\ a \notin {"passed", "worker"}
        BY Zenon, <2>3, <1>3, <1>4 DEF Ctl, Unbegun
      <3> QED
        BY Zenon, <2>3, <3>1, <1>4, <1>6, <1>8, CmdsEmpty DEF InConnect
    <2> QED
      BY Zenon, <1>8, <2>1, <2>2, <2>3
  <1>11. InStep(kind2, rin, q)
    BY Zenon, <1>3, <1>6, <1>8 DEF Ctl, InStep
  <1>12. OutEvent(idx2, q) /\ Arm(q)
    BY Zenon, <1>5, <1>8 DEF OutEvent, Rearmed
  <1>13. Ctl(idx2, a, kind2, rin, x, y, q, ai, led)
    BY Zenon, <1>3, <1>9, <1>10, <1>11, <1>12 DEF Ctl
  <1>14. Ctl(e[1] \in workerIndex', at[e[1]], step'[e[1]].kind, rcvd[In(e[1])], x, y,
             q, attr[In(e[1])], Led(shell, In(e[1])))
    BY Zenon, <1>t, <1>2, <1>7, <1>13
  <1> QED
    BY Zenon, <1>t, <1>5, <1>14, "out" # "in", LocalCtl DEF Aside

\* Writing, or only changing the connection, at the acceptor's end.
LEMMA InWroteCtl ==
    ASSUME IInv, CtlInv, NEW c \in Conn, NEW e \in End, e = In(c), attr[e].bOpen, Aside(e),
           step' = step, workerIndex' = workerIndex,
           NEW r \in Attr, NEW y \in Seq(Msg), NEW x, NEW q,
           Pushed(wire[e], PeerGone(e), r, x, q), Arm(q),
           attr' = [attr EXCEPT ![e] = q], wire' = [wire EXCEPT ![e] = x, ![Other(e)] = y],
           \A w \in Worker : shell'[w] \in {shell[w], e},
           Cmds(y) \subseteq Cmds(wire[Out(c)]),
           "DATA" \notin Cmds(r.pWaitForSendBuff), "RSP_TELL" \notin Cmds(r.pWaitForSendBuff),
           Led(shell', e) => r.ucConnectStatus = "ok",
           step[c].kind = "connect" => "RSP_TELL" \notin Cmds(r.pSendBuff),
           attr[Out(c)].bOpen /\ attr[Out(c)].ucConnectStatus # "ok" => rcvd'[e] = rcvd[e]
    PROVE  CtlInv'
  <1>t. TypeOK /\ e[1] = c /\ e[2] = "in" /\ Other(e) = Out(c)
    BY Zenon, EndFacts DEF IInv, In
  <1>1. Out(c) \in End /\ In(c) \in End /\ wire[In(c)] \in Seq(Msg)
    BY Zenon, <1>t, EndFacts DEF TypeOK
  <1>2. PICK idx, a, kind, rin, wo, wi, ao, ai, led :
          /\ idx = (c \in workerIndex) /\ a = at[c] /\ kind = step[c].kind /\ rin = rcvd[In(c)]
          /\ wo = wire[Out(c)] /\ wi = wire[In(c)] /\ ao = attr[Out(c)] /\ ai = attr[In(c)]
          /\ led = Led(shell, In(c))
    BY Zenon
  <1>3. Ctl(idx, a, kind, rin, wo, wi, ao, ai, led)
    BY Zenon, <1>1, <1>2 DEF CtlInv
  <1>4. a = "worker" /\ (ao.bOpen => ~PeerGone(e))
    BY Zenon, <1>t, <1>1, <1>2 DEF IInv, Lifecycle, PeerGone
  <1>5. Pushed(wi, PeerGone(e), r, x, q)
    BY Zenon, <1>2
  <1>6. /\ Cmds(x) \subseteq Cmds(wi) \cup Cmds(r.pSendBuff)
        /\ Cmds(q.pSendBuff) \subseteq Cmds(r.pSendBuff)
        /\ wi # <<>> /\ ~PeerGone(e) => x # <<>> /\ Head(x) = Head(wi)
        /\ q.ucConnectStatus = r.ucConnectStatus /\ q.pWaitForSendBuff = r.pWaitForSendBuff
    <2>1. wi \in Seq(Msg)
      BY Zenon, <1>1, <1>2
    <2>2. /\ Cmds(x) \subseteq Cmds(wi) \cup Cmds(r.pSendBuff)
          /\ Cmds(q.pSendBuff) \subseteq Cmds(r.pSendBuff)
      BY Zenon, <2>1, <1>5, PushedFacts
    <2>4. wi # <<>> /\ ~PeerGone(e) => x # <<>> /\ Head(x) = Head(wi)
      <3>1. KeepsHead(wi, PeerGone(e), x)
        BY Zenon, <1>5, <2>1, PushedHead
      <3> QED BY Zenon, <3>1 DEF KeepsHead
    <2>3. q.ucConnectStatus = r.ucConnectStatus /\ q.pWaitForSendBuff = r.pWaitForSendBuff
      BY Zenon, <1>5 DEF Pushed
    <2> QED
      BY Zenon, <2>2, <2>3, <2>4
  <1>7. PICK rin2, led2 : rin2 = rcvd'[In(c)] /\ led2 = Led(shell', In(c))
    BY Zenon
  <1>8. /\ Cmds(y) \subseteq Cmds(wo) /\ (led2 => r.ucConnectStatus = "ok")
        /\ kind = "connect" => "RSP_TELL" \notin Cmds(r.pSendBuff)
        /\ ao.bOpen /\ ao.ucConnectStatus # "ok" => rin2 = rin
    BY Zenon, <1>2, <1>7
  <1>9. Unbegun(idx, a, kind, rin2, y, x, ao)
    BY Zenon, <1>3, <1>4 DEF Ctl, Unbegun
  <1>10. InConnect(a, kind, y, x, ao, q)
    BY Zenon, <1>3, <1>4, <1>6, <1>8 DEF Ctl, InConnect
  <1>11. InStep(kind, rin2, ao) /\ InEnd(q, led2)
    BY Zenon, <1>3, <1>6, <1>8 DEF Ctl, InStep, InEnd
  <1>13. Ctl(idx, a, kind, rin2, y, x, ao, q, led2)
    BY Zenon, <1>3, <1>9, <1>10, <1>11 DEF Ctl
  <1>14. \A w \in Worker : shell'[w] \in {shell[w], e, NoShell}
    BY Zenon
  <1>15. Ctl(e[1] \in workerIndex', at[e[1]], step'[e[1]].kind, rcvd'[In(e[1])], y, x,
             attr[Out(e[1])], q, Led(shell', In(e[1])))
    BY Zenon, <1>t, <1>2, <1>7, <1>13
  <1> QED
    BY Zenon, <1>t, <1>14, <1>15, "out" # "in", LocalCtl DEF Aside

-----------------------------------------------------------------------------
(* The order of the messages of every endpoint. *)

\* What an endpoint has sent is in order, was accepted by SendTo, and was sent by no
\* other endpoint.
InOrder(e) == Line(rcvd[Other(e)], wire[e], attr[e].pSendBuff, attr[e].pWaitForSendBuff)
SentBy(e) == Sent(rcvd[Other(e)], wire[e], attr[e].pSendBuff, attr[e].pWaitForSendBuff)

FlowInv ==
    /\ \A e \in End : InOrder(e) /\ SentBy(e) \subseteq 1..nMsg
    /\ \A d, e \in End : d # e => SentBy(d) \cap SentBy(e) = {}

\* A step in which no message appears, except new ones at one endpoint.
LEMMA FlowStep ==
    ASSUME TypeOK, FlowInv, NEW e, nMsg' \in Nat, nMsg <= nMsg',
           \A d \in End : InOrder(d)',
           \A d \in End : SentBy(d)' \subseteq
               SentBy(d) \cup (IF d = e THEN (nMsg + 1)..nMsg' ELSE {})
    PROVE  FlowInv'
  <1>0. nMsg \in Nat
    BY BoundAssumption DEF TypeOK
  <1> DEFINE Later == (nMsg + 1)..nMsg'
             S(d) == SentBy(d)
             T(d) == SentBy(d)'
  <1>1. \A d \in End : S(d) \subseteq 1..nMsg
    BY Zenon DEF FlowInv
  <1>2. \A d \in End : T(d) \subseteq S(d) \cup (IF d = e THEN Later ELSE {})
    BY Zenon
  <1>3. \A d, f \in End : d # f => S(d) \cap S(f) = {}
    BY Zenon DEF FlowInv
  <1>4. 1..nMsg \subseteq 1..nMsg' /\ Later \subseteq 1..nMsg' /\ Later \cap 1..nMsg = {}
    BY <1>0
  <1> HIDE DEF Later, S, T
  <1>5. \A d \in End : T(d) \subseteq 1..nMsg'
    BY Zenon, <1>1, <1>2, <1>4
  <1>6. \A d, f \in End : d # f => T(d) \cap T(f) = {}
    <2> SUFFICES ASSUME NEW d \in End, NEW f \in End, d # f, NEW i \in T(d), i \in T(f)
                 PROVE  FALSE
      BY Zenon
    <2>1. i \in S(d) \/ (d = e /\ i \in Later)
      BY Zenon, <1>2
    <2>2. i \in S(f) \/ (f = e /\ i \in Later)
      BY Zenon, <1>2
    <2> QED
      BY Zenon, <2>1, <2>2, <1>1, <1>3, <1>4
  <1>7. /\ \A d \in End : SentBy(d)' \subseteq 1..nMsg'
        /\ \A d, f \in End : d # f => SentBy(d)' \cap SentBy(f)' = {}
    BY Zenon, <1>5, <1>6 DEF T
  <1> QED
    BY Zenon, <1>7 DEF FlowInv

\* What is read at endpoint e from what the other end has sent.
ReadBy(e, y) ==
    \/ y = wire[Other(e)] /\ rcvd'[e] = rcvd[e]
    \/ /\ wire[Other(e)] # <<>> /\ y = Tail(wire[Other(e)])
       /\ \/ rcvd'[e] = rcvd[e]
          \/ /\ Head(wire[Other(e)]).cmd = "DATA"
             /\ rcvd'[e] = Append(rcvd[e], Head(wire[Other(e)]).id)

\* Reading keeps the order of the other end.
LEMMA ReadByLine ==
    ASSUME TypeOK, FlowInv, NEW e \in End, NEW y, ReadBy(e, y)
    PROVE  /\ Line(rcvd'[e], y, attr[Other(e)].pSendBuff, attr[Other(e)].pWaitForSendBuff)
           /\ Sent(rcvd'[e], y, attr[Other(e)].pSendBuff, attr[Other(e)].pWaitForSendBuff)
                  \subseteq SentBy(Other(e))
  <1>1. Other(e) \in End /\ Other(Other(e)) = e
    BY Zenon, EndFacts
  <1>2. PICK R, X, P, W : /\ R = rcvd[e] /\ X = wire[Other(e)] /\ P = attr[Other(e)].pSendBuff
                          /\ W = attr[Other(e)].pWaitForSendBuff
    BY Zenon
  <1>3. R \in Seq(0..MaxMsg) /\ X \in Seq(Msg)
    BY Zenon, <1>1, <1>2 DEF TypeOK
  <1>4. Line(R, X, P, W)
    BY Zenon, <1>1, <1>2 DEF FlowInv, InOrder
  <1>5. SentBy(Other(e)) = Sent(R, X, P, W)
    BY Zenon, <1>1, <1>2 DEF SentBy
  <1>6. PICK R2 : R2 = rcvd'[e]
    BY Zenon
  <1>7. \/ y = X /\ R2 = R
        \/ /\ X # <<>> /\ y = Tail(X)
           /\ R2 = R \/ (Head(X).cmd = "DATA" /\ R2 = Append(R, Head(X).id))
    BY Zenon, <1>2, <1>6 DEF ReadBy
  <1>8. Line(R2, y, P, W) /\ Sent(R2, y, P, W) \subseteq Sent(R, X, P, W)
    <2>1. CASE y = X /\ R2 = R
      BY Zenon, <2>1, <1>4
    <2>2. CASE X # <<>> /\ y = Tail(X) /\ R2 = R
      BY Zenon, <2>2, <1>3, <1>4, LineRead
    <2>3. CASE X # <<>> /\ y = Tail(X) /\ Head(X).cmd = "DATA" /\ R2 = Append(R, Head(X).id)
      BY Zenon, <2>3, <1>3, <1>4, LineRead
    <2> QED
      BY Zenon, <1>7, <2>1, <2>2, <2>3
  <1> QED
    BY Zenon, <1>2, <1>5, <1>6, <1>8

\* Writing, or only changing the connection, at an endpoint.
LEMMA WroteFlow ==
    ASSUME TypeOK, FlowInv, NEW e \in End, Aside(e), nMsg' \in Nat, nMsg <= nMsg',
           NEW r \in Attr, NEW x, NEW y, NEW q, Pushed(wire[e], PeerGone(e), r, x, q),
           attr' = [attr EXCEPT ![e] = q], wire' = [wire EXCEPT ![e] = x, ![Other(e)] = y],
           ReadBy(e, y),
           Line(rcvd[Other(e)], wire[e], r.pSendBuff, r.pWaitForSendBuff),
           Sent(rcvd[Other(e)], wire[e], r.pSendBuff, r.pWaitForSendBuff)
               \subseteq SentBy(e) \cup (nMsg + 1)..nMsg'
    PROVE  FlowInv'
  <1>1. Other(e) \in End /\ Other(Other(e)) = e /\ Other(e) # e /\ wire[e] \in Seq(Msg)
    BY Zenon, EndFacts DEF TypeOK
  <1>2. /\ attr'[e] = q /\ wire'[e] = x /\ wire'[Other(e)] = y
        /\ \A d \in End : d # e => attr'[d] = attr[d] /\ rcvd'[d] = rcvd[d]
        /\ \A d \in End : d # e /\ d # Other(e) => wire'[d] = wire[d]
    BY Zenon, <1>1 DEF TypeOK, Aside
  <1>3. /\ Line(rcvd[Other(e)], x, q.pSendBuff, q.pWaitForSendBuff)
        /\ Sent(rcvd[Other(e)], x, q.pSendBuff, q.pWaitForSendBuff)
               \subseteq Sent(rcvd[Other(e)], wire[e], r.pSendBuff, r.pWaitForSendBuff)
    BY Zenon, <1>1, PushedFacts
  <1>4. InOrder(e)' /\ SentBy(e)' \subseteq SentBy(e) \cup (nMsg + 1)..nMsg'
    <2>1. /\ InOrder(e)' <=> Line(rcvd'[Other(e)], wire'[e], attr'[e].pSendBuff, attr'[e].pWaitForSendBuff)
          /\ SentBy(e)' = Sent(rcvd'[Other(e)], wire'[e], attr'[e].pSendBuff, attr'[e].pWaitForSendBuff)
      BY Zenon DEF InOrder, SentBy
    <2>2. rcvd'[Other(e)] = rcvd[Other(e)]
      BY Zenon, <1>1, <1>2
    <2>3. InOrder(e)'
      BY Zenon, <1>2, <1>3, <2>1, <2>2
    <2>4. SentBy(e)' = Sent(rcvd[Other(e)], x, q.pSendBuff, q.pWaitForSendBuff)
      BY Zenon, <1>2, <2>1, <2>2
    <2> QED
      BY Zenon, <1>3, <2>3, <2>4
  <1>5. InOrder(Other(e))' /\ SentBy(Other(e))' \subseteq SentBy(Other(e))
    <2>1. /\ InOrder(Other(e))' <=> Line(rcvd'[Other(Other(e))], wire'[Other(e)],
                                attr'[Other(e)].pSendBuff, attr'[Other(e)].pWaitForSendBuff)
          /\ SentBy(Other(e))' = Sent(rcvd'[Other(Other(e))], wire'[Other(e)],
                                attr'[Other(e)].pSendBuff, attr'[Other(e)].pWaitForSendBuff)
      BY Zenon DEF InOrder, SentBy
    <2>2. attr'[Other(e)] = attr[Other(e)]
      BY Zenon, <1>1, <1>2
    <2> QED
      BY Zenon, <1>1, <1>2, <2>1, <2>2, ReadByLine
  <1>6. ASSUME NEW d \in End, d # e, d # Other(e)
        PROVE  InOrder(d)' /\ SentBy(d)' \subseteq SentBy(d)
    <2>1. Other(d) \in End /\ Other(d) # e
      BY Zenon, <1>6, EndFacts
    <2>2. /\ InOrder(d)' <=> Line(rcvd'[Other(d)], wire'[d], attr'[d].pSendBuff, attr'[d].pWaitForSendBuff)
          /\ SentBy(d)' = Sent(rcvd'[Other(d)], wire'[d], attr'[d].pSendBuff, attr'[d].pWaitForSendBuff)
      BY Zenon DEF InOrder, SentBy
    <2>3. rcvd'[Other(d)] = rcvd[Other(d)] /\ wire'[d] = wire[d] /\ attr'[d] = attr[d]
      BY Zenon, <1>2, <1>6, <2>1
    <2>4. InOrder(d)
      BY Zenon DEF FlowInv
    <2>5. (InOrder(d)' <=> InOrder(d)) /\ SentBy(d)' = SentBy(d)
      BY Zenon, <2>2, <2>3 DEF InOrder, SentBy
    <2> QED
      BY Zenon, <2>4, <2>5
  <1>7. \A d \in End : InOrder(d)'
    BY Zenon, <1>4, <1>5, <1>6
  <1>8. \A d \in End : SentBy(d)' \subseteq SentBy(d) \cup (IF d = e THEN (nMsg + 1)..nMsg' ELSE {})
    BY Zenon, <1>4, <1>5, <1>6
  <1> QED
    BY Zenon, <1>7, <1>8, FlowStep

\* A step in which messages are only lost.
LEMMA LossFlow ==
    ASSUME TypeOK, FlowInv, rcvd' = rcvd, nMsg' \in Nat, nMsg <= nMsg',
           \A d \in End :
               /\ Rising(wire'[d]) /\ Ids(wire'[d]) \subseteq Ids(wire[d])
               /\ \/ attr'[d] = attr[d]
                  \/ attr'[d].pSendBuff = <<>> /\ attr'[d].pWaitForSendBuff = <<>>
    PROVE  FlowInv'
  <1>1. ASSUME NEW d \in End
        PROVE  InOrder(d)' /\ SentBy(d)' \subseteq SentBy(d)
    <2>1. PICK R, X, P, W, X2, P2, W2 :
            /\ R = rcvd[Other(d)] /\ X = wire[d] /\ P = attr[d].pSendBuff
            /\ W = attr[d].pWaitForSendBuff
            /\ X2 = wire'[d] /\ P2 = attr'[d].pSendBuff /\ W2 = attr'[d].pWaitForSendBuff
      BY Zenon
    <2>2. Line(R, X, P, W) /\ SentBy(d) = Sent(R, X, P, W)
      BY Zenon, <2>1 DEF FlowInv, InOrder, SentBy
    <2>3. Rising(X2) /\ Ids(X2) \subseteq Ids(X) /\ ((P2 = P /\ W2 = W) \/ (P2 = <<>> /\ W2 = <<>>))
      BY Zenon, <2>1
    <2>4. Rising(P2) /\ Rising(W2) /\ Ids(P2) \subseteq Ids(P) /\ Ids(W2) \subseteq Ids(W)
      BY Zenon, <2>2, <2>3, IdsEmpty DEF Line
    <2>5. Line(R, X2, P2, W2) /\ Sent(R, X2, P2, W2) \subseteq Sent(R, X, P, W)
      BY Zenon, <2>2, <2>3, <2>4, LineLess
    <2>6. /\ InOrder(d)' <=> Line(rcvd'[Other(d)], wire'[d], attr'[d].pSendBuff, attr'[d].pWaitForSendBuff)
          /\ SentBy(d)' = Sent(rcvd'[Other(d)], wire'[d], attr'[d].pSendBuff, attr'[d].pWaitForSendBuff)
      BY Zenon DEF InOrder, SentBy
    <2> QED
      BY Zenon, <2>1, <2>2, <2>5, <2>6
  <1>2. nMsg \in Nat
    BY BoundAssumption DEF TypeOK
  <1>3. \A d \in End : SentBy(d)' \subseteq SentBy(d) \cup (IF d = 0 THEN (nMsg + 1)..nMsg' ELSE {})
    BY Zenon, <1>1
  <1> QED
    BY Zenon, <1>1, <1>2, <1>3, FlowStep

\* Destroying an endpoint loses what it had to send and what was on its way to it.
LEMMA DestroyFlow ==
    ASSUME TypeOK, FlowInv, NEW e \in End, NEW sh, DestroyConnect(e, sh), rcvd' = rcvd,
           nMsg' \in Nat, nMsg <= nMsg'
    PROVE  FlowInv'
  <1>1. Closed.pSendBuff = <<>> /\ Closed.pWaitForSendBuff = <<>>
    BY Zenon DEF Closed
  <1>2. \A d \in End : /\ attr'[d] = attr[d] \/ attr'[d] = Closed
                       /\ wire'[d] = wire[d] \/ wire'[d] = <<>>
    BY Zenon, EndFacts DEF DestroyConnect, TypeOK
  <1>3. \A d \in End : Rising(wire[d])
    BY Zenon DEF FlowInv, InOrder, Line
  <1>4. ASSUME NEW d \in End
        PROVE  /\ Rising(wire'[d]) /\ Ids(wire'[d]) \subseteq Ids(wire[d])
               /\ \/ attr'[d] = attr[d]
                  \/ attr'[d].pSendBuff = <<>> /\ attr'[d].pWaitForSendBuff = <<>>
    BY Zenon, <1>1, <1>2, <1>3, IdsEmpty
  <1> QED
    BY Zenon, <1>4, LossFlow

\* Encoding a message at an endpoint, which may be a new application message.
LEMMA EncodeFlow ==
    ASSUME TypeOK, FlowInv, NEW e \in End, NEW r \in Attr, r.pSendBuff = attr[e].pSendBuff,
           r.pWaitForSendBuff = attr[e].pWaitForSendBuff, NEW m \in Msg,
           m.cmd = "DATA" => m.id = nMsg + 1 /\ nMsg' = nMsg + 1,
           NEW b, b = Encode(r, m)
    PROVE  /\ Line(rcvd[Other(e)], wire[e], b.pSendBuff, b.pWaitForSendBuff)
           /\ Sent(rcvd[Other(e)], wire[e], b.pSendBuff, b.pWaitForSendBuff)
                  \subseteq SentBy(e) \cup (nMsg + 1)..nMsg'
  <1>1. PICK R, X, P, W : /\ R = rcvd[Other(e)] /\ X = wire[e] /\ P = r.pSendBuff
                          /\ W = r.pWaitForSendBuff
    BY Zenon
  <1>2. X \in Seq(Msg) /\ P \in Seq(Msg) /\ W \in Seq(Msg) /\ nMsg \in Nat
    BY <1>1, BoundAssumption DEF TypeOK, Attr
  <1>3. Line(R, X, P, W) /\ SentBy(e) = Sent(R, X, P, W)
    BY Zenon, <1>1 DEF FlowInv, InOrder, SentBy
  <1>4. Before(Sent(R, X, P, W), New(m))
    <2>1. SentBy(e) \subseteq 1..nMsg
      BY Zenon DEF FlowInv
    <2> QED
      BY <1>2, <1>3, <2>1 DEF Before, New
  <1>5. /\ Line(R, X, Append(P, m), W) /\ Line(R, X, P, Append(W, m))
        /\ Sent(R, X, Append(P, m), W) \subseteq Sent(R, X, P, W) \cup New(m)
        /\ Sent(R, X, P, Append(W, m)) \subseteq Sent(R, X, P, W) \cup New(m)
    <2>1. Line(R, X, P, W) /\ Before(Sent(R, X, P, W), New(m))
          /\ X \in Seq(Msg) /\ P \in Seq(Msg) /\ W \in Seq(Msg)
      BY Zenon, <1>2, <1>3, <1>4
    <2>2. Line(R, X, Append(P, m), W) /\ Line(R, X, P, Append(W, m))
      BY Zenon, <2>1, LineAppend
    <2>3. Sent(R, X, Append(P, m), W) \subseteq Sent(R, X, P, W) \cup New(m)
      BY Zenon, <2>1, LineAppend
    <2>4. Sent(R, X, P, Append(W, m)) \subseteq Sent(R, X, P, W) \cup New(m)
      BY Zenon, <2>1, LineAppend
    <2> QED
      BY Zenon, <2>2, <2>3, <2>4
  <1>6. New(m) \subseteq (nMsg + 1)..nMsg'
    BY <1>2 DEF New
  <1>7. \/ b.pSendBuff = P /\ b.pWaitForSendBuff = Append(W, m)
        \/ b.pSendBuff = Append(P, m) /\ b.pWaitForSendBuff = W
    BY Zenon, <1>1, EncodeBuffers
  <1>8. PICK N, S1, S2, S : /\ N = New(m)
                         /\ S1 = Sent(R, X, Append(P, m), W) /\ S2 = Sent(R, X, P, Append(W, m))
                         /\ S = Sent(R, X, P, W)
    BY Zenon
  <1>9. S1 \subseteq S \cup N /\ S2 \subseteq S \cup N /\ N \subseteq (nMsg + 1)..nMsg' /\ S = SentBy(e)
    BY Zenon, <1>3, <1>5, <1>6, <1>8
  <1>10. S1 \subseteq SentBy(e) \cup (nMsg + 1)..nMsg' /\ S2 \subseteq SentBy(e) \cup (nMsg + 1)..nMsg'
    BY Zenon, <1>9
  <1> QED
    BY Zenon, <1>1, <1>5, <1>7, <1>8, <1>10

-----------------------------------------------------------------------------
(* The opening and the loss of connections, for both invariants. *)

FInv == CtlInv /\ FlowInv

LEMMA Parts ==
    ASSUME IInv, FInv
    PROVE  TypeOK /\ CtlInv /\ FlowInv /\ nMsg \in Nat /\ nSeq \in Nat
BY BoundAssumption DEF IInv, FInv, TypeOK

LEMMA SameNumber ==
    ASSUME NEW k \in Nat, NEW l, l = k
    PROVE  l \in Nat /\ k <= l
OBVIOUS

\* The phases of connection d now, and after a step.
CtlOf(d) == Ctl(d \in workerIndex, at[d], step[d].kind, rcvd[In(d)], wire[Out(d)], wire[In(d)],
                attr[Out(d)], attr[In(d)], Led(shell, In(d)))

\* A connection that a step leaves alone.
LEMMA SameCtl ==
    ASSUME CtlInv, NEW d \in Conn, d \in workerIndex' <=> d \in workerIndex, at'[d] = at[d],
           step'[d] = step[d], rcvd'[In(d)] = rcvd[In(d)], wire'[Out(d)] = wire[Out(d)],
           wire'[In(d)] = wire[In(d)], attr'[Out(d)] = attr[Out(d)], attr'[In(d)] = attr[In(d)],
           Led(shell', In(d)) => Led(shell, In(d))
    PROVE  CtlOf(d)'
  <1>1. PICK idx, idx2, a, kind, rin, wo, wi, ao, ai, led, led2 :
          /\ idx = (d \in workerIndex) /\ idx2 = (d \in workerIndex') /\ a = at[d] /\ kind = step[d].kind /\ rin = rcvd[In(d)]
          /\ wo = wire[Out(d)] /\ wi = wire[In(d)] /\ ao = attr[Out(d)] /\ ai = attr[In(d)]
          /\ led = Led(shell, In(d)) /\ led2 = Led(shell', In(d))
    BY Zenon
  <1>2. Ctl(idx, a, kind, rin, wo, wi, ao, ai, led)
    BY Zenon, <1>1 DEF CtlInv
  <1>3. Ctl(idx2, a, kind, rin, wo, wi, ao, ai, led2)
    <2>1. (led2 => led) /\ (idx2 <=> idx)
      BY Zenon, <1>1
    <2> QED
      BY Zenon, <1>2, <2>1 DEF Ctl, InEnd, Unbegun, OutEvent
  <1>4. Ctl(d \in workerIndex', at'[d], step'[d].kind, rcvd'[In(d)], wire'[Out(d)], wire'[In(d)],
            attr'[Out(d)], attr'[In(d)], Led(shell', In(d)))
    BY Zenon, <1>1, <1>3
  <1> QED
    BY Zenon, <1>4 DEF CtlOf

LEMMA CtlStep ==
    ASSUME \A d \in Conn : CtlOf(d)'
    PROVE  CtlInv'
  BY Zenon DEF CtlInv, CtlOf

\* A buffer without application data is in order.
LEMMA NoData ==
    ASSUME NEW s \in Seq(Msg), "DATA" \notin Cmds(s)
    PROVE  Rising(s) /\ Ids(s) = {}
  BY Zenon, IdsNone DEF Rising, Cmds

\* AutoSend: the message waits on a connection that nobody has used.
LEMMA AutoSendFlow ==
    ASSUME IInv, FInv, NEW w \in Worker, Send(w), shell[w] = NoShell
    PROVE  FInv'
  <1>t. TypeOK /\ CtlInv /\ FlowInv /\ nMsg \in Nat /\ nSeq \in Nat
    BY Zenon, Parts
  <1>0. PICK c : c = nSeq + 1
    BY Zenon
  <1>1. c \in Conn /\ c > nSeq /\ nMsg' = nMsg + 1 /\ nMsg + 1 \in 0..MaxMsg
    BY <1>0, <1>t, BoundAssumption DEF Send, AutoSend, Conn
  <1>e. PICK e \in End : e = Out(c) /\ Other(e) = In(c) /\ e[1] = c /\ e[2] = "out"
    BY Zenon, <1>1, EndFacts DEF Out
  <1>m. PICK m : m = Data(nMsg + 1)
    BY Zenon
  <1>2. e = Out(c) /\ Other(e) = In(c) /\ e[1] = c /\ e[2] = "out" /\ m = Data(nMsg + 1)
    BY Zenon, <1>e, <1>m
  <1>3. m \in Msg /\ m.cmd = "DATA" /\ m.id = nMsg + 1 /\ m.cmd \notin HandshakeCmd
    <2>1. m.id = nMsg + 1
      BY Zenon, <1>2 DEF Data
    <2> QED
      BY Zenon, <1>1, <1>2, <2>1, MessageFacts
  <1>4. PICK q : q = [CreateFdAttr EXCEPT !.bWriteEvent = TRUE, !.pWaitForSendBuff = <<m>>]
    BY Zenon
  <1>5. /\ q.bOpen /\ q.ucConnectStatus = "init" /\ q.pSendBuff = <<>> /\ q.pWaitForSendBuff = <<m>>
    BY Zenon, <1>4 DEF CreateFdAttr, Closed
  <1>6. /\ attr' = [attr EXCEPT ![e] = q] /\ workerIndex' = workerIndex \cup {c}
        /\ shell' = [shell EXCEPT ![w] = e] /\ UNCHANGED <<wire, step, rcvd>>
    BY Zenon, <1>0, <1>2, <1>4 DEF Send, AutoSend
  <1>7. PICK answer \in {"manager", "closed"} : at' = [at EXCEPT ![c] = answer]
    BY Zenon, <1>0 DEF Send, AutoSend
  <1>8. at[c] = "none" /\ attr[e] = Closed
    BY Zenon, <1>1, <1>2 DEF IInv, Lifecycle
  <1>9. /\ attr'[e] = q /\ at'[c] = answer
        /\ \A d \in End : d # e => attr'[d] = attr[d]
        /\ \A d \in Conn : d # c => at'[d] = at[d] /\ (d \in workerIndex' <=> d \in workerIndex)
    BY Zenon, <1>1, <1>6, <1>7, <1>t DEF TypeOK
  <1>10. \A d \in Conn : Led(shell', In(d)) => Led(shell, In(d))
    <2> SUFFICES ASSUME NEW d \in Conn, NEW v \in Worker, shell'[v] = In(d)
                 PROVE  shell[v] = In(d)
      BY Zenon DEF Led
    <2> QED
      BY Zenon, <1>1, <1>2, <1>6, <1>t, EndFacts DEF TypeOK
  <1>11. CtlInv'
    <2> SUFFICES ASSUME NEW d \in Conn
                 PROVE  CtlOf(d)'
      BY Zenon, CtlStep
    <2>1. CASE d # c
      <3>1. /\ Out(d) # e /\ In(d) # e /\ Out(d) \in End /\ In(d) \in End
        BY Zenon, <1>1, <1>2, <2>1, EndFacts
      <3>2. /\ d \in workerIndex' <=> d \in workerIndex
            /\ at'[d] = at[d] /\ step'[d] = step[d] /\ rcvd'[In(d)] = rcvd[In(d)]
            /\ wire'[Out(d)] = wire[Out(d)] /\ wire'[In(d)] = wire[In(d)]
            /\ attr'[Out(d)] = attr[Out(d)] /\ attr'[In(d)] = attr[In(d)]
        BY Zenon, <1>6, <1>9, <2>1, <3>1
      <3> QED
        BY Zenon, <1>t, <1>10, <3>2, SameCtl
    <2>2. CASE d = c
      <3>1. PICK a, kind, rin, wo, wi, ao, ai, idx, led, led2 :
              /\ idx = (c \in workerIndex) /\ a = at[c] /\ kind = step[c].kind /\ rin = rcvd[In(c)]
              /\ wo = wire[Out(c)] /\ wi = wire[In(c)] /\ ao = attr[Out(c)] /\ ai = attr[In(c)]
              /\ led = Led(shell, In(c)) /\ led2 = Led(shell', In(c))
        BY Zenon
      <3>2. Ctl(idx, a, kind, rin, wo, wi, ao, ai, led)
        BY Zenon, <1>t, <1>1, <3>1 DEF CtlInv
      <3>3. a = "none" /\ (led2 => led) /\ answer \in {"manager", "closed"}
        BY Zenon, <1>1, <1>8, <1>10, <3>1
      <3>4. Cmds(q.pSendBuff) = {}
        BY Zenon, <1>5, CmdsEmpty
      <3>5. Ctl(TRUE, answer, kind, rin, wo, wi, q, ai, led2)
        BY Zenon, <1>5, <3>2, <3>3, <3>4 DEF Ctl, Unbegun, InConnect, InStep, InEnd, OutEvent, Arm
      <3>6. /\ c \in workerIndex' /\ at'[c] = answer /\ step'[c].kind = kind /\ rcvd'[In(c)] = rin
            /\ wire'[Out(c)] = wo /\ wire'[In(c)] = wi /\ attr'[Out(c)] = q /\ attr'[In(c)] = ai
        BY Zenon, <1>1, <1>2, <1>6, <1>9, <3>1, EndFacts
      <3>7. Ctl(c \in workerIndex', at'[c], step'[c].kind, rcvd'[In(c)], wire'[Out(c)], wire'[In(c)],
                attr'[Out(c)], attr'[In(c)], Led(shell', In(c)))
        <4>1. (c \in workerIndex') = TRUE
          BY Zenon, <3>6
        <4> QED
          BY Zenon, <4>1, <3>1, <3>5, <3>6
      <3> QED
        BY Zenon, <2>2, <3>7 DEF CtlOf
    <2> QED
      BY Zenon, <2>1, <2>2
  <1>12. FlowInv'
    <2>1. PICK b : b = Encode(Closed, m)
      BY Zenon
    <2>2. Closed \in Attr /\ Closed.pWaitForSendBuff = <<>> /\ Closed.pSendBuff = <<>> /\ Waits(Closed, m)
      <3>1. <<>> \in Seq(Msg)
        OBVIOUS
      <3> QED
        BY Zenon, <1>3, <3>1 DEF Closed, Attr, Waits
    <2>3. b.pSendBuff = q.pSendBuff /\ b.pWaitForSendBuff = q.pWaitForSendBuff
      <3>1. /\ Encode(Closed, m).pWaitForSendBuff = Append(Closed.pWaitForSendBuff, m)
            /\ Encode(Closed, m).pSendBuff = Closed.pSendBuff
        BY Zenon, <1>3, <2>2, EncodeBuffers
      <3>2. Append(<<>>, m) = <<m>>
        OBVIOUS
      <3> QED
        BY Zenon, <1>5, <2>1, <2>2, <3>1, <3>2
    <2>4. /\ Line(rcvd[Other(e)], wire[e], b.pSendBuff, b.pWaitForSendBuff)
          /\ Sent(rcvd[Other(e)], wire[e], b.pSendBuff, b.pWaitForSendBuff)
                  \subseteq SentBy(e) \cup (nMsg + 1)..nMsg'
      <3>1. Closed.pSendBuff = attr[e].pSendBuff /\ Closed.pWaitForSendBuff = attr[e].pWaitForSendBuff
        BY Zenon, <1>8
      <3>2. m.cmd = "DATA" => m.id = nMsg + 1 /\ nMsg' = nMsg + 1
        BY Zenon, <1>1, <1>3
      <3> QED
        BY Zenon, <1>t, <1>3, <2>1, <2>2, <3>1, <3>2, EncodeFlow
    <2>5. InOrder(e)' /\ SentBy(e)' \subseteq SentBy(e) \cup (nMsg + 1)..nMsg'
      BY Zenon, <1>6, <1>9, <2>3, <2>4 DEF InOrder, SentBy
    <2>6. ASSUME NEW d \in End, d # e
          PROVE  InOrder(d)' /\ SentBy(d)' = SentBy(d)
      <3>1. attr'[d] = attr[d] /\ wire' = wire /\ rcvd' = rcvd
        BY Zenon, <1>6, <1>9, <2>6
      <3>2. InOrder(d)
        BY Zenon, <1>t DEF FlowInv
      <3> QED
        BY Zenon, <3>1, <3>2 DEF InOrder, SentBy
    <2>7. nMsg' \in Nat /\ nMsg <= nMsg'
      BY <1>t, <1>1
    <2>8. /\ \A d \in End : InOrder(d)'
          /\ \A d \in End : SentBy(d)' \subseteq
               SentBy(d) \cup (IF d = e THEN (nMsg + 1)..nMsg' ELSE {})
      <3> SUFFICES ASSUME NEW d \in End
                   PROVE  InOrder(d)' /\ SentBy(d)' \subseteq
                             SentBy(d) \cup (IF d = e THEN (nMsg + 1)..nMsg' ELSE {})
        BY Zenon
      <3>1. CASE d = e
        BY Zenon, <3>1, <2>5
      <3>2. CASE d # e
        BY Zenon, <3>2, <2>6
      <3> QED
        BY Zenon, <3>1, <3>2
    <2> QED
      BY Zenon, <1>t, <2>7, <2>8, FlowStep
  <1> QED
    BY Zenon, <1>11, <1>12 DEF FInv

\* A step at the accepting side of connection c, its socket q, the kernel queues x and
\* y, that loses messages at most.
LEMMA AcceptFlow ==
    ASSUME IInv, FInv, NEW c \in Conn, NEW a2, NEW x, NEW y, NEW q,
           UNCHANGED <<workerIndex, shell, step, rcvd, nMsg>>,
           at' = [at EXCEPT ![c] = a2], attr' = [attr EXCEPT ![In(c)] = q],
           wire' = [wire EXCEPT ![Out(c)] = x, ![In(c)] = y],
           Rising(x) /\ Ids(x) \subseteq Ids(wire[Out(c)]),
           Rising(y) /\ Ids(y) \subseteq Ids(wire[In(c)]),
           q = attr[In(c)] \/ (q.pSendBuff = <<>> /\ q.pWaitForSendBuff = <<>>),
           Ctl(c \in workerIndex, a2, step[c].kind, rcvd[In(c)], x, y, attr[Out(c)], q,
               Led(shell, In(c)))
    PROVE  FInv'
  <1>t. TypeOK /\ CtlInv /\ FlowInv /\ nMsg \in Nat
    BY Zenon, Parts
  <1>1. Out(c) \in End /\ In(c) \in End /\ Out(c) # In(c)
    BY Zenon, EndFacts
  <1>2. /\ at'[c] = a2 /\ wire'[Out(c)] = x /\ wire'[In(c)] = y
        /\ attr'[In(c)] = q /\ attr'[Out(c)] = attr[Out(c)]
        /\ \A d \in Conn : d # c => at'[d] = at[d]
        /\ \A e \in End : e # Out(c) /\ e # In(c) => wire'[e] = wire[e]
        /\ \A e \in End : e # In(c) => attr'[e] = attr[e]
    BY Zenon, <1>1, <1>t DEF TypeOK
  <1>3. CtlInv'
    <2> SUFFICES ASSUME NEW d \in Conn
                 PROVE  CtlOf(d)'
      BY Zenon, CtlStep
    <2>1. CASE d # c
      <3>1. /\ Out(d) \in End /\ In(d) \in End
            /\ Out(d) \notin {Out(c), In(c)} /\ In(d) \notin {Out(c), In(c)}
        BY Zenon, <2>1, EndFacts
      <3>2. /\ d \in workerIndex' <=> d \in workerIndex
            /\ at'[d] = at[d] /\ step'[d] = step[d] /\ rcvd'[In(d)] = rcvd[In(d)]
            /\ wire'[Out(d)] = wire[Out(d)] /\ wire'[In(d)] = wire[In(d)]
            /\ attr'[Out(d)] = attr[Out(d)] /\ attr'[In(d)] = attr[In(d)]
            /\ Led(shell', In(d)) => Led(shell, In(d))
        BY Zenon, <1>2, <2>1, <3>1
      <3> QED
        BY Zenon, <1>t, <3>2, SameCtl
    <2>2. CASE d = c
      <3>1. Ctl(c \in workerIndex', at'[c], step'[c].kind, rcvd'[In(c)], wire'[Out(c)],
                wire'[In(c)], attr'[Out(c)], attr'[In(c)], Led(shell', In(c)))
        BY Zenon, <1>2
      <3> QED
        BY Zenon, <2>2, <3>1 DEF CtlOf
    <2> QED
      BY Zenon, <2>1, <2>2
  <1>4. FlowInv'
    <2>1. ASSUME NEW d \in End
          PROVE  /\ Rising(wire'[d]) /\ Ids(wire'[d]) \subseteq Ids(wire[d])
                 /\ \/ attr'[d] = attr[d]
                    \/ attr'[d].pSendBuff = <<>> /\ attr'[d].pWaitForSendBuff = <<>>
      <3>1. CASE d = Out(c)
        BY Zenon, <1>1, <1>2, <3>1
      <3>2. CASE d = In(c)
        BY Zenon, <1>2, <3>2
      <3>3. CASE d # Out(c) /\ d # In(c)
        <4>1. Rising(wire[d])
          BY Zenon, <1>t DEF FlowInv, InOrder, Line
        <4> QED
          BY Zenon, <1>2, <3>3, <4>1
      <3> QED
        BY Zenon, <3>1, <3>2, <3>3
    <2>a. rcvd' = rcvd /\ nMsg' = nMsg
      BY Zenon
    <2>2. rcvd' = rcvd /\ nMsg' \in Nat /\ nMsg <= nMsg'
      BY Zenon, <1>t, <2>a, SameNumber
    <2> QED
      BY Zenon, <1>t, <2>1, <2>2, LossFlow
  <1> QED
    BY Zenon, <1>3, <1>4 DEF FInv

\* Worker::FdTransfer: the accepting endpoint is new and no worker sends through it.
LEMMA FdTransferFlow ==
    ASSUME IInv, FInv, NEW c \in Conn, FdTransfer(c)
    PROVE  FInv'
  <1>t. TypeOK /\ CtlInv /\ FlowInv
    BY Zenon DEF IInv, FInv
  <1>1. /\ at[c] = "passed" /\ at' = [at EXCEPT ![c] = "worker"]
        /\ attr' = [attr EXCEPT ![In(c)] = CreateFdAttr] /\ wire' = wire
        /\ UNCHANGED <<workerIndex, shell, step, rcvd, nMsg>>
    BY Zenon DEF FdTransfer, counters
  <1>2. PICK q, idx, a, kind, rin, wo, wi, ao, ai, led :
          /\ q = CreateFdAttr
          /\ idx = (c \in workerIndex) /\ a = at[c] /\ kind = step[c].kind /\ rin = rcvd[In(c)]
          /\ wo = wire[Out(c)] /\ wi = wire[In(c)] /\ ao = attr[Out(c)] /\ ai = attr[In(c)]
          /\ led = Led(shell, In(c))
    BY Zenon
  <1>3. Ctl(idx, a, kind, rin, wo, wi, ao, ai, led)
    BY Zenon, <1>t, <1>2 DEF CtlInv
  <1>4. q.pSendBuff = <<>> /\ q.pWaitForSendBuff = <<>>
    BY Zenon, <1>2 DEF CreateFdAttr, Closed
  <1>5. ~led
    <2> SUFFICES ASSUME NEW w \in Worker, shell[w] = In(c)
                 PROVE  FALSE
      BY Zenon, <1>2 DEF Led
    <2>1. ~attr[In(c)].bOpen /\ In(c) # NoShell
      BY Zenon, <1>1, EndFacts DEF IInv, Lifecycle
    <2> QED
      BY Zenon, <2>1 DEF IInv, ShellIsLive
  <1>6. Ctl(idx, "worker", kind, rin, wo, wi, ao, q, led)
    <2>1. a = "passed" /\ Cmds(q.pSendBuff) = {} /\ Cmds(q.pWaitForSendBuff) = {}
      BY Zenon, <1>1, <1>2, <1>4, CmdsEmpty
    <2> QED
      BY Zenon, <1>3, <1>5, <2>1 DEF Ctl, Unbegun, InConnect, InStep, InEnd, OutEvent, Arm
  <1>7. Rising(wo) /\ Rising(wi)
    BY Zenon, <1>t, <1>2, EndFacts DEF FlowInv, InOrder, Line
  <1>8. wire' = [wire EXCEPT ![Out(c)] = wo, ![In(c)] = wi]
    BY Zenon, <1>1, <1>2, <1>t, EndFacts DEF TypeOK
  <1>9. Ctl(c \in workerIndex, "worker", step[c].kind, rcvd[In(c)], wo, wi, attr[Out(c)], q,
            Led(shell, In(c)))
    BY Zenon, <1>2, <1>6
  <1>10. /\ Rising(wo) /\ Ids(wo) \subseteq Ids(wire[Out(c)])
         /\ Rising(wi) /\ Ids(wi) \subseteq Ids(wire[In(c)])
         /\ attr' = [attr EXCEPT ![In(c)] = q]
    BY Zenon, <1>1, <1>2, <1>7
  <1> QED
    BY Zenon, <1>1, <1>4, <1>8, <1>9, <1>10, AcceptFlow

\* The accepted socket is closed before it reaches the worker.
LEMMA AcceptorClosesFlow ==
    ASSUME IInv, FInv, NEW c \in Conn, AcceptorCloses(c)
    PROVE  FInv'
  <1>t. TypeOK /\ CtlInv /\ FlowInv
    BY Zenon DEF IInv, FInv
  <1>1. /\ at[c] \in {"manager", "passed"} /\ at' = [at EXCEPT ![c] = "closed"] /\ attr' = attr
        /\ wire' = [wire EXCEPT ![Out(c)] = <<>>]
        /\ UNCHANGED <<workerIndex, shell, step, rcvd, nMsg>>
    BY Zenon DEF AcceptorCloses, counters
  <1>2. PICK idx, a, kind, rin, wo, wi, ao, ai, led :
          /\ idx = (c \in workerIndex) /\ a = at[c] /\ kind = step[c].kind /\ rin = rcvd[In(c)]
          /\ wo = wire[Out(c)] /\ wi = wire[In(c)] /\ ao = attr[Out(c)] /\ ai = attr[In(c)]
          /\ led = Led(shell, In(c))
    BY Zenon
  <1>3. Ctl(idx, a, kind, rin, wo, wi, ao, ai, led)
    BY Zenon, <1>t, <1>2 DEF CtlInv
  <1>6. Ctl(idx, "closed", kind, rin, <<>>, wi, ao, ai, led)
    <2>1. a \in {"manager", "passed"} /\ Cmds(<<>>) = {}
      BY Zenon, <1>1, <1>2, CmdsEmpty
    <2> QED
      BY Zenon, <1>3, <2>1 DEF Ctl, Unbegun, InConnect, InStep, InEnd, OutEvent, Arm
  <1>7. Rising(wi)
    BY Zenon, <1>t, <1>2, EndFacts DEF FlowInv, InOrder, Line
  <1>8. /\ wire' = [wire EXCEPT ![Out(c)] = <<>>, ![In(c)] = wi]
        /\ attr' = [attr EXCEPT ![In(c)] = ai]
    <2>1. PICK o, i \in End : o = Out(c) /\ i = In(c) /\ o # i
      BY EndFacts
    <2>2. wire' = [wire EXCEPT ![o] = <<>>] /\ wi = wire[i] /\ ai = attr[i] /\ attr' = attr
      BY Zenon, <1>1, <1>2, <2>1
    <2>3. wire \in [End -> Seq(Msg)] /\ attr \in [End -> Attr]
      BY Zenon, <1>t DEF TypeOK
    <2>4. wire' = [wire EXCEPT ![o] = <<>>, ![i] = wi] /\ attr' = [attr EXCEPT ![i] = ai]
      BY Zenon, <2>1, <2>2, <2>3
    <2> QED
      BY Zenon, <2>1, <2>4
  <1>9. Ctl(c \in workerIndex, "closed", step[c].kind, rcvd[In(c)], <<>>, wi, attr[Out(c)], ai,
            Led(shell, In(c)))
    BY Zenon, <1>2, <1>6
  <1>10. /\ Rising(<<>>) /\ Ids(<<>>) \subseteq Ids(wire[Out(c)])
         /\ Rising(wi) /\ Ids(wi) \subseteq Ids(wire[In(c)])
         /\ ai = attr[In(c)]
    BY Zenon, <1>2, <1>7, IdsEmpty
  <1> QED
    BY Zenon, <1>1, <1>8, <1>9, <1>10, AcceptFlow

\* Manager::RecvDataAndDispose: the answer to CONNECT is the first thing on its way to
\* the initiator, and the fd is passed on only with that answer.
LEMMA MgrTransferFdFlow ==
    ASSUME IInv, FInv, NEW c \in Conn, MgrTransferFd(c)
    PROVE  FInv'
  <1>t. TypeOK /\ CtlInv /\ FlowInv
    BY Zenon DEF IInv, FInv
  <1> DEFINE ws == wire[Out(c)]
  <1>1. /\ at[c] = "manager" /\ ws # <<>> /\ attr' = attr
        /\ UNCHANGED <<workerIndex, shell, step, rcvd, nMsg>>
    BY Zenon DEF MgrTransferFd, counters
  <1>2. ws \in Seq(Msg) /\ wire[In(c)] = <<>>
    BY Zenon, <1>1, <1>t, EndFacts DEF TypeOK, IInv, ManagerPhase
  <1>3. PICK x \in Seq(Msg), y \in Seq(Msg), a2 \in {"passed", "closed"} :
          /\ Cmds(x) \subseteq Cmds(ws)
          /\ y = <<>> \/ y = MgrAnswer
          /\ a2 = "passed" /\ attr[Out(c)].bOpen => y = MgrAnswer
          /\ wire' = [wire EXCEPT ![Out(c)] = x, ![In(c)] = y]
          /\ at' = [at EXCEPT ![c] = a2]
    <2>1. PICK n \in 1..Len(ws), found \in BOOLEAN, passed \in BOOLEAN :
            LET known == found /\ Head(ws).cmd = "REQ_CONNECT" IN
            /\ wire' = [wire EXCEPT ![Out(c)] = IF passed /\ known
                                                THEN SubSeq(@, n + 1, Len(@)) ELSE <<>>,
                                    ![In(c)] = IF known /\ attr[Out(c)].bOpen
                                               THEN @ \o MgrAnswer ELSE @]
            /\ at' = [at EXCEPT ![c] = IF passed /\ known THEN "passed" ELSE "closed"]
      BY Zenon DEF MgrTransferFd
    <2> DEFINE known == found /\ Head(ws).cmd = "REQ_CONNECT"
               xx == IF passed /\ known THEN SubSeq(ws, n + 1, Len(ws)) ELSE <<>>
               yy == IF known /\ attr[Out(c)].bOpen THEN MgrAnswer ELSE <<>>
               aa == IF passed /\ known THEN "passed" ELSE "closed"
    <2>a. MgrAnswer \in Seq(Msg) /\ <<>> \o MgrAnswer = MgrAnswer /\ <<>> \in Seq(Msg)
      BY MessageFacts DEF MgrAnswer
    <2>2. wire' = [wire EXCEPT ![Out(c)] = xx, ![In(c)] = yy]
      BY Zenon, <1>2, <1>t, <2>1, <2>a, EndFacts DEF TypeOK
    <2>3. at' = [at EXCEPT ![c] = aa] /\ aa \in {"passed", "closed"}
      BY Zenon, <2>1
    <2> HIDE DEF known
    <2>4. xx \in Seq(Msg) /\ Cmds(xx) \subseteq Cmds(ws)
      <3>1. n \in 0..Len(ws) /\ <<>> \in Seq(Msg)
        BY <1>2
      <3> HIDE DEF ws
      <3> QED
        BY Zenon, <1>2, <3>1, CmdsSubSeq, CmdsEmpty
    <2>5. yy \in Seq(Msg) /\ (yy = <<>> \/ yy = MgrAnswer)
      BY Zenon, <2>a
    <2>6. aa = "passed" /\ attr[Out(c)].bOpen => yy = MgrAnswer
      <3>1. aa = "passed" => known
        BY Zenon
      <3> QED
        BY Zenon, <3>1
    <2> HIDE DEF xx, yy, aa
    <2> QED
      BY Zenon, <2>2, <2>3, <2>4, <2>5, <2>6
  <1>4. PICK idx, a, kind, rin, wi, ao, ai, led :
          /\ idx = (c \in workerIndex) /\ a = at[c] /\ kind = step[c].kind /\ rin = rcvd[In(c)]
          /\ wi = wire[In(c)] /\ ao = attr[Out(c)] /\ ai = attr[In(c)]
          /\ led = Led(shell, In(c))
    BY Zenon
  <1>5. Cmds(ws) \subseteq {"REQ_CONNECT"} /\ kind # "tell"
    BY Zenon, <1>1, <1>4 DEF IInv, ManagerPhase
  <1> HIDE DEF ws
  <1>6. Ctl(idx, a, kind, rin, ws, wi, ao, ai, led)
    BY Zenon, <1>t, <1>4 DEF CtlInv, ws
  <1>7. /\ Cmds(y) \subseteq {"RSP_CONNECT"}
        /\ y = MgrAnswer => y # <<>>
        /\ y # <<>> => Head(y).cmd = "RSP_CONNECT"
    <2>1. M("RSP_CONNECT").cmd = "RSP_CONNECT" /\ M("RSP_CONNECT") \in Msg
      BY Zenon, MessageFacts
    <2>2. /\ Cmds(MgrAnswer) \subseteq {"RSP_CONNECT"} /\ MgrAnswer # <<>>
          /\ Head(MgrAnswer).cmd = "RSP_CONNECT"
      BY <2>1 DEF MgrAnswer, Cmds
    <2> QED
      BY Zenon, <1>3, <2>2, CmdsEmpty
  <1>8. Ctl(idx, a2, kind, rin, x, y, ao, ai, led)
    <2>1. ~idx /\ a = "manager" /\ (a2 = "passed" /\ ao.bOpen => y # <<>>) /\ Cmds(x) \subseteq {"REQ_CONNECT"}
      BY Zenon, <1>1, <1>3, <1>4, <1>5, <1>6, <1>7 DEF Ctl, Unbegun
    <2>2. "REQ_TELL" \notin Cmds(x) /\ "RSP_TELL" \notin Cmds(y)
      BY Zenon, <2>1, <1>7
    <2> QED
      BY Zenon, <1>3, <1>6, <1>7, <2>1, <2>2 DEF Ctl, Unbegun, InConnect, InStep, InEnd, OutEvent, Arm
  <1>9. Rising(x) /\ Ids(x) = {} /\ Rising(y) /\ Ids(y) = {}
    <2>1. "DATA" \notin Cmds(x) /\ "DATA" \notin Cmds(y)
      BY Zenon, <1>3, <1>5, <1>7
    <2> QED
      BY Zenon, <2>1, NoData
  <1>10. /\ Rising(x) /\ Ids(x) \subseteq Ids(wire[Out(c)])
         /\ Rising(y) /\ Ids(y) \subseteq Ids(wire[In(c)])
    BY Zenon, <1>9
  <1>11. attr' = [attr EXCEPT ![In(c)] = ai] /\ ai = attr[In(c)]
    BY Zenon, <1>1, <1>4, <1>t, EndFacts DEF TypeOK
  <1>12. Ctl(c \in workerIndex, a2, step[c].kind, rcvd[In(c)], x, y, attr[Out(c)], ai,
             Led(shell, In(c)))
    BY Zenon, <1>4, <1>8
  <1> QED
    BY Zenon, <1>1, <1>3, <1>10, <1>11, <1>12, AcceptFlow

\* A crash: the endpoints of the worker are gone, and what was on its way to them; the
\* other endpoints are as they were.
LEMMA CrashFlow ==
    ASSUME IInv, FInv, NEW w \in Worker, Crash(w)
    PROVE  FInv'
  <1> DEFINE dies == {e \in End : Owner(e) = w}
             coming == {c \in Conn : at[c] = "passed" /\ Owner(In(c)) = w}
             lost(e) == Other(e) \in dies /\ (e[2] = "out" => at[e[1]] # "manager")
  <1>t. TypeOK /\ CtlInv /\ FlowInv /\ nMsg \in Nat
    BY Zenon, Parts
  <1>1. /\ attr' = [e \in End |-> IF e \in dies THEN Closed ELSE attr[e]]
        /\ at' = [c \in Conn |-> IF c \in coming THEN "closed" ELSE at[c]]
        /\ wire' = [e \in End |-> IF lost(e) THEN <<>> ELSE wire[e]]
        /\ shell' = [shell EXCEPT ![w] = NoShell]
        /\ step' = [c \in Conn |-> IF initiator[c] = w THEN NoStep ELSE step[c]]
        /\ workerIndex' = {c \in workerIndex : initiator[c] # w}
        /\ UNCHANGED <<initiator, rcvd, nSeq, nMsg, nBeat>>
    BY Zenon DEF Crash
  <1>2. /\ Closed.bOpen = FALSE /\ Closed.pSendBuff = <<>> /\ Closed.pWaitForSendBuff = <<>>
        /\ Closed.ucConnectStatus = "init" /\ Closed.bWriteEvent = FALSE
    BY Zenon DEF Closed
  <1>3. \A d \in Conn : Led(shell', In(d)) => Led(shell, In(d)) /\ Owner(In(d)) # w
    <2> SUFFICES ASSUME NEW d \in Conn, NEW v \in Worker, shell'[v] = In(d)
                 PROVE  shell[v] = In(d) /\ Owner(In(d)) # w
      BY Zenon DEF Led
    <2>1. v # w /\ shell[v] = In(d) /\ In(d) # NoShell
      BY Zenon, <1>1, <1>t, EndFacts DEF TypeOK
    <2> QED
      BY Zenon, <2>1 DEF IInv, ShellIsLive
  <1>4. CtlInv'
    <2> SUFFICES ASSUME NEW d \in Conn
                 PROVE  CtlOf(d)'
      BY Zenon, CtlStep
    <2>0. PICK idx, a, kind, rin, wo, wi, ao, ai, led, idx2, led2, a2, wo2 :
            /\ idx = (d \in workerIndex) /\ a = at[d] /\ kind = step[d].kind /\ rin = rcvd[In(d)]
            /\ wo = wire[Out(d)] /\ wi = wire[In(d)] /\ ao = attr[Out(d)] /\ ai = attr[In(d)]
            /\ led = Led(shell, In(d)) /\ idx2 = (d \in workerIndex') /\ led2 = Led(shell', In(d))
            /\ a2 = at'[d] /\ wo2 = wire'[Out(d)]
      BY Zenon
    <2>1. Ctl(idx, a, kind, rin, wo, wi, ao, ai, led)
      BY Zenon, <1>t, <2>0 DEF CtlInv
    <2>2. rcvd'[In(d)] = rin /\ (led2 => led /\ Owner(In(d)) # w)
      BY Zenon, <1>1, <1>3, <2>0
    <2>3. /\ Out(d) \in End /\ In(d) \in End /\ Other(Out(d)) = In(d) /\ Other(In(d)) = Out(d)
          /\ Out(d)[1] = d /\ Out(d)[2] = "out" /\ In(d)[1] = d /\ In(d)[2] = "in"
      BY Zenon, EndFacts DEF Out, In
    <2>4. Owner(Out(d)) = initiator[d] /\ initiator[d] \in Worker
      BY Zenon, <2>3, <1>t DEF Owner, TypeOK
    <2>5. Owner(In(d)) # Owner(Out(d))
          /\ (Owner(Out(d)) # w => Owner(In(d)) = w)
      BY Zenon, <2>3, <2>4, WorkerAssumption DEF Owner, Peer, Worker
    <2>6. CASE initiator[d] = w
      <3>1. /\ Out(d) \in dies /\ In(d) \notin dies /\ d \notin coming
            /\ lost(In(d)) /\ ~lost(Out(d))
        BY Zenon, <2>3, <2>4, <2>5, <2>6
      <3> HIDE DEF dies, coming, lost
      <3>2. /\ ~idx2 /\ at'[d] = a /\ step'[d].kind = "none" /\ wire'[Out(d)] = wo
            /\ wire'[In(d)] = <<>> /\ attr'[Out(d)] = Closed /\ attr'[In(d)] = ai
        BY Zenon, <1>1, <2>0, <2>3, <2>6, <3>1 DEF NoStep
      <3>3. PICK q : q = Closed
        BY Zenon
      <3>4. /\ q.bOpen = FALSE /\ q.pSendBuff = <<>> /\ Cmds(q.pSendBuff) = {}
            /\ q.ucConnectStatus = "init" /\ q.bWriteEvent = FALSE
        BY Zenon, <1>2, <3>3, CmdsEmpty
      <3>5. Ctl(idx2, a, "none", rin, wo, <<>>, q, ai, led2)
        BY Zenon, <2>1, <2>2, <3>2, <3>4 DEF Ctl, Unbegun, InConnect, InStep, InEnd, OutEvent, Arm
      <3>6. Ctl(d \in workerIndex', at'[d], step'[d].kind, rcvd'[In(d)], wire'[Out(d)],
                wire'[In(d)], attr'[Out(d)], attr'[In(d)], Led(shell', In(d)))
        BY Zenon, <2>0, <2>2, <3>2, <3>3, <3>5
      <3> QED
        BY Zenon, <3>6 DEF CtlOf
    <2>7. CASE initiator[d] # w
      <3>1. /\ Out(d) \notin dies /\ In(d) \in dies /\ ~lost(In(d))
            /\ d \in coming => at[d] = "passed"
        BY Zenon, <2>3, <2>4, <2>5, <2>7
      <3>0. at[d] = "passed" => d \in coming
        BY Zenon, <2>4, <2>5, <2>7
      <3> HIDE DEF dies, coming, lost
      <3>2. /\ (idx2 <=> idx) /\ step'[d].kind = kind
            /\ wire'[In(d)] = wi /\ attr'[Out(d)] = ao /\ attr'[In(d)] = Closed
            /\ a2 = (IF a = "passed" THEN "closed" ELSE a)
            /\ wo2 = wo \/ wo2 = <<>>
        <4>1. (idx2 <=> idx)
          BY Zenon, <1>1, <2>0, <2>7
        <4>2. /\ step'[d].kind = kind
              /\ wire'[In(d)] = wi /\ attr'[Out(d)] = ao /\ attr'[In(d)] = Closed
          BY Zenon, <1>1, <2>0, <2>3, <2>7, <3>1
        <4>3. a2 = (IF a = "passed" THEN "closed" ELSE a)
          BY Zenon, <1>1, <2>0, <3>0, <3>1
        <4>4. wo2 = wo \/ wo2 = <<>>
          BY Zenon, <1>1, <2>0, <2>3
        <4> QED
          BY Zenon, <4>1, <4>2, <4>3, <4>4
      <3>3. PICK q : q = Closed
        BY Zenon
      <3>4. /\ Cmds(q.pSendBuff) = {} /\ Cmds(q.pWaitForSendBuff) = {} /\ Cmds(<<>>) = {}
        BY Zenon, <1>2, <3>3, CmdsEmpty
      <3>5. ~led2 /\ (idx2 <=> idx)
        BY Zenon, <2>2, <2>4, <2>5, <2>7, <3>2
      <3>6. Ctl(idx2, a2, kind, rin, wo2, wi, ao, q, led2)
        BY Zenon, <2>1, <3>2, <3>4, <3>5 DEF Ctl, Unbegun, InConnect, InStep, InEnd, OutEvent, Arm
      <3>7. Ctl(d \in workerIndex', at'[d], step'[d].kind, rcvd'[In(d)], wire'[Out(d)],
                wire'[In(d)], attr'[Out(d)], attr'[In(d)], Led(shell', In(d)))
        BY Zenon, <2>0, <2>2, <3>2, <3>3, <3>6
      <3> QED
        BY Zenon, <3>7 DEF CtlOf
    <2> QED
      BY Zenon, <2>6, <2>7
  <1>5. FlowInv'
    <2>1. ASSUME NEW d \in End
          PROVE  /\ Rising(wire'[d]) /\ Ids(wire'[d]) \subseteq Ids(wire[d])
                 /\ \/ attr'[d] = attr[d]
                    \/ attr'[d].pSendBuff = <<>> /\ attr'[d].pWaitForSendBuff = <<>>
      <3> HIDE DEF dies, lost
      <3>1. wire'[d] = wire[d] \/ wire'[d] = <<>>
        BY Zenon, <1>1
      <3>2. attr'[d] = attr[d] \/ attr'[d] = Closed
        BY Zenon, <1>1
      <3>3. Rising(wire[d])
        BY Zenon, <1>t DEF FlowInv, InOrder, Line
      <3> QED
        BY Zenon, <1>2, <3>1, <3>2, <3>3, IdsEmpty
    <2>2. rcvd' = rcvd /\ nMsg' \in Nat /\ nMsg <= nMsg'
      BY <1>t, <1>1
    <2> QED
      BY Zenon, <1>t, <2>1, <2>2, LossFlow
  <1> QED
    BY Zenon, <1>4, <1>5 DEF FInv

LEMMA InitFInv == Init => FInv
  <1> SUFFICES ASSUME Init PROVE FInv
    BY Zenon
  <1>1. \A e \in End : attr[e] = Closed /\ wire[e] = <<>> /\ rcvd[e] = <<>>
    BY Zenon DEF Init
  <1>2. PICK q : q = Closed
    BY Zenon
  <1>3. /\ q.bOpen = FALSE /\ q.pSendBuff = <<>> /\ q.pWaitForSendBuff = <<>>
        /\ q.bWriteEvent = FALSE /\ q.ucConnectStatus = "init"
    BY Zenon, <1>2 DEF Closed
  <1>4. CtlInv
    <2> SUFFICES ASSUME NEW d \in Conn
                 PROVE  Ctl(d \in workerIndex, at[d], step[d].kind, rcvd[In(d)], wire[Out(d)],
                            wire[In(d)], attr[Out(d)], attr[In(d)], Led(shell, In(d)))
      BY Zenon DEF CtlInv
    <2>1. PICK idx, led : idx = (d \in workerIndex) /\ led = Led(shell, In(d))
      BY Zenon
    <2>2. ~idx /\ ~led
      BY Zenon, <2>1, EndFacts DEF Init, Led
    <2>3. /\ at[d] = "none" /\ step[d].kind = "none" /\ rcvd[In(d)] = <<>> /\ wire[Out(d)] = <<>>
          /\ wire[In(d)] = <<>> /\ attr[Out(d)] = q /\ attr[In(d)] = q
      BY Zenon, <1>1, <1>2, EndFacts DEF Init, NoStep
    <2>4. Ctl(idx, "none", "none", <<>>, <<>>, <<>>, q, q, led)
      BY Zenon, <1>3, <2>2, CmdsEmpty DEF Ctl, Unbegun, InConnect, InStep, InEnd, OutEvent, Arm
    <2> QED
      BY Zenon, <2>1, <2>3, <2>4
  <1>5. FlowInv
    <2>1. \A e \in End : InOrder(e) /\ SentBy(e) = {}
      <3> SUFFICES ASSUME NEW e \in End
                   PROVE  InOrder(e) /\ SentBy(e) = {}
        BY Zenon
      <3>1. /\ rcvd[Other(e)] = <<>> /\ wire[e] = <<>>
            /\ attr[e].pSendBuff = <<>> /\ attr[e].pWaitForSendBuff = <<>>
        BY Zenon, <1>1, <1>2, <1>3, EndFacts
      <3>2. Line(<<>>, <<>>, <<>>, <<>>) /\ Sent(<<>>, <<>>, <<>>, <<>>) = {}
        BY Zenon, IdsEmpty DEF Line, Sent, Before
      <3> QED
        BY Zenon, <3>1, <3>2 DEF InOrder, SentBy
    <2> QED
      BY Zenon, <2>1 DEF FlowInv
  <1> QED
    BY Zenon, <1>4, <1>5 DEF FInv
=============================================================================
