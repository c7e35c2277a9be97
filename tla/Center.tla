------------------------------- MODULE Center -------------------------------
(***************************************************************************)
(* The Center (Center/src, the one Worker of a Center that is the master)   *)
(* and the Managers of the nodes that register with it: who is registered,  *)
(* under which id, and which nodes the Workers of a node may send to.       *)
(*                                                                          *)
(* A Manager opens a connection to the Center, which the Center's Manager   *)
(* passes on to its Worker; the node tells its name (TELL) and registers.   *)
(* The Center announces nodes that come and go by notices, each a StepNode  *)
(* that is sent again until it is answered.  A handler of the Center is a   *)
(* function on the record [table, shell, link, notice] of its state.        *)
(***************************************************************************)
EXTENDS Naturals, Sequences, FiniteSetsExt, Functions

CONSTANTS
  Nodes,       \* the "ip:port" of the nodes
  Type,        \* the type of each node
  Needed,      \* "route" in CenterCmd.json: the types whose nodes a type is told of
  Dialable,    \* nodes whose address AutoSend takes for a Worker's (last octet <= 200)
  TimeOutMax,  \* m_uiTimeOutMax of a StepNode (3 in the code)
  MaxLink,     \* bound: connections at a time
  Running,     \* the nodes that have been running for a while in the first state
  Frail,       \* bound: the nodes that stop or lose their connection
  MaxLoss,     \* bound: how often that happens
  MaxEvent     \* bound: Workers restarted, Workers of two nodes connected, commands, reports
               \* of registered nodes or of connections being set up, timeouts of StepNodes
               \* ahead of the answer

ASSUME CenterAssumption ==
  /\ Nodes # {} /\ IsFiniteSet(Nodes)
  /\ Needed \in [{Type[n] : n \in Nodes} -> SUBSET {Type[n] : n \in Nodes}]
  /\ Dialable \subseteq Nodes /\ Frail \subseteq Nodes /\ Running \subseteq Nodes
  /\ TimeOutMax \in Nat \ {0}
  /\ MaxLink \in Nat /\ MaxLink >= Cardinality(Running) /\ MaxLoss \in Nat /\ MaxEvent \in Nat

VARIABLES
  up,      \* the nodes that run
  conn,    \* m_mapCenterMsgShell of each Manager: its connection to the Center, or 0
  route,   \* the nodes the Workers of each node know (m_mapNodeIdentify)
  tell,    \* TELL and its answers under way from a Worker of one node to one of another
  link,    \* the connections
  table,   \* m_mapNodesStatus; id 0 stands for no entry
  shell,   \* m_mapMsgShell of the Center's Worker: the connection of each node, or 0
  notice,  \* the registered StepNodes, in the order of their timers
  used,    \* what was used up of the bounds
  again,   \* history: <<s, p>> when what s last heard of p was a notice sent again
  told,    \* history: <<s, p>> when what s last heard of p was TELL or its answer
  lapsed,  \* history: nodes that were cut off from the Center since they started
  early    \* history: nodes registered over a connection that had not told its name

nodeVars == <<up, conn, route, tell>>
centerVars == <<table, shell, notice>>
history == <<again, told, lapsed, early>>
vars == <<nodeVars, link, centerVars, used, history>>

Links == 1 .. MaxLink

\* A connection: the node it is to; whether the node's end is open; who has the Center's
\* end; whether that end knows the node's name; what is under way to either side.
Free == [node |-> CHOOSE n \in Nodes : TRUE, mine |-> FALSE, at |-> "none", ident |-> FALSE,
         toC |-> <<>>, toN |-> <<>>]

\* A message: REGISTER, REPORT, TELL, the answer to CONNECT ("connected") and to a notice
\* ("ok"), and the notice with the nodes it adds and removes.  seq is the place of its
\* StepNode in notice, 0 when that is gone.
Msg(cmd) == [cmd |-> cmd, seq |-> 0, reg |-> {}, exit |-> {}, again |-> FALSE]

NoNode == [id |-> 0, suspend |-> FALSE]
Registered(t) == {n \in Nodes : t[n].id > 0}
NeededBy(n) == {k \in Nodes : Type[k] \in Needed[Type[n]]}

\* The Center and some nodes run, registered in some order; these know each other, and
\* nothing is under way.
Init ==
  \E c \in Bijection(Running, 1 .. Cardinality(Running)) :
    /\ up = Running
    /\ conn = [n \in Nodes |-> IF n \in Running THEN c[n] ELSE 0] /\ shell = conn
    /\ route = [n \in Nodes |-> IF n \in Running THEN Running \cap NeededBy(n) ELSE {}]
    /\ link = [l \in Links |-> IF l \in Range(c)
                               THEN [Free EXCEPT !.node = CHOOSE n \in Running : c[n] = l, !.mine = TRUE,
                                                 !.at = "worker", !.ident = TRUE]
                               ELSE Free]
    /\ table = [n \in Nodes |-> [NoNode EXCEPT !.id = conn[n]]] /\ notice = <<>>
    /\ used = [loss |-> 0, event |-> 0]
    /\ tell = {} /\ again = {} /\ told = {} /\ lapsed = {} /\ early = {}

Use(what, max) == used[what] < max /\ used' = [used EXCEPT ![what] = @ + 1]
-----------------------------------------------------------------------------
(***************************************************************************)
(* The Center's Worker: connections and notices.                            *)
(***************************************************************************)
State == [table |-> table, shell |-> shell, link |-> link, notice |-> notice]

Become(m) == table' = m.table /\ shell' = m.shell /\ link' = m.link /\ notice' = m.notice

FreeLinks(l) == {c \in Links : l[c].at = "none" /\ ~ l[c].mine}
FreeLink(l) == Min(FreeLinks(l))

\* A connection is forgotten once both ends are closed.
Swept(l) == [c \in Links |-> IF ~ l[c].mine /\ l[c].at = "closed" THEN Free ELSE l[c]]

\* Worker::SendTo(stMsgShell): before TELL a message stays in pWaitForSendBuff, and after
\* it nobody sends what waits there.
SendTo(m, c, msg) ==
  IF m.link[c].mine /\ m.link[c].ident THEN [m EXCEPT !.link[c].toN = Append(@, msg)] ELSE m

\* Worker::AutoSend to "ip:port": the last octet of the address is taken for the index of
\* a Worker.  It is assumed that no node has as many Workers: its Manager then closes the
\* connection, which until then is the way to the node.
AutoSend(m, n) ==
  LET c == FreeLink(m.link)
  IN  [m EXCEPT !.link[c] = [Free EXCEPT !.node = n, !.at = "worker", !.ident = TRUE],
                !.shell[n] = c]

\* StepNode::Emit of the StepNode x in place i: over the connection it was given, or the
\* one its node has now.
Emit(m, x, i) ==
  LET c == IF x.key = {} THEN x.to ELSE m.shell[CHOOSE n \in x.key : TRUE]
      msg == [Msg("notice") EXCEPT !.seq = i, !.reg = x.reg, !.exit = x.exit, !.again = x.tries > 0]
  IN  IF c # 0 THEN [m |-> SendTo(m, c, msg), ok |-> TRUE]
      ELSE IF x.key # {} /\ x.key \subseteq Dialable
      THEN [m |-> AutoSend(m, CHOOSE n \in x.key : TRUE), ok |-> TRUE]
      ELSE [m |-> m, ok |-> FALSE]

\* The messages of a link after StepNode i was deleted, or went to place j.
Renumber(q, i, j) ==
  [k \in DOMAIN q |-> [q[k] EXCEPT !.seq = IF @ = i THEN j ELSE IF @ > i THEN @ - 1 ELSE @]]
Move(l, i, j) == [c \in Links |-> [l[c] EXCEPT !.toC = Renumber(@, i, j), !.toN = Renumber(@, i, j)]]

DeleteCallback(m, i) ==
  IF i = 0 THEN m ELSE [m EXCEPT !.notice = [k \in 1 .. Len(@) - 1 |-> IF k < i THEN @[k] ELSE @[k + 1]],
                                 !.link = Move(@, i, 0)]

\* SendToCallback: key is the node, or empty when the connection to is given.
SendToCallback(m, key, to, reg, exit) ==
  LET x == [key |-> key, to |-> to, reg |-> reg, exit |-> exit, tries |-> 0]
      e == Emit(m, x, Len(m.notice) + 1)
  IN  IF e.ok THEN [e.m EXCEPT !.notice = Append(@, x)] ELSE m

\* To every registered node that is told of the type of n, one after the other.
ToOthers(m, n, reg, exit) ==
  LET others == {k \in Registered(m.table) : n \in NeededBy(k)}
      order == CHOOSE f \in Bijection(1 .. Cardinality(others), others) : TRUE
      sent[i \in 0 .. Cardinality(others)] ==
        IF i = 0 THEN m ELSE SendToCallback(sent[i - 1], {order[i]}, 0, reg, exit)
  IN  sent[Cardinality(others)]
-----------------------------------------------------------------------------
(***************************************************************************)
(* NodeSession.                                                            *)
(***************************************************************************)
\* Mutant: ids are counted.
GetNewNodeIDByCount(t) == Cardinality(Registered(t)) + 1

GetNewNodeID(t) == Max({t[n].id : n \in Nodes}) + 1

SendRegToOthers(m, n) == IF m.table[n].suspend THEN m ELSE ToOthers(m, n, {n}, {})
SendUnregToOthers(m, n) == ToOthers(m, n, {}, {n})

\* The nodes a new one is told of.
GetNeededNodesStatus(t, n) == {k \in Registered(t) \cap NeededBy(n) : ~ t[k].suspend}

\* AddNodeInfo, with a new id; a node that is registered keeps its entry.
AddNodeInfo(m, n) ==
  [m EXCEPT !.table[n] = IF @.id > 0 THEN @ ELSE [NoNode EXCEPT !.id = GetNewNodeID(m.table)]]

\* Mutant: the one that registers is announced, and told of nobody.
RegNodeRouteQuiet(m, n, c) == SendRegToOthers(AddNodeInfo(m, n), n)

\* RegNode and RegNodeRoute of the master; the answer with the id (ResToReg) is left out.
RegNodeRoute(m, n, c) ==
  LET r == AddNodeInfo(m, n)
  IN  SendRegToOthers(SendToCallback(r, {}, c, GetNeededNodesStatus(r.table, n), {}), n)

\* Mutant: a report never registers.
UpdateNodeOnly(m, n, c) == m

\* UpdateNode: a report of a node that is not registered registers it.
UpdateNode(m, n, c) == IF m.table[n].id > 0 THEN m ELSE RegNodeRoute(m, n, c)

DelNode(m, n) ==
  IF m.table[n].id = 0 THEN m ELSE SendUnregToOthers([m EXCEPT !.table[n] = NoNode], n)

\* DelMsgShell, when the shell is this connection, and the end of the connection.
Closed(m, c) ==
  [m EXCEPT !.shell[m.link[c].node] = IF @ = c THEN 0 ELSE @,
            !.link = Swept([@ EXCEPT ![c].at = "closed"]),
            !.notice = [i \in DOMAIN @ |-> IF @[i].to = c THEN [@[i] EXCEPT !.to = 0] ELSE @[i]]]

\* Mutant: no CMD_REQ_DISCONNECT.
DestroyConnectSilent(m, c) == Closed(m, c)

\* Worker::DestroyConnect: CMD_REQ_DISCONNECT with the name the connection has, whether
\* the shell was this connection or not (MsgShellNotice, CmdNodeDisconnect).
DestroyConnect(m, c) ==
  IF m.link[c].ident THEN DelNode(Closed(m, c), m.link[c].node) ELSE Closed(m, c)

\* Mutant: the others are not told.
OfflineNodeQuiet(m, n) == [m EXCEPT !.table[n].suspend = TRUE]

OfflineNode(m, n) == SendUnregToOthers([m EXCEPT !.table[n].suspend = TRUE], n)
OnlineNode(m, n) == SendRegToOthers([m EXCEPT !.table[n].suspend = FALSE], n)
-----------------------------------------------------------------------------
(***************************************************************************)
(* The Center's steps.                                                     *)
(***************************************************************************)
\* Bound: a handler finds connections free for all the nodes.
Room == Cardinality(FreeLinks(link)) > Cardinality(Nodes)

\* A node that leaves the table while it runs is cut off.
Lapse(m) == lapsed' = lapsed \cup {n \in up : table[n].id > 0 /\ m.table[n].id = 0}

\* The Center's Manager passes the connection to its Worker and answers; what it read
\* behind CONNECT is lost.
DisposeDataAndTransferFd(c) ==
  /\ link[c].at = "manager"
  /\ \E k \in 0 .. Len(link[c].toC) :
       link' = [link EXCEPT ![c].at = "worker",
                            ![c].toC = SubSeq(@, k + 1, Len(@)),
                            ![c].toN = IF link[c].mine THEN Append(@, Msg("connected")) ELSE @]
  /\ UNCHANGED <<nodeVars, centerVars, used, history>>

\* The handlers of the messages of connection c: CmdToldWorker, CmdNodeRegister,
\* CmdNodeReport, and the callback of StepNode i.
CmdToldWorker(m, c) == [m EXCEPT !.shell[m.link[c].node] = c, !.link[c].ident = TRUE]
CmdNodeRegister(m, c) == RegNodeRoute(m, m.link[c].node, c)
CmdNodeReport(m, c) == UpdateNode(m, m.link[c].node, c)
Callback(m, i) == DeleteCallback(m, i)

\* One message of connection c.
Dispose(m, c) ==
  LET msg == Head(m.link[c].toC)
      d == [m EXCEPT !.link[c].toC = Tail(@)]
  IN  CASE msg.cmd = "tell"     -> CmdToldWorker(d, c)
        [] msg.cmd = "register" -> CmdNodeRegister(d, c)
        [] msg.cmd = "report"   -> CmdNodeReport(d, c)
        [] msg.cmd = "ok"       -> Callback(d, msg.seq)

\* All that has come, one message after the other.
RecvDataAndDispose(m, c) ==
  LET read[i \in 0 .. Len(m.link[c].toC)] == IF i = 0 THEN m ELSE Dispose(read[i - 1], c)
  IN  read[Len(m.link[c].toC)]

CenterRecv(c) ==
  /\ link[c].at = "worker" /\ link[c].toC # <<>> /\ Room
  /\ LET m == RecvDataAndDispose(State, c)
         n == link[c].node
     IN  /\ Become(m)
         /\ early' = IF m.table[n].id > 0 /\ table[n].id = 0 /\ ~ m.link[c].ident THEN early \cup {n} ELSE early
  /\ UNCHANGED <<nodeVars, used, again, told, lapsed>>

Closes(c) ==
  /\ Become(DestroyConnect(State, c)) /\ Lapse(DestroyConnect(State, c))
  /\ early' = IF link[c].ident THEN early \ {link[c].node} ELSE early
  /\ UNCHANGED <<nodeVars, again, told>>

\* The node's end is closed, and everything before is read.
CenterEof(c) ==
  /\ link[c].at = "worker" /\ ~ link[c].mine /\ link[c].toC = <<>> /\ Room
  /\ Closes(c) /\ UNCHANGED used

\* IoTimeout, or an error on the socket: what was under way is lost.
CenterDrops(c) ==
  /\ link[c].at \in {"manager", "worker"} /\ link[c].mine /\ link[c].node \in Frail /\ Room
  /\ Use("loss", MaxLoss)
  /\ Closes(c)

Carries(q, i) == \E k \in DOMAIN q : q[k].seq = i

\* StepNode::Timeout: all wait equally long, so the one that waits longest is next.
NoticeTimeout ==
  /\ notice # <<>> /\ Room
  /\ IF \E c \in Links : Carries(link[c].toC, 1) \/ Carries(link[c].toN, 1)
     THEN Use("event", MaxEvent) ELSE UNCHANGED used
  /\ LET x == [Head(notice) EXCEPT !.tries = @ + 1]
         last == Len(notice)
         e == Emit([State EXCEPT !.notice = Append(Tail(@), x), !.link = Move(@, 1, last)], x, last)
     IN  Become(IF x.tries < TimeOutMax /\ e.ok THEN e.m ELSE DeleteCallback(State, 1))
  /\ UNCHANGED <<nodeVars, history>>

\* CmdOfflineNode and CmdOnlineNode, when they are not refused.  That they may also ask a
\* node to stop or to restart its Workers is in Stop and RestartWorker.
CmdOfflineNode(n) ==
  /\ table[n].id > 0 /\ ~ table[n].suspend /\ Room
  /\ Cardinality({k \in Registered(table) : Type[k] = Type[n]}) >= 2
  /\ Use("event", MaxEvent)
  /\ Become(OfflineNode(State, n)) /\ UNCHANGED <<nodeVars, history>>

CmdOnlineNode(n) ==
  /\ table[n].id > 0 /\ table[n].suspend /\ Room
  /\ Become(OnlineNode(State, n)) /\ UNCHANGED <<nodeVars, used, history>>
-----------------------------------------------------------------------------
(***************************************************************************)
(* The Managers of the nodes.                                              *)
(***************************************************************************)
\* Manager::AutoSend: a new connection, with REGISTER in pWaitForSendBuff.
Dials(n) ==
  /\ FreeLinks(link) # {}
  /\ LET c == FreeLink(link)
     IN  /\ link' = [link EXCEPT ![c] = [Free EXCEPT !.node = n, !.mine = TRUE, !.at = "manager"]]
         /\ conn' = [conn EXCEPT ![n] = c]

Pending(n, cmd) == \E i \in DOMAIN link[conn[n]].toC : link[conn[n]].toC[i].cmd = cmd

\* Manager::SendTo does not look whether the connection is established: what is sent
\* ahead of CONNECT makes the Center's Manager close it.
Sends(n, cmd) ==
  LET c == conn[n]
  IN  /\ \/ link' = [link EXCEPT ![c].toC = IF link[c].at = "closed" THEN @ ELSE Append(@, Msg(cmd))]
         \/ link[c].at = "manager" /\ link' = [link EXCEPT ![c].at = "closed", ![c].toC = <<>>]
      /\ UNCHANGED conn

Established(n) == link[conn[n]].ident \/ Pending(n, "tell")

RegisterToCenter(n) == IF conn[n] = 0 THEN Dials(n) ELSE Sends(n, "register")

\* The pairs without those of what n heard.
Unheard(pairs, n) == {p \in pairs : p[1] # n}

\* The Workers of n end: what was under way to them is lost, and nobody waits for the
\* answers to their own TELLs.
Silenced(n) == {[t EXCEPT !.ask = @ /\ t.from # n] : t \in {t \in tell : t.to # n}}

\* The constructor.
Start(n) ==
  /\ n \notin up /\ up' = up \cup {n}
  /\ route' = [route EXCEPT ![n] = {}]
  /\ RegisterToCenter(n)
  /\ lapsed' = lapsed \ {n} /\ again' = Unheard(again, n) /\ told' = Unheard(told, n)
  /\ UNCHANGED <<tell, centerVars, used, early>>

\* The timer: ReportToCenter.  Bound: one report under way.
ReportToCenter(n) ==
  /\ n \in up
  /\ IF conn[n] = 0 THEN Dials(n) /\ UNCHANGED used
     ELSE /\ ~ Pending(n, "report") /\ Sends(n, "report")
          /\ IF Established(n) /\ table[n].id = 0 THEN UNCHANGED used ELSE Use("event", MaxEvent)
  /\ UNCHANGED <<up, route, tell, centerVars, history>>

\* RestartWorker: the new Worker knows nobody, and the Manager registers again.
RestartWorker(n) ==
  /\ n \in up /\ Use("event", MaxEvent)
  /\ route' = [route EXCEPT ![n] = {}]
  /\ RegisterToCenter(n)
  /\ tell' = Silenced(n) /\ again' = Unheard(again, n) /\ told' = Unheard(told, n)
  /\ UNCHANGED <<up, centerVars, lapsed, early>>

\* The Workers add the nodes of a notice, and remove those that left.
CmdNodeNotice(known, msg) == (known \cup msg.reg) \ msg.exit

\* DisposeDataFromCenter of one message, on the record of what it changes.
Reply(msg) == CASE msg.cmd = "connected" -> <<Msg("tell"), Msg("register")>>
                [] msg.cmd = "notice"    -> <<[Msg("ok") EXCEPT !.seq = msg.seq]>>
                [] OTHER                 -> <<>>

DisposeDataFromCenter(m, msg) ==
  [out |-> m.out \o Reply(msg),
   route |-> CmdNodeNotice(m.route, msg),
   again |-> IF msg.again THEN m.again \cup msg.reg \cup msg.exit ELSE m.again \ (msg.reg \cup msg.exit),
   told |-> m.told \ (msg.reg \cup msg.exit)]

\* All that has come, one message after the other.
DisposeAll(m, q) ==
  LET read[i \in 0 .. Len(q)] == IF i = 0 THEN m ELSE DisposeDataFromCenter(read[i - 1], q[i])
  IN  read[Len(q)]

\* RecvDataAndDispose of the Manager.
ManagerRecv(n) ==
  /\ n \in up /\ conn[n] # 0 /\ link[conn[n]].toN # <<>>
  /\ LET c == conn[n]
         m == DisposeAll([out |-> <<>>, route |-> route[n], again |-> {p \in Nodes : <<n, p>> \in again},
                          told |-> {p \in Nodes : <<n, p>> \in told}], link[c].toN)
     IN  /\ link' = [link EXCEPT ![c].toN = <<>>, ![c].toC = IF link[c].at = "closed" THEN <<>> ELSE @ \o m.out]
         /\ route' = [route EXCEPT ![n] = m.route]
         /\ again' = Unheard(again, n) \cup {<<n, p>> : p \in m.again}
         /\ told' = Unheard(told, n) \cup {<<n, p>> : p \in m.told}
  /\ UNCHANGED <<up, conn, tell, centerVars, used, lapsed, early>>

\* DestroyConnect: what was written still arrives, or is lost.
Hangs(n) ==
  LET c == conn[n]
  IN  /\ conn' = [conn EXCEPT ![n] = 0]
      /\ \E rest \in {<<>>, link[c].toC} :
           link' = Swept([link EXCEPT ![c].mine = FALSE, ![c].toN = <<>>, ![c].toC = rest])

ManagerEof(n) ==
  /\ n \in up /\ conn[n] # 0 /\ link[conn[n]].at = "closed" /\ link[conn[n]].toN = <<>>
  /\ Hangs(n) /\ lapsed' = lapsed \cup {n}
  /\ UNCHANGED <<up, route, tell, centerVars, used, again, told, early>>

ManagerDrops(n) ==
  /\ n \in up \cap Frail /\ conn[n] # 0 /\ Use("loss", MaxLoss)
  /\ Hangs(n) /\ lapsed' = lapsed \cup {n}
  /\ UNCHANGED <<up, route, tell, centerVars, again, told, early>>

\* The node stops, or its Manager dies and the Workers follow.
Stop(n) ==
  /\ n \in up \cap Frail /\ up' = up \ {n} /\ Use("loss", MaxLoss)
  /\ IF conn[n] = 0 THEN UNCHANGED <<conn, link>> ELSE Hangs(n)
  /\ tell' = Silenced(n) /\ UNCHANGED <<route, centerVars, history>>
-----------------------------------------------------------------------------
(***************************************************************************)
(* The Workers of the nodes, which connect to each other and tell their      *)
(* names without the Center.                                                *)
(***************************************************************************)
\* Worker::AutoSend to a node they know, StepConnectWorker and StepTellWorker::Emit.
TellWorker(n, k) ==
  /\ n \in up /\ k \in route[n] \cap up /\ Use("event", MaxEvent)
  /\ tell' = tell \cup {[from |-> n, to |-> k, ask |-> TRUE]}
  /\ UNCHANGED <<up, conn, route, link, centerVars, history>>

\* AddNodeIdentify in CmdToldWorker, which answers, and in StepTellWorker::Callback: not
\* in the order of the notices, which come another way.
ToldWorker(t) ==
  /\ route' = [route EXCEPT ![t.to] = @ \cup {t.from}] /\ told' = told \cup {<<t.to, t.from>>}
  /\ tell' = (tell \ {t}) \cup (IF t.ask THEN {[from |-> t.to, to |-> t.from, ask |-> FALSE]} ELSE {})
  /\ UNCHANGED <<up, conn, link, centerVars, used, again, lapsed, early>>
-----------------------------------------------------------------------------
CenterStep(c) == DisposeDataAndTransferFd(c) \/ CenterRecv(c) \/ CenterEof(c)
ManagerStep(n) == ManagerRecv(n) \/ ManagerEof(n)

Next ==
  \/ \E c \in Links : CenterStep(c) \/ CenterDrops(c)
  \/ NoticeTimeout
  \/ \E n \in Nodes : \/ CmdOfflineNode(n) \/ CmdOnlineNode(n)
                      \/ Start(n) \/ ReportToCenter(n) \/ RestartWorker(n)
                      \/ ManagerStep(n) \/ ManagerDrops(n) \/ Stop(n)
                      \/ \E k \in Nodes : TellWorker(n, k)
  \/ \E t \in tell : ToldWorker(t)

Serve ==
  \/ NoticeTimeout
  \/ \E c \in Links : CenterStep(c)
  \/ \E n \in Nodes : ManagerStep(n) \/ ReportToCenter(n)

\* The loops serve their sockets, the timers of reports and of StepNodes: WF_vars(Serve),
\* with ENABLED Serve written out as Busy.
Busy ==
  \/ notice # <<>>
  \/ \E c \in Links : link[c].at = "manager" \/ (link[c].at = "worker" /\ (link[c].toC # <<>> \/ ~ link[c].mine))
  \/ \E n \in up : conn[n] = 0 \/ link[conn[n]].toN # <<>> \/ link[conn[n]].at = "closed" \/
                   (Established(n) /\ table[n].id = 0)
Fairness == []<>(~ Busy) \/ []<><<Serve>>_vars

Spec == Init /\ [][Next]_vars
FairSpec == Spec /\ Fairness
-----------------------------------------------------------------------------
(***************************************************************************)
(* No two registered nodes have the same id, whatever order nodes come and   *)
(* go in (GetNewNodeID).                                                    *)
(***************************************************************************)
UniqueIds == \A n, k \in Registered(table) : n # k => table[n].id # table[k].id

(***************************************************************************)
(* A registered node has a connection to the Center whose end will remove   *)
(* it (CMD_REQ_DISCONNECT), unless it was registered by a report that came   *)
(* before the connection had told its name.                                 *)
(***************************************************************************)
RegisteredIsConnected ==
  \A n \in Registered(table) : n \in early \/
    \E c \in Links : link[c].node = n /\ link[c].at = "worker" /\ link[c].ident

\* Nothing is under way: every node that runs has its connection, no message is on any,
\* and no notice waits for its answer.
Quiet ==
  /\ notice = <<>> /\ \A n \in up : conn[n] # 0
  /\ \A c \in Links : link[c] = Free \/ (link[c].mine /\ link[c].ident /\ link[c].at = "worker" /\
                                         link[c].toC = <<>> /\ link[c].toN = <<>>)

(***************************************************************************)
(* In the end every node that runs is registered and nothing is under way:   *)
(* no answer sets off another for ever, and although the late end of an old  *)
(* connection, or of one the Center opened itself, removes a node that runs,  *)
(* its next report brings it back (UpdateNode).                              *)
(***************************************************************************)
Settles == <>[](Quiet /\ \A n \in up : table[n].id > 0)

(***************************************************************************)
(* When nothing is under way, the Workers of a registered node know every    *)
(* registered node they need that is not suspended, unless the last they     *)
(* heard of it was a notice sent again.                                      *)
(***************************************************************************)
KnowsPeers ==
  Quiet => \A s \in up \cap Registered(table) : \A p \in GetNeededNodesStatus(table, s) :
             p \in route[s] \/ <<s, p>> \in again

(***************************************************************************)
(* When nothing is under way, the Workers of a node that was never cut off    *)
(* from the Center know no node that is gone or suspended, with the same      *)
(* exception and one more: the last they heard of it was its own TELL, or the *)
(* answer to theirs, which AddNodeIdentify takes whenever it comes.           *)
(***************************************************************************)
DropsGone ==
  Quiet => \A s \in up \ lapsed : \A p \in route[s] :
             p \in GetNeededNodesStatus(table, s) \/ <<s, p>> \in again \cup told
=============================================================================
