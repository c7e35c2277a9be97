# A TLA+ model of thunder

thunder is a framework for clusters of asynchronous C++ servers. A *node* is one
Manager process and several Worker processes, each of them a single libev loop.
Nodes find each other through a Center; Workers of different nodes talk over
*inner* TCP connections; business code is written as *steps* that send a request
and are called back. DataProxy, DbAgent and PgAgent are services built on the
framework, Access, Interface, Logic and Hello are samples.

Paths below are relative to `src/code/Core/` unless they begin with `src/`.

## 1. The system

| part | code | state | operations |
|---|---|---|---|
| inner connections | `Net/src/labor/duty/Worker.cpp`, `Net/src/step/sys_step`, `Net/src/cmd/sys_cmd`, `Net/src/codec/ProtoCodec.cpp` | `m_mapFdAttr` (status, `pSendBuff`, `pWaitForSendBuff`, watchers), `m_mapMsgShell`, `m_mapSeq2WorkerIndex` | `AutoSend`, `SendTo`, `IoWrite`, `RecvDataAndDispose`, `FdTransfer`, `IoTimeout`, `DestroyConnect`, the CONNECT/TELL handshake |
| supervision | `Net/src/labor/duty/Manager.cpp`, `Worker::CheckParent` | `m_mapWorker`, `m_mapWorkerFdPid`, `m_mapFdAttr`, `m_iWaitToExitCounter`, the child processes, the descriptor table | `CreateWorker`, `RestartWorker`, `CheckWorker`, signals, accept and fd passing, stop and restart |
| asynchronous steps | `Net/src/step`, the registry in `Worker.cpp` | `m_mapCallbackStep`, timers, the fields of `Step`, `StepState`, `StepNode`, `DataStep` | `RegisterCallback`, `DeleteCallback`, `ExecStep`, `SendToCallback`, `Emit`, `Callback`, `Timeout`, `Dispose` |
| redis connections of a Worker | `Worker.cpp` 1030-1583, 3498-3601 | `m_mapRedisContext`, `m_mapRedisAttr` (commands waiting for a connection, commands waiting for a reply) | `OnRedisConnect`, `OnRedisDisconnect`, `OnRedisCmdResult`, `RegisterCallback`, `AutoRedisCmd` |
| sessions and timers | `Net/src/session`, `Worker.cpp` 1002-1028, 1411-1506, 1596-1641 | `m_mapCallbackSession` | register, refresh on use, timeout, delete |
| routing tables | `Net/src/nodes` | nodes per type, hash ring, round robin index | add, delete, next, mod, consistent hash |
| plugins | `Worker.cpp` 4104-4442 | `m_mapSo`, `m_mapModule` | load, replace, unload |
| Manager and Center | `Manager.cpp` 1391-1480, 2206-2669, `Center/src`, `Center/src2` | node table, ids, routes, leader and heartbeat masks | register, report, disconnect, online, offline, election |
| DataProxy | `DataProxy/src` | requests in progress, redis nodes that answer, the files of database writes to repeat | read, write, write both, ping, synchronise |
| DbAgent, PgAgent | `DbAgent/src`, `PgAgent/src` | pool of database connections | one SQL statement per request |
| buffers and framing | `Util/src/util/CBuffer.*`, `ProtoCodec.cpp` | read and write index, capacity | write, read, compact, grow, encode, decode |
| the rest | client codecs, storage builders, `Util`, generated protobuf code, sample services | none of interest to a protocol | conversions |

How the parts meet. A Worker that sends to another node for the first time opens
a connection to the *Manager* of that node, names the Worker index it wants, and
the Manager passes the accepted descriptor to that Worker: the connections of the
first row depend on the Manager of the second. The Manager restarts a dead Worker,
which loses its connections. Requests and answers of the third row travel over the
connections of the first; an answer finds its step by sequence number. Managers
register with the Center, which tells the Workers of every node whom they may send
to. DataProxy answers from redis, writes to redis and to DbAgent, and keeps in files
the database writes it could not deliver.

The behaviours that are hard to test, and that the models contain: both Workers
connecting to each other at the same time; a handshake message sent again and
answered twice, or swallowed by the other process that reads the socket; a partial
write between any two events; a timeout racing a late answer; a Worker dying with
a descriptor on its way to it; descriptor numbers reused while a table or a timer
still has the old one; deaths reaped in another order than descriptors were
closed; `fork` failing half way through a restart; a decision taken on a stale
load report; a step deleted while its requests are outstanding; retries over a
second route; peers that never answer; redis replies, which carry no name, over
connections that break with commands listed and not sent or sent and not answered;
messages cut at any byte by a full socket, a short read or a failing allocation;
notices that are sent again and overtaken; the end of an old connection seen after
the node has come back over a new one; a crash between reading a record from a file
and its delivery.

## 2. Modules

| module | models | variables and the code's state |
|---|---|---|
| `InnerLink` | inner connections | `attr`: both Workers' `m_mapFdAttr`; `shell`: `m_mapMsgShell`; `workerIndex`: `m_mapSeq2WorkerIndex`; `step`: the registered `StepConnectWorker` or `StepTellWorker`; `at`: which process holds the accepted socket; `wire`: the kernel's buffers |
| `InnerLinkProofs`, `InnerLinkFlow` | the proofs about `InnerLink` | |
| `Supervisor` | supervision | `worker`, `fdPid`, `fdAttr`: the Manager's three tables; `kern`: what each open descriptor really is; `proc`, `idxOf`, `pend`, `report`: the Worker processes; `timers`; `wait`: the stop or restart in progress |
| `SupervisorProofs` | the proofs about `Supervisor` | |
| `StepFlow` | asynchronous steps | `step`: `m_mapCallbackStep` with the fields of the steps; `seq`; `net`, `http`: requests a peer may still answer; `out`: how often the hooks `OnSucc` and `OnFail` ran |
| `StepFlowProofs` | the proofs about `StepFlow` | |
| `RedisPipe` | redis connections of a Worker, the DataProxy steps that use them | `conn`, `data`, `wait`: `m_mapRedisContext` and the two lists of `m_mapRedisAttr`; `sent`: what hiredis has still to answer; `step`: the `RedisStep`s; `ping`: `uiPingMasterNode`, `uiPingSlaveNode`; `crashed`: a deleted step was used |
| `RedisPipeProofs` | the proofs about `RedisPipe` | |
| `CBuffer` | `util::CBuffer` as operators on a record | `mem`, `r`, `len`: the bytes up to `m_write_idx`, `m_read_idx`, `m_buffer_len` |
| `Framing` | one direction of an established connection in bytes | `wait`, `send`, `recv`: the three buffers; `armed`: the write event; `wire`: the socket; `gaveUp`: the handshake's step ended without sending what waits; `got`: messages disposed of; `stream`, `eaten`, `direct`, `torn`: history |
| `MsgChannel` | what a connection promises: an abstract specification | `queue`, `aside`: messages overtaken by later ones; `got`, `state` |
| `FramingProofs` | the proofs about `CBuffer` and `Framing` | |
| `Center` | Center (src) and the Managers that register with it | `table`: `m_mapNodesStatus`; `shell`: the Center Worker's `m_mapMsgShell`; `notice`: its registered `StepNode`s; `conn`: each Manager's `m_mapCenterMsgShell`; `route`: the nodes its Workers know; `tell`: TELL between the Workers of two nodes; `link`: the connections with what is on them; `again`, `told`, `lapsed`, `early`: history |
| `CenterProofs` | the proofs about `Center` | |
| `DbSync` | DataProxy's replay of failed database writes | `disk`: the files; `session`: `SessionSyncDbData`; `steps`: the `StepSyncToDb`s; `direct`: the `StepSendToDbAgent`s; `wire`: requests to DbAgent and its answers; `applied`, `unsure`, `stored`, `refused`, `given`, `left`: history |
| `DbSyncProofs` | the proofs about `DbSync` | |
| `MCInnerLink`, `MCSupervisor`, `MCStepFlow`, `MCRedisPipe`, `MCFraming`, `MCCenter`, `MCDbSync` | instances for TLC | |

Each action is one callback of the libev loop, whole: a process is single-threaded,
so nothing runs in the middle of a handler. Interleaving is between processes,
sockets, timers and signals. What the environment decides (how much of a buffer the
kernel takes, whether a send fails, what an answer says, when a timer fires) is
nondeterministic.

### InnerLink

Two Workers A and B on different nodes, and the Manager of the accepting node. A
connection has an "out" end (the Worker that called `connect`) and an "in" end (the
Worker that was passed the accepted descriptor).

* `Send` is `SendTo(identify, ...)`: over the shell, or by `AutoSend` when there is
  none. `IoWriteSend` and `IoWriteEmpty` are the two halves of `Worker::IoWrite`;
  the second begins the handshake (`CmdConnectWorker::Start`) or sends what waited.
* `MgrTransferFd` is the Manager's `RecvDataAndDispose` with
  `DisposeDataAndTransferFd`: it answers, passes the descriptor and destroys the
  connection on its side with everything else it has read from it.
* `RecvRspConnect`, `RecvReqTell`, `RecvRspTell`, `RecvSysError`, `RecvReqConnect`,
  `RecvReqBeat`, `RecvRspBeat`, `RecvData` are `RecvDataAndDispose` for one decoded
  message, with the handler it is disposed to.
* `StepTimeout`, `IoTimeout`, `BeatTimeout`, `PeerClosed`, `AcceptorCloses`, `Crash`
  are the timeouts, the closes and the death of a Worker.

A buffer is a sequence of whole messages. A message of which only some bytes were
written is still in the buffer; the reader cannot decode it before the rest comes.
One assumption is made about the kernel: the Manager's answer, the first write on
that socket, fits.

### Supervisor

Process ids and descriptors are small numbers, descriptors are handed out lowest
first, so that both are reused. The Manager's tables are keyed by the number, while
`kern` has what the number stands for. `Forked` and `NotForked` are the two outcomes
of `fork` inside `CreateWorker` and `RestartWorker`. `SendTo`, the answer to a stop or
restart request, compares the sequence number of the connection, and destroys it when
its other end is closed. `RestartWorker(p)` is
`OnChildTerminated` for one child that `waitpid` returned. `BeatLapses` is the
passage of `m_iWorkerBeat` seconds; its guard uses that the constructor makes
`m_iWorkerBeat` more than twice the report interval. `WaitToExitTask` is one tick of
the timer that waits for idle Workers. The beat check runs only with a refresh interval
above zero, which is taken for configured. `AcceptServerConn`, `RecvFromServer`,
`RecvEof`, `IoTimeout`, `FdTransfer` and `AutoSend` open and close the other
descriptors the numbers compete with.

### StepFlow

Handlers are functions on the record of the module's variables, composed the way
the code calls them: `Dispose` of an answer calls the business callback, drops the
predecessor entry, runs the upper step with `ExecStep`, and deletes the `StepNode`.
`DeleteCallback` puts a deletion off while a predecessor is registered and calls
`ResetTimeout`. `Prog` is the vector of state functions; the programs of `MCStepFlow`
have the shape of those in the Hello module, and one of them chooses its next state
itself, as `StepHttpRequestState` does.

### RedisPipe

A Worker has at most one context for an address, so the lists are indexed by the
address. `Request` registers a step (`RegisterCallback(RedisStep)`, which sends over an
existing context or calls `AutoRedisCmd`), `ConnectOK` and `ConnectFail` are the two
outcomes of `OnRedisConnect`, `Reply`, `ReplyNull` and `Disconnect` are
`OnRedisCmdResult` and `OnRedisDisconnect`. What a step does when it is called back
(answer, fall back on the master, run the DB step, start `StepSetTtl`) is part of these
actions. Whether a request has a DB step (`StepSendToDbAgent`, started by
`Step::NextStep`) is chosen when the reply is there; `db` records that it was started,
and the DB step itself is `DbSync`'s. A read that misses something hands the request on
instead of answering. When what is missing is inside a nested array it does both
(`ReadSubArray`). A write answers and then starts the DB step, whose `Callback` does not
answer. `rsp` counts answers, the parts of one large result being one. hiredis is
assumed to take every command of a connection that is up. `Ping` is the timer of
`SessionRedisNode`. When the code uses a deleted step the Worker is taken for crashed
and starts anew.

### CBuffer, Framing and MsgChannel

A byte is a message, a position and the length of the body, so a reader that cuts the
stream in the wrong place is seen. Every writer of a connection is an action (`SendTo`,
`Established` for the answer to TELL with the flush of what waited, `Answer`,
`SendToParent`, `SendToWorker`, `ManagerSendTo`, `WorkerIoWrite`, `ManagerIoWrite`); the
receive loops are `IoRead`, one `Decode` per message, and `PeerClosed`; the connection
breaks at the sender (`DestroyConnect`) or at the receiver (`ReceiverDestroysConnect`).
`GiveUp` is the last timeout of the handshake's step and `LateTell` the answer that
comes after it: the connection is usable then, later messages go ahead of those in
`pWaitForSendBuff`, and these are sent when `IoWrite` next finds `pSendBuff` empty, or
never. An `Established` that finds no room for what waits ends the same way.
`EnsureWritableBytes` gives the set of its outcomes, the failure of `malloc` among them.
`MsgChannel` is the abstract specification; the refinement mapping of `Framing` takes
for the abstract queue the messages whose last byte is still under way, and for `aside`
those left behind by the handshake. Two exceptions are history variables: `torn`, an
allocation failed in a place where the code goes on as if it had not (the tail of
`ReadFD`, a head written without its body, the Manager's undoing of an `Encode` by an
index taken before the buffer moved); `direct`, bytes left by `SendToParent` or by the
answer to a request without a handler, which write once and never listen for the rest.
The Manager's receive loop also compacts the buffer of the other direction; that only
moves bytes, and is covered by compaction elsewhere. `Compact` whose `malloc` fails
leaves the buffer as it is, which is left out. `Decode` skips the head and the size of
the parsed body; for what this code encodes that is `msgbody_len`, which is what the
model skips. EINTR is left out: the sockets do not block.

### Center

A handler of the Center is a function on the record of its tables. `CenterRecv` disposes
of everything that has come over a connection, as `RecvDataAndDispose` does with one
read; what was written arrives whole or, if the connection is lost, not at all. `Start`,
`ReportToCenter`, `ManagerRecv`, `ManagerEof`, `RestartWorker` and `Stop` are the
Manager's side. Routes are told by notices (`StepNode`s, sent again by `NoticeTimeout`),
and learnt besides when a Worker of one node connects to one of another: both add the
other's node (`TellWorker`, `ToldWorker`: `CmdToldWorker` and `StepTellWorker::Callback`
call `AddNodeIdentify`). TELL comes over another connection than the notices and is not
ordered with them. The Center is the master, as the deployed configurations have it
(`redlock` is empty); the node id it answers with is not kept by the Managers, since
nothing decides on it. The loops (over the nodes to be told, over the messages read) are
recursive functions; the order in which `m_mapNodesStatus` is walked is some order,
always the same for the same set.

### DbSync

One Worker and one table. A file is named by its minute; `Tick` is the next minute, and
`CheckWritingFile` closes a file whose last write is more than sixty seconds old, which
may be so in the minute after it and is in the one after that. `SessionTimeout` is the
session's timer with everything it calls: it may start a second `StepSyncToDb` while the
first waits. `Callback` and `StepTimeout` are those of `StepSyncToDb`, `DbWrite`,
`DbCallback` and `DbTimeout` those of `StepSendToDbAgent`. `AgentAnswers` is DbAgent as
the environment: the write is applied, refused, or the connection to the database is
lost, before the write or after it. A message that is lost is one nobody takes. `Crash`
loses everything but the files and runs the scan of the new Worker.

## 3. Runs

Nine runs pass; `sup_pingpong`, `flow_leak` and `redis_fallback` show where the code
departs from its own comments.

| run | bounds | properties |
|---|---|---|
| `link_cross` | 2 connections, 2 messages, 1 crash, 1 retry | `ManagerReadsOnlyConnect`, `ShellIsLive`, `DataAfterHandshake`, `OnceInOrder`, `UnsentDataIsArmed`, `GivesUpByTimeoutOnly` |
| `link_live` | 1 connection, 2 messages, 2 heartbeats, 1 crash, 1 retry | `WaitEnds` |
| `sup_restart` | 2 Workers, 3 pids, 12 descriptors, 2 deaths or hangs, 1 failing fork, 1 IO timer, 1 step | `OneWorkerPerIndex`, `Supervised`, `ChannelCutOnlyByRestart`, `BeatIsOwn` |
| `sup_stop` | 1 Worker, 2 pids, 6 descriptors, 1 death or hang, 1 request or signal, 1 client, 1 step | `FdsAccounted`, `WaitEnds`, `OrphansExit`, `EveryIndexServed` |
| `sup_pingpong` | 2 Workers, 1 signal | `EveryIndexServed` is violated |
| `flow_live` | 1 flow over a node and over HTTP, 3 timeouts, 9 steps, both routes, with and without resending | `UpperOutlivesRequests`, `ClockStopsAfterOutcome`, `RequestsEnd`, `OutcomeReached`, `NeverGoesBack` |
| `flow_leak` | 1 flow, 3 timeouts | `FlowsEnd` is violated |
| `redis_pipe` | 2 addresses, 3 steps at a time, no bound on events | `RepliesMatch`, `OwnedOnce`, `NeverSilent`, `KeepsOrder`, `StepsEnd` |
| `redis_fallback` | 2 addresses, 2 steps at a time | `ReadsAnswered` is violated |
| `framing_stream` | 2 messages of 2 to 5 bytes, the largest refused; 1 more once the handshake was given up (`MaxLate` 3); buffers from 2 bytes; a socket of 2; three kinds of link | `InBounds`, `StreamIntact`, `WorkerUnsentIsArmed`, `IsMsgChannel`, `Delivered` |
| `center` | 2 nodes, 7 connections, 1 stop or lost connection, 1 other event, 2 sendings of a notice | `UniqueIds`, `RegisteredIsConnected`, `KnowsPeers`, `DropsGone`, `Settles` |
| `db_sync` | 2 writes of different sizes, 4 minutes, 2 replaying steps at a time, 1 crash, 2 failures, 1 timeout borne | `TypeOK`, `Separate`, `OncePerLife`, `Kept`, `Drains` |

Why the bounds are enough for the cases of interest.

* `InnerLink`: two connections are what it takes for both Workers to connect to each
  other, and for one to reconnect after a crash; two messages for order and
  duplication; one retry for a handshake message to be answered twice (the code has
  three).
* `Supervisor`: two Workers and two deaths are what it takes for descriptors to be
  handed from one Worker's successor to another's; one spare pid for reuse; one IO
  timer for a timer to outlive its connection; one step for two loads to differ.
* `StepFlow`: the bound on sequence numbers is never reached in `flow_live`: the flow
  ends by its own counters, which `RequestsEnd` needs.
* `RedisPipe`: with three steps a connection has a command that waits, one that is
  sent and one that registers in between; a number is free again when its step is gone,
  so runs are unbounded.
* `Framing`: the thresholds are scaled down so that two messages make a buffer grow,
  move, be compacted and be given back, and the socket is no larger than the smallest
  message. A third message is taken only after the handshake was given up, where it is
  what overtakes the ones that wait.
* `Center`: two nodes that need each other, both registered at first. One of them
  (`Frail`) may stop and start again or lose its connection once; one event besides: a
  Worker restarts, Workers of the two nodes connect, an operator suspends a node, a
  report crosses something, a notice times out before its answer. `MaxLink` is never
  reached. Notices are sent twice at most (`TimeOutMax` 2, the code has 3).
* `DbSync`: two records are what it takes for the timer's second step to read between
  a step and its answer; different sizes for `GoBack` to refuse one. The last two
  minutes are kept free of writes, so that the last file becomes old enough to be
  read. A failure is a route that goes, an error answered, a send or a write to disk
  that fails.

Deadlock is checked in `sup_restart` and `redis_pipe`, where there is always something
to do. In the others the bounded system really comes to rest.

Fairness. `InnerLink`: the loop serves every writable socket and every expired step
timer; nothing is assumed about the peer, the Manager or answers. `Supervisor`: the
constructor finishes, the loop serves SIGCHLD, the control connections and its
periodic timers, running Workers keep calling `CheckParent`, and time passes;
clients, other servers and signals are free. `StepFlow`: the loop serves the timers
that are due; answers are not promised. `RedisPipe`: a redis step has no timeout, so
`StepsEnd` needs that a server answers or its connection breaks in the end; that is an
assumption about the server, not about the code. `Framing`: the loops serve readable
and writable sockets, and the step of the handshake ends, by the answer or by its last
timeout; that the answer comes is not assumed. `Center`: the loops serve their sockets,
the reports and the timers of notices; it is weak fairness of `Serve` with ENABLED
written out as `Busy`. `DbSync`: timers fire and the clock goes on; nothing is assumed
of DbAgent or the network, and `Drains` has as its premise that DbAgent stays known.

### What the violations show

* `sup_pingpong`: two Workers killed together are reaped in another order than their
  channels were closed. `RestartWorker` of the second destroys the connection that
  has its old number, which is the channel of the first one's successor; that Worker
  is then found silent, killed, and its restart does the same to the other. The two
  indices can take turns for ever.
* `flow_leak`: `ResetTimeout` gives libev's relative timer an absolute time. A flow
  whose deletion is put off, and whose requests then end without an answer, is never
  deleted.
* `redis_fallback`: a read whose slave fails is meant to read from the master.
  `RegisterCallback` takes the step for registered already and sends nothing, or lists
  it for a new connection; the caller deletes the step in both cases. The client gets
  no answer, and in the second case the Worker uses the deleted step.

### Known divergences without a run of their own

Met while modelling. Unless the entry says otherwise the model has the behaviour, and
the properties above are stated so that they are true of the code.

Inner connections and buffers:

* The answer to TELL may come after `StepTellWorker` gave up. It still establishes the
  connection (`ProtoCodec.cpp:74`), but nobody sends what waits in
  `pWaitForSendBuff`. `WaitEnds` and `Delivered` except it.
* The Manager's `IoWrite` (line 548) compares the bytes it wrote with what is left. A
  buffer written by half loses its write event. Hence `WorkerUnsentIsArmed` is about
  Workers only.

Supervision:

* After a Worker dies, a connection accepted before its SIGCHLD is handled can have
  a number that `m_mapWorkerFdPid` still maps to the dead Worker, and is treated as
  that Worker's channel.
* A `fork` that fails in `CreateWorker` or `RestartWorker` leaves four descriptors open
  and the index unserved for good.
* The decision to stop an idle node uses the last load reports and can cut off steps
  begun since. A second stop request that comes during the wait is dropped.
* The lower bound of `worker_beat` is applied at the start and not when the
  configuration is read again (`Manager.cpp:132`; reading it again is not modelled).

Steps and redis:

* `StepState::Timeout` computes the state to retry as `m_uiState - 1`, while its comment
  (line 140) says that the last stage is run again. After a state function that chose
  its successor itself it is not: `StepHttpRequestState` (0, 1, 4) retries state 1 by
  running state 3. What `NeverGoesBack` shows is that no retry, error or late answer runs
  a state before the one that ran last.
* The late answer to a request that was sent again advances the flow although another
  request is out; a flow whose last state sends a request runs its hooks twice.
* The second attempt of a ping (`StepGeneralRedis.cpp:46`) meets what `redis_fallback`
  shows for reads.
* A client may get two answers: a read of which a nested array has a NIL is answered and
  handed to its DB step (`StepReadFromRedis.cpp:517-528`, then 476), and the DB step of
  a write answers again when it cannot be sent or times out (`StepSendToDbAgent.cpp:95`,
  100, 105, 262). `NeverSilent` is therefore about requests that get none.

Center:

* A node that was removed and is registered again, by its report or by connecting
  again, gets a new id, and its suspension is forgotten.
* A Worker that misses the notice of an exit keeps the route, and an exit that is sent
  again removes the route of a node that came back meanwhile.
* A suspended or removed node that still runs is known again to the Workers it connects
  to, or that connect to it, since TELL adds the node whatever the Center announced.
  `DropsGone` excepts a pair whose last word was TELL or its answer.
* `AutoSend` with `ip:port` takes the last octet of the address for a Worker's index. The
  model assumes that no node has a Worker of that index; a node x.x.x.1 with two Workers
  has, and would keep the connection. Not modelled.
* A `SendTo` that fails inside a loop over `m_mapNodesStatus` removes entries of the
  map it walks over (`NodeSession.cpp:688`). Not modelled.

Replay of failed database writes. `SessionSyncDbData.hpp:7` says that every write that
failed is kept in a file and written again once the fault is over; comments at
`StepSyncToDb.cpp:63` and 66 say the same of a record that is being replayed.

* The file is unlinked when its last record is handed out, so that record is lost when
  the Worker ends, or when the session ends before the record is put back.
* `GoBack` recognises a record by its size and drops it if another one was read since.
* `m_timeOut` is never set back. The fourth timeout of a step gives its record up.
* A first write that times out is not kept, nor is one that gets a connection error
  and has no redis part.
* A Worker that restarts within a minute reads the file it is writing and unlinks it.
* `ScanSyncData` looks for the table's name anywhere in the name of a file. A table
  whose name is part of another's reads the other's files too (one table here).
* `SyncData` does not look at what `Encode` returns (`SessionSyncDbData.cpp:154`): a
  record that is refused is not written and counts as kept. Not modelled.
* A read error, or a record that does not decode, ends the file, which is unlinked with
  its unread records (227-231, 245-249, 252-257, 270-274, 282-284). Not modelled.
* `GetSession` starts the session's timer again. Writes that fail at least every ten
  seconds put off the replay; fairness of `SessionTimeout` assumes there is a pause.

## 4. Proofs

Eight modules hold proofs. The theorems hold for every value of the constants, that is,
without the bounds of the runs.

### InnerLink

`InnerLinkProofs` proves:

* `TypeCorrect`: `Spec => []TypeOK`;
* `ShellsAreLive`: `Spec => []ShellIsLive`;
* `ManagerSafe`: `Spec => []ManagerReadsOnlyConnect`;
* `HandshakeFirst`: `Spec => []DataAfterHandshake`.

Assumptions: the two Workers are different (`WorkerAssumption`) and the bounds are
natural numbers (`BoundAssumption`).

The last two are not inductive. That nothing but CONNECT travels to the Manager
needs to know what the buffers of an end hold in each phase of its connection, and
that depends on who holds the socket at the other side. The inductive invariant
`IInv` is the conjunction of `TypeOK`, `ShellIsLive` and five facts:

* `Lifecycle`: a destroyed end is `Closed`; connections beyond the last one opened are
  untouched; the in end is open only once the Worker holds the socket;
* `ManagerPhase`: until the Manager passes the socket on, the out end's `pSendBuff` and
  its wire hold only CONNECT, nothing is on the wire back, and no `StepTellWorker` is
  registered;
* `PassingPhase`: until the Worker has the socket, the out end is not established, and
  no answer to TELL and no data comes back;
* `ArmedEvent`: the armed write event of an end that is not established belongs to an
  out end, and finds its `pSendBuff` empty only if the handshake is still to begin;
* `Established`: data in the buffers or on the wire of an open end, and an answer to
  TELL, mean that the end is established; an established out end has an established
  in end.

There is one lemma for each action of an endpoint, with lemmas on the operators these
are built from; then `AutoSend`, the Manager's steps, closes and crashes.

The same module and `InnerLinkFlow` prove, from a second inductive invariant
`FInv == CtlInv /\ FlowInv` that holds together with `IInv` (`FlowInvariance`):

* `DeliveredOnceInOrder`: `Spec => []OnceInOrder`;
* `UnsentArmed`: `Spec => []UnsentDataIsArmed`;
* `FailsByTimeoutOnly`: `Spec => GivesUpByTimeoutOnly`, an action property.

`OnceInOrder` is about what was received, and says nothing of what is still to come.
`FlowInv` is about all that an endpoint has sent: what the other side received, what is
in the kernel and in `pSendBuff` is one line of rising numbers, what waits for the
handshake is a rising line of its own, all of it was accepted by `SendTo`, and no two
endpoints have sent the same message. The wait buffer can be put behind the send buffer
without disorder because data waits only before the handshake is over, and is sent only
after it (`Established`). `CtlInv` says, connection by connection, what the handshake
allows:

* before the first write event the connection carries nothing (`Unbegun`);
* while `StepConnectWorker` waits, no TELL was sent or answered, and the Manager's
  answer is the first thing the initiator reads (`InConnect`);
* a registered step means that its connection is not established, and that the
  acceptor has received nothing over it (`InStep`);
* the accepting end keeps neither data nor the answer to TELL waiting, and is sent
  through only once it is established (`InEnd`);
* the initiator's write event without data means that the handshake is not begun
  (`OutEvent`), and data in `pSendBuff` has the event (`Arm`).

`GivesUpByTimeoutOnly` follows from `InConnect`: the error answer that a retried CONNECT
draws comes behind the Manager's answer, which has ended the step it would fail.
`InnerLinkProofs` has the lines of messages, writes, and the steps that open or lose a
connection; `InnerLinkFlow` has the messages of the handshake, data, heartbeats and
timeouts, one lemma each, and the theorems.

### Supervisor

`SupervisorProofs` proves:

* `OneWorker`: `Spec => []OneWorkerPerIndex`;
* `AllSupervised`: `Spec => []Supervised`;
* `NothingLeaks`: `Spec => []FdsAccounted` when `MaxForkFail = 0`.

Assumptions: the sizes and bounds are natural numbers, and there are more process
identifiers than Workers (`SupervisorAssumption`), as a successor is forked while its
predecessor's identifier may still be taken.

`OneWorkerPerIndex` speaks of living Workers and is not inductive: the index of a
Worker that died is given to its successor, whoever else may have it. The inductive
invariant `IInv` is about all children, the ones not waited for included: each has an
index of its own among those `CreateWorker` has come to, and `m_mapWorker` holds them
and nothing else under these indices. From it follows that there are at most N
children, so that `fork` has an identifier to return (`PidLeft`), and that this one is
not in `m_mapWorker` yet, where `insert` would keep the old entry.

`NothingLeaks` is about runs in which no fork fails: `CreateWorker` and `RestartWorker`
leave the two socket pairs open when `fork` returns an error. Its invariant `Tabled`
adds that `m_mapWorker` is not empty once a Worker was forked, since `FdTransfer` with
no Worker to give the connection to returns and leaves it open.

### CBuffer and Framing

`FramingProofs` proves, for any sizes of messages, buffers and sockets, however reads
and writes are cut and whichever allocations fail:

* `TypeCorrect`: `Spec => []TypeOK`;
* `BuffersInBounds`: `Spec => []InBounds`;
* `StreamKept`: `Spec => []StreamIntact`;
* `WorkerListens`: `Spec => []WorkerUnsentIsArmed`.

Assumptions: `SizeAssumption`, `LinksAssumption` and `FrameAssumption`: sizes are
natural numbers, those of an allocation not zero; a link joins Workers and Managers; a
message has a head.

The inductive invariant is `TypeOK /\ InBounds /\ Phases /\ Intact`. `Phases` says that
only connections between Workers have a handshake and that a closed connection has
nothing left to send. `Intact` says that the bytes eaten, received, in the socket, in
`pSendBuff` and in `pWaitForSendBuff`, put one behind the other, begin the stream of the
messages taken, and are all of it while the connection is open; what the end of the
handshake left in `pWaitForSendBuff` is no part of the stream until it is taken up
again. It needs the bounds, since an index out of order reads bytes nobody wrote.
`Unsent`, which implies `WorkerUnsentIsArmed`, is inductive given `IInv` (`NextUnsent`).

The lemmas on the operators of the buffer come first (what growing, moving, compacting,
writing and undoing leave readable), then those on encoding and concatenation, then one
for each action.

### StepFlow

`StepFlowProofs` proves, for any state functions, chains of requests, retries and
numbers of flows (`StepFlowAssumption`):

* `UpperOutlives`: `Spec => []UpperOutlivesRequests`;
* `ClockStops`: `Spec => []ClockStopsAfterOutcome`.

The handlers of `StepFlow` are functions on the record of all variables, and so is the
invariant: `Good(m, x)` holds of every value `m` a handler goes through, and
`IInv == Good(State, 0)`. The request `x` is exempt from the ties between steps: between
the moment `StepNode::Callback` takes its number out of the upper step's predecessors
and its own deletion, it is registered and belongs to nobody. What has to be added to
the two properties is `Numbered` (what is registered or noted as a predecessor has a
number that was given out, and a request has no predecessors, so a new number cannot be
taken for an old one) and `Addressed` (a late answer of a peer finds a request or
nothing, one of an HTTP server a `StepState` or nothing).

### RedisPipe

`RedisPipeProofs` proves, for any number of steps (`NodeAssumption`: the master and the
slave have different addresses; `MaxStepAssumption`: there is a step):

* `RepliesToAsker`: `Spec => []RepliesMatch`;
* `StepsOwned`: `Spec => []OwnedOnce`;
* `RequestsEndAnswered`: `Spec => []NeverSilent`.

The inductive invariant is `PipeOK(State)`, again a predicate on the record of all
variables. For each address (`NodeOK`): what is in flight is `listData`; one of the two
lists is empty; no step is in a list twice; the steps of `listData` live, and those that
wait live but for the first, which may be a read that fell back. For each step
(`RecOK`): whether it has answered or started its DB step, by its kind, its attempts
and its life. Between
addresses: a step is at one at most (`Apart`), a step that lives is at one (`Owned`),
and only a read that fell back lets the Worker use a deleted step (`ByFallBack`). When a
connection is given up its steps are called back one by one, and a callback may open
the other connection; `Lost(m, x, n, L, i)` says what the state is after the first `i`
of them. That the recursive function in `FailAll` has a value, and what is true of it
after every step, is shown by taking the least number for which it is not (`Least`).

### Center

`CenterProofs` proves:

* `IdsUnique`: `Spec => []UniqueIds`;
* `RegisteredConnected`: `Spec => []RegisteredIsConnected`.

Assumptions: there is a node and there are finitely many, and the bounds are natural
numbers (`CenterAssumption`). The bound `Room` stays: a step of the Center is taken only
while there are more free connections than nodes, so that a notice to a node without a
connection finds one. Any number of connections is allowed.

Neither invariant is inductive. Both need that the tables have their types, and the
second that a connection is opened under a number that is free. `CenterInv` is their
conjunction with the types of the Center's record and of `conn`; a message to the Center
is one of register, report, tell and the answer to a notice. Most of the proof is what
the operations do to a record, from `SendTo` up to the handling of a whole read:

* a notice, whether it goes over a connection there is or opens one, leaves the table
  alone, and of the connections in use everything but what is on them (`Kept`). So the
  loops over the nodes to be told do, and the retry by `NoticeTimeout`;
* a message that is disposed of changes the entry of one node only, the one at the other
  end, and of the other connections only what is on them (`Handled`). A node that had no
  entry gets an id above all others (`AddNodeInfoFacts`, from `MaxFacts`, since the table
  is finite), and unless its connection has told its name the node is in `early`;
* the end of a connection that serves a node removes the node. The end of any other
  leaves the connections that serve a node as they are (`Lasting`), as do all steps of
  the Managers.

What a loop does for every number of rounds is shown with a least counterexample: the
induction theorems of the library take the induction hypothesis as a parameter, which
the provers cannot instantiate; that a set of numbers has a least element they can use
(`Least`).

### DbSync

`DbSyncProofs` proves, for any writes, sizes, minutes, failures and crashes:

* `ReadingApart`: `Spec => []Separate`;
* `Typed`: `Spec => []TypeOK`;
* `NothingLost`: `Spec => []Kept`;
* `SentOnce`: `Spec => []OncePerLife`.

Assumption (`DbSyncAssumption`): the bounds are natural numbers and the clock, which
starts at minute 2, has a first minute; a record has a size.

For `Separate` the invariant `IInv` adds why: no file is of a later
minute than this one; a file of this minute is read only if it was left behind; and
if a file of this minute is noted it is the writing file, written to in this minute
(so `CheckWritingFile` does not close it), or was left behind. That
`m_setDataFiles.begin()` is one of the files uses that the natural numbers are
well-founded (`LeastFile`).

For `Kept` the invariant `KInv` adds that the file read is there and is read within its
length, and that a message of a step is the only one, is about the step's record and
says the truth: an answer that ends the step means that the database has the record.

`OncePerLife` bounds a counter, and `OInv` bounds it together with the chances a write
still has to be sent (`Bounded`): it is not written so far, or it is waiting, put
back or in a request of a step, or it is in a request nobody waits for. That each of
these counts once needs that a record is in one place only (`Single`, `InHand`,
`Fresh`, `LooseOnce`).

### Only model-checked

The refinement of `MsgChannel` by `Framing` (`IsMsgChannel`), whose mapping decodes a
stream of any length, which needs induction over data; beats and channels in
`Supervisor` (`BeatIsOwn`, `ChannelCutOnlyByRestart`), which need an invariant on the
reuse of descriptor numbers over all tables at once; the action properties `KeepsOrder`
of `RedisPipe` and `NeverGoesBack` of `StepFlow`; in `Center` what the nodes know of
each other once everything is at rest (`KnowsPeers`, `DropsGone`), which needs an
invariant on every notice on its way, in order, against the table it was sent from; and
all liveness (`Settles` among it), which is about ENABLED and fairness and out of the
prover's reach.

## 5. Not modelled

* **Center, src2 (election).** There is no election to check. With a list of Centers
  none of them becomes leader: `InitElection` keys its table by `ip:port.0` and
  `GetNodeIdentify` gives `ip:port`, so a Center does not find its own entry, and the
  beat of one that is not leader is an empty message, which `StepNode::Emit` does not
  send. With an empty list, as deployed, the only Center leads from the start.
* **Center, src.** The choice of a master by redlock (not configured), the load in a
  report, the id in the Center's answer (nothing decides on it), and the
  administration over HTTP, which has no state of its own.
* **DataProxy.** `CmdDataProxy` chooses the steps from tables by pure functions.
  Nothing orders the redis part and the database part of two writes against each
  other, so there is no promise to state. `StepReadFromRedisForWrite` is left out, and
  so is the writing back to redis: `StepWriteBackToRedis::Emit` returns at once. In
  the replay: reads of the database, a record torn on the disk, a file that is there
  and cannot be opened.
* **Redis cluster.** No service sends a command with a key through it.
* **Steps.** `StepCo` is the same flow with a coroutine for each state;
  `JumpNextState` and `Finish` are called nowhere; chains by `m_pNextStep` are used
  by DataProxy only.
* **Sessions.** One map and one timer each, without a peer; the one that matters is in
  `DbSync`.
* **Routing tables.** Hash functions; which nodes are known is in `Center`.
* **Plugins.** Loading and unloading depends on the dynamic linker.
* **DbAgent, PgAgent, MySQL in the Worker.** Client libraries do the work; DbAgent's
  answers are in `DbSync`.
* **Client codecs, storage builders, JSON, encryption, logging, generated code and
  third-party libraries** convert data and keep no protocol state. The sample services
  are instances of `StepFlow`.
