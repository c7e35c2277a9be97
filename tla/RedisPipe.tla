------------------------------ MODULE RedisPipe ------------------------------
(***************************************************************************)
(* The redis connections of a Worker (Worker.cpp) and the DataProxy steps   *)
(* that use them: reads from the slave with the master to fall back on,     *)
(* writes to the master with the EXPIRE that may follow, and the pings that *)
(* decide which of the two addresses is used.                               *)
(*                                                                          *)
(* m_mapRedisContext has at most one context per address, since AutoRedisCmd*)
(* runs only for an address that has none, so what belongs to a context is  *)
(* indexed by the address.  A step is a number, which is free again once the*)
(* step is deleted and no list points to it; a new step takes the least one.*)
(* hiredis calls back in the order of the commands of a connection; when a  *)
(* connection breaks it gives every command still unanswered a NULL reply,  *)
(* and then reports the disconnect, in one event.                           *)
(***************************************************************************)
EXTENDS Naturals, Sequences, FiniteSetsExt, Functions

CONSTANTS Master, Slave,   \* the two addresses of a redis node
          MaxStep          \* bound: RedisSteps at a time

ASSUME NodeAssumption == Master # Slave
ASSUME MaxStepAssumption == MaxStep \in Nat \ {0}

Node == {Master, Slave}
Steps == 1 .. MaxStep
NoNode == "none"           \* the empty identify

VARIABLES
  step,    \* the RedisSteps
  conn,    \* the context of an address: "none", "connecting", "up", "closing"
  data,    \* listData: steps whose command was sent
  wait,    \* listWaitData: steps waiting for the connection
  sent,    \* hiredis: the commands of the connection that have no reply yet
  ping,    \* uiPingMasterNode, uiPingSlaveNode
  crashed  \* a step was used after its deletion

vars == <<step, conn, data, wait, sent, ping, crashed>>

\* A step of a kind: "read", "write", "ttl" or "ping".
NewStep(kind, master, slave) ==
  [kind |-> kind,
   life |-> "live",      \* or "gone", deleted; "none", never made
   reg |-> FALSE,        \* m_bRegistered
   num |-> 0,            \* m_iReadNum, m_iEmitNum
   master |-> master,    \* m_strMasterNode, m_strNode
   slave |-> slave,      \* m_strSlaveNode
   rsp |-> 0,            \* its answers to the client, the parts of one result being one
   db |-> FALSE]         \* m_pNextStep, the DB step, was emitted

State == [step |-> step, conn |-> conn, data |-> data, wait |-> wait, sent |-> sent,
          ping |-> ping, crashed |-> crashed]

Become(m) ==
  /\ step' = m.step /\ conn' = m.conn /\ data' = m.data /\ wait' = m.wait
  /\ sent' = m.sent /\ ping' = m.ping /\ crashed' = m.crashed

\* The steps that nothing points to, and the one a new step takes.
Free(m) == {s \in Steps : /\ m.step[s].life # "live"
                          /\ \A n \in Node : s \notin Range(m.data[n]) \cup Range(m.wait[n])}
Fresh(m) == Min(Free(m))

\* Worker::Worker, and no ping answered yet.
Started ==
  [step |-> [s \in Steps |-> [NewStep("ping", NoNode, NoNode) EXCEPT !.life = "none"]],
   conn |-> [n \in Node |-> "none"], data |-> [n \in Node |-> <<>>],
   wait |-> [n \in Node |-> <<>>], sent |-> [n \in Node |-> <<>>],
   ping |-> [n \in Node |-> FALSE], crashed |-> FALSE]

Init ==
  /\ step = Started.step /\ conn = Started.conn /\ data = Started.data
  /\ wait = Started.wait /\ sent = Started.sent /\ ping = Started.ping
  /\ crashed = Started.crashed
-----------------------------------------------------------------------------
(***************************************************************************)
(* Registration: the set of possible outcomes, each the new state and the   *)
(* returned bool.                                                           *)
(***************************************************************************)
Returns(m, ok) == [m |-> m, ok |-> ok]

Connecting(m, n, s) ==
  [m EXCEPT !.conn[n] = "connecting", !.wait[n] = <<s>>, !.step[s].reg = TRUE]

\* Mutant: the context is kept although connect() failed.
AutoRedisCmdKept(m, n, s) == {Returns(Connecting(m, n, s), ok) : ok \in BOOLEAN}

\* AutoRedisCmd: a new context, the step waits for it, unless connect() fails at once.
AutoRedisCmd(m, n, s) == {Returns(m, FALSE), Returns(Connecting(m, n, s), TRUE)}

Registered(m, s) == [m EXCEPT !.step[s].reg = TRUE]
Sent(m, n, s) == [m EXCEPT !.data[n] = Append(@, s), !.sent[n] = Append(@, s)]

\* Mutant: the command is put in listData before it is known to be sent.
RegisterOnUnsent(m, n, s) ==
  {IF m.step[s].reg THEN Returns(m, TRUE)
   ELSE IF m.conn[n] = "up" THEN Returns(Sent(Registered(m, s), n, s), TRUE)
   ELSE Returns([Registered(m, s) EXCEPT !.data[n] = Append(@, s)], TRUE)}

\* Mutant: a waiting command is put in front of the others.
RegisterOnFront(m, n, s) ==
  {IF m.step[s].reg THEN Returns(m, TRUE)
   ELSE IF m.conn[n] = "up" THEN Returns(Sent(Registered(m, s), n, s), TRUE)
   ELSE Returns([Registered(m, s) EXCEPT !.wait[n] = <<s>> \o @], TRUE)}

\* RegisterCallback(context, step).  A step that is registered is not sent again;
\* hiredis takes no command for a connection it is closing.
RegisterOn(m, n, s) ==
  {IF m.step[s].reg THEN Returns(m, TRUE)
   ELSE CASE m.conn[n] = "up" -> Returns(Sent(Registered(m, s), n, s), TRUE)
          [] m.conn[n] = "connecting" ->
               Returns([Registered(m, s) EXCEPT !.wait[n] = Append(@, s)], TRUE)
          [] m.conn[n] = "closing" -> Returns(Registered(m, s), FALSE)}

\* RegisterCallback(identify, step): an empty identify is refused.
RegisterCallback(m, n, s) ==
  IF n = NoNode THEN {Returns(m, FALSE)}
  ELSE IF m.conn[n] = "none" THEN AutoRedisCmd(m, n, s)
  ELSE RegisterOn(m, n, s)
-----------------------------------------------------------------------------
(***************************************************************************)
(* The steps.  The outcomes of Emit and Callback: the new state and whether *)
(* they returned STATUS_CMD_RUNNING.                                        *)
(***************************************************************************)
Response(m, s) == [m EXCEPT !.step[s].rsp = @ + 1]

\* StepReadFromRedis::Emit: the slave first, the master the second time.
ReadEmit(m, s) ==
  {IF r.ok THEN Returns([r.m EXCEPT !.step[s].num = @ + 1], TRUE)
           ELSE Returns(Response(r.m, s), FALSE) :
     r \in RegisterCallback(m, IF m.step[s].num = 0 THEN m.step[s].slave
                                                    ELSE m.step[s].master, s)}

\* StepWriteToRedis::Emit.
WriteEmit(m, s) ==
  {IF r.ok THEN r ELSE Returns(Response(r.m, s), FALSE) :
     r \in RegisterCallback(m, m.step[s].master, s)}

\* StepSetTtl::Emit: there is nobody to answer.
TtlEmit(m, s) == RegisterCallback(m, m.step[s].master, s)

\* StepGeneralRedis::Emit: the second time the command is there already, which it
\* takes for an error.
PingEmit(m, s) ==
  IF m.step[s].num > 0 THEN {Returns(m, FALSE)}
  ELSE RegisterCallback([m EXCEPT !.step[s].num = 1, !.step[s].reg = FALSE],
                        m.step[s].master, s)

Emit(m, s) ==
  CASE m.step[s].kind = "read" -> ReadEmit(m, s)
    [] m.step[s].kind = "write" -> WriteEmit(m, s)
    [] m.step[s].kind = "ttl" -> TtlEmit(m, s)
    [] m.step[s].kind = "ping" -> PingEmit(m, s)

\* Of a deleted step what the properties ask about is kept.
Gone(rec) == [rec EXCEPT !.life = "gone", !.reg = FALSE, !.master = NoNode, !.slave = NoNode]

Delete(m, s) == [m EXCEPT !.step[s] = Gone(@)]

\* ExecStep(RedisStep*) of a new step.
ExecStep(m, rec) ==
  LET s == Fresh(m)
  IN  {IF r.ok THEN r.m ELSE Delete(r.m, s) : r \in Emit([m EXCEPT !.step[s] = rec], s)}

\* Step::NextStep of a step that has a DB step, which is registered and emitted.  From
\* then on it answers, as StepSendToDbAgent does: a read always, a write only when it
\* cannot be sent or times out.
NextStep(m, s) == [m EXCEPT !.step[s].db = TRUE]

\* What a command may come to: an error of the connection; an error reply or one of a
\* type that is not expected; any other reply (a result, nil); and a result for the
\* write of a key that is to expire.
Outcomes == {"broken", "error", "reply", "ttl"}

\* Whether a request goes to redis alone or has a DB step behind it is only asked when
\* the reply is there, so it is chosen there.  A read puts its result together and
\* answers; one that has a DB step and misses something hands the request on instead,
\* and does both when what is missing is in an array within the array, or comes after
\* a part that was answered.
ReadReply(m, s) == {Response(m, s), NextStep(m, s), NextStep(Response(m, s), s)}

ReadCallback(m, s, what) ==
  CASE what = "broken" /\ m.step[s].num = 1 -> ReadEmit(m, s)
    [] what = "broken" /\ m.step[s].num # 1 -> {Returns(Response(m, s), FALSE)}
    [] what = "error" -> {Returns(Response(m, s), FALSE)}
    [] what \in {"reply", "ttl"} -> {Returns(x, FALSE) : x \in ReadReply(m, s)}

\* A write answers, whatever the result holds, and then runs the DB step if it has one.
WriteReply(m, s) == {Response(m, s), NextStep(Response(m, s), s)}

\* StepWriteToRedis::Callback, its end: the expiry is set by a step of its own.
SetTtl(m, s) ==
  {Returns(x, FALSE) : x \in ExecStep(m, NewStep("ttl", m.step[s].master, NoNode))}

\* Mutant: an error is left to the DB step, as a read that misses something is.
WriteCallbackOn(m, s, what) ==
  CASE what \in {"broken", "error"} ->
         {Returns(x, FALSE) : x \in {Response(m, s), NextStep(m, s)}}
    [] what = "reply" -> {Returns(x, FALSE) : x \in WriteReply(m, s)}
    [] what = "ttl" -> UNION {SetTtl(x, s) : x \in WriteReply(m, s)}

WriteCallback(m, s, what) ==
  CASE what \in {"broken", "error"} -> {Returns(Response(m, s), FALSE)}
    [] what = "reply" -> {Returns(x, FALSE) : x \in WriteReply(m, s)}
    [] what = "ttl" -> UNION {SetTtl(x, s) : x \in WriteReply(m, s)}

\* StepGeneralRedis::Callback.
PingCallback(m, s, what) ==
  IF what = "broken" /\ m.step[s].num = 1 THEN PingEmit(m, s)
  ELSE {Returns([m EXCEPT !.ping[m.step[s].master] = what \in {"reply", "ttl"}], FALSE)}

Callback(m, s, what) ==
  CASE m.step[s].kind = "read" -> ReadCallback(m, s, what)
    [] m.step[s].kind = "write" -> WriteCallback(m, s, what)
    [] m.step[s].kind = "ping" -> PingCallback(m, s, what)
    [] m.step[s].kind = "ttl" -> {Returns(m, FALSE)}
-----------------------------------------------------------------------------
(***************************************************************************)
(* The events of a connection.                                             *)
(***************************************************************************)
\* What the lists of a connection hold, in the order in which it registered.
Listed(n) == data[n] \o wait[n]

\* A failed step: its Callback, then delete, whatever the Callback returned.  A step
\* that was deleted before has no command any more.
FailStep(m, s) ==
  CASE m.crashed -> {m}
    [] ~ m.crashed /\ m.step[s].life # "live" -> {[m EXCEPT !.crashed = TRUE]}
    [] ~ m.crashed /\ m.step[s].life = "live" ->
         {Delete(r.m, s) : r \in Callback(m, s, "broken")}

\* The steps of a list, one after the other.
FailAll(m, list) ==
  LET failed[i \in 0 .. Len(list)] ==
        IF i = 0 THEN {m} ELSE UNION {FailStep(x, list[i]) : x \in failed[i - 1]}
  IN  failed[Len(list)]

\* ~tagRedisAttr and DelRedisContextAddr: steps left in a list go without a callback.
DropContext(m, n) ==
  LET left == Range(m.data[n]) \cup Range(m.wait[n])
  IN  [m EXCEPT !.step = [s \in Steps |-> IF s \in left THEN Gone(@[s]) ELSE @[s]],
                !.conn[n] = "none", !.data[n] = <<>>, !.wait[n] = <<>>, !.sent[n] = <<>>]

\* Mutant: only the first of the waiting commands is sent.
ConnectOKFirst(n) ==
  /\ ~ crashed /\ conn[n] = "connecting"
  /\ IF \A s \in Range(wait[n]) : step[s].life = "live"
     THEN Become([State EXCEPT !.conn[n] = "up", !.wait[n] = Tail(@),
                    !.data[n] = <<Head(wait[n])>>, !.sent[n] = <<Head(wait[n])>>])
     ELSE Become([State EXCEPT !.crashed = TRUE])

\* OnRedisConnect, REDIS_OK: the waiting commands are sent, up to a step that is
\* deleted and has no command.  hiredis takes every command of a connection that is
\* up, so the break at one it refuses is left out.
ConnectOK(n) ==
  /\ ~ crashed /\ conn[n] = "connecting"
  /\ IF \A s \in Range(wait[n]) : step[s].life = "live"
     THEN Become([State EXCEPT !.conn[n] = "up", !.wait[n] = <<>>,
                               !.data[n] = @ \o wait[n], !.sent[n] = @ \o wait[n]])
     ELSE Become([State EXCEPT !.crashed = TRUE])

\* OnRedisConnect, error.  hiredis frees the context without a disconnect event.
ConnectFail(n) ==
  /\ ~ crashed /\ conn[n] = "connecting"
  /\ \E m \in FailAll(State, wait[n]) :
       Become(IF m.crashed THEN m ELSE DropContext([m EXCEPT !.wait[n] = <<>>], n))

\* OnRedisCmdResult with a reply: it is given to the head of listData.
Reply(n, what) ==
  /\ ~ crashed /\ conn[n] = "up" /\ sent[n] # <<>>
  /\ what \in Outcomes \ {"broken"}
  /\ what = "ttl" => Free(State) # {} /\ step[Head(data[n])].kind = "write"
  /\ LET s == Head(data[n])
     IN  \E r \in Callback([State EXCEPT !.sent[n] = Tail(@)], s, what) :
           Become([(IF r.ok THEN r.m ELSE Delete(r.m, s)) EXCEPT !.data[n] = Tail(@)])

\* The connection breaks with commands unanswered: OnRedisCmdResult with a NULL reply
\* fails every step of listData.  The later NULL replies and OnRedisDisconnect find
\* nothing left.
ReplyNull(n) ==
  /\ ~ crashed /\ conn[n] = "up" /\ sent[n] # <<>>
  /\ \E m \in FailAll([State EXCEPT !.conn[n] = "closing"], data[n]) :
       Become(IF m.crashed THEN m ELSE DropContext([m EXCEPT !.data[n] = <<>>], n))

\* It breaks with none: OnRedisDisconnect fails what both lists hold.
Disconnect(n) ==
  /\ ~ crashed /\ conn[n] = "up" /\ sent[n] = <<>>
  /\ \E m \in FailAll([State EXCEPT !.conn[n] = "closing"], Listed(n)) :
       Become(IF m.crashed THEN m
              ELSE DropContext([m EXCEPT !.data[n] = <<>>, !.wait[n] = <<>>], n))
-----------------------------------------------------------------------------
(***************************************************************************)
(* New steps.                                                              *)
(***************************************************************************)
\* SessionRedisNode::GetRedisNode: an address that answered the last ping, the other
\* one in its place, or none.
MasterNode == IF ping[Master] THEN Master ELSE IF ping[Slave] THEN Slave ELSE NoNode
SlaveNode == IF ping[Slave] THEN Slave ELSE IF ping[Master] THEN Master ELSE NoNode

\* A request that reads or writes redis, alone or with the database.
Request(kind) ==
  /\ ~ crashed /\ Free(State) # {}
  /\ \E m \in ExecStep(State, NewStep(kind, MasterNode, SlaveNode)) : Become(m)

\* SessionRedisNode::Timeout: a ping to the master, a ping to the slave.
Ping ==
  /\ ~ crashed /\ Cardinality(Free(State)) > 1
  /\ \E m \in ExecStep(State, NewStep("ping", Master, NoNode)) :
       \E x \in ExecStep(m, NewStep("ping", Slave, NoNode)) : Become(x)

\* The Manager starts another Worker in place of the one that crashed.
Restart == crashed /\ Become(Started)

CommandEnds(n) == ReplyNull(n) \/ \E what \in Outcomes : Reply(n, what)
ConnectEnds(n) == ConnectOK(n) \/ ConnectFail(n)

Next ==
  \/ \E n \in Node : ConnectEnds(n) \/ CommandEnds(n) \/ Disconnect(n)
  \/ \E kind \in {"read", "write"} : Request(kind)
  \/ Ping
  \/ Restart

Spec == Init /\ [][Next]_vars

\* The loop serves the events of every connection.  A redis step has no timeout: that
\* a server answers or its connection breaks in the end is assumed of the server.
FairSpec == Spec /\ \A n \in Node : WF_vars(ConnectEnds(n)) /\ WF_vars(CommandEnds(n))
-----------------------------------------------------------------------------
(* Properties                                                               *)

\* A read whose first attempt failed: Emit ran again, for the master.
FellBack(s) == step[s].kind = "read" /\ step[s].num = 2

\* A reply carries no name: OnRedisCmdResult gives it to the head of listData.  At
\* every moment listData is the sequence of the commands redis has still to answer,
\* so a reply reaches the step that asked, whatever connected, broke and failed
\* before; and no step waits on a connection that is up.
RepliesMatch ==
  \A n \in Node :
    /\ data[n] = sent[n]
    /\ conn[n] # "up" => data[n] = <<>>
    /\ conn[n] # "connecting" => wait[n] = <<>>

\* Every step that lives is in one list of one connection, once.  What a list holds
\* lives, except a read that fell back while its connection was being given up, and
\* only such a step makes the Worker use a deleted one.
OwnedOnce ==
  /\ \A s \in Steps : step[s].life = "live" =>
       Cardinality({p \in Node \X Steps :
                      p[2] \in DOMAIN Listed(p[1]) /\ Listed(p[1])[p[2]] = s}) = 1
  /\ \A n \in Node : \A s \in Range(Listed(n)) : step[s].life = "live" \/ FellBack(s)
  /\ crashed => \E n \in Node : \E s \in Range(wait[n]) : FellBack(s)

\* A request ends with an answer or with the DB step that answers in its place: no
\* error path is silent, on a connection that connects, breaks or refuses the command.
\* The step itself answers once at most, and neither answers nor hands on while it
\* lives, so a read that is retried has said nothing yet.  The DB step of a write does
\* not answer in its Callback, so it runs only for a write that is answered.  A read
\* that fell back is left to ReadsAnswered.
NeverSilent ==
  \A s \in Steps :
    LET r == step[s]
    IN  /\ r.rsp <= 1
        /\ r.life = "live" => r.rsp = 0 /\ ~ r.db
        /\ r.life = "gone" /\ r.kind \in {"read", "write"} /\ ~ FellBack(s)
             => r.rsp = 1 \/ r.db
        /\ r.kind = "write" /\ r.db => r.rsp = 1

\* The commands of two steps for one address go to redis in the order in which the
\* steps registered, through listWaitData and listData: what is listed keeps its
\* order, and what registers comes behind.
KeepsOrder ==
  [][\A n \in Node : \A s \in Range(Listed(n)), t \in Range(Listed(n)') :
       LET Before(l) == \E i, j \in DOMAIN l : i < j /\ l[i] = s /\ l[j] = t
       IN  s \in Range(Listed(n)') /\ (t \notin Range(Listed(n)) \/ Before(Listed(n)))
             => Before(Listed(n)')]_vars

\* No step is left on a connection for ever, while the Worker runs: every step is
\* called back and deleted.
StepsEnd == \A s \in Steps : step[s].life = "live" ~> step[s].life # "live" \/ crashed

\* StepReadFromRedis::Emit reads from the master when the read from the slave failed,
\* so a read whose slave is lost still answers its client, or its DB step does.
ReadsAnswered ==
  \A s \in Steps : step[s].kind = "read" /\ step[s].life = "gone"
                     => step[s].rsp = 1 \/ step[s].db
=============================================================================
