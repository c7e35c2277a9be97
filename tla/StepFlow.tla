------------------------------ MODULE StepFlow ------------------------------
(***************************************************************************)
(* The asynchronous steps of a Worker (Net/src/step and the callback        *)
(* registry of labor/duty/Worker.cpp).                                      *)
(*                                                                          *)
(* A business flow is an "upper" step: a StepState, which runs a vector of  *)
(* state functions, or a DataStep, which only carries the parameters of a   *)
(* chain of requests.  Each request a flow makes through SendToCallback is  *)
(* a StepNode of its own, registered under its own sequence number; its     *)
(* answer resumes the upper step with ExecStep.  A state function may also  *)
(* make an HTTP request, whose answer comes back to the StepState itself.   *)
(* The registry, m_mapCallbackStep, owns every step; a step leaves it       *)
(* through DeleteCallback, which puts the deletion off while a step that    *)
(* was registered as its predecessor is still there.                        *)
(*                                                                          *)
(* A Worker is one libev loop, so each handler (an answer, a timer, a new   *)
(* request) is one action.  A handler is a function on the record           *)
(* [step, seq, net, http, out] of the module's variables, the way the       *)
(* C++ handler calls its helpers one after the other.                       *)
(***************************************************************************)
EXTENDS Integers, Sequences, FiniteSets

CONSTANTS
  Prog,        \* the state functions of a StepState: a sequence of records
               \*   [send |-> "node" | "http" | "none", next |-> state or -1]
  TimeOutMax,  \* m_uiTimeOutMax of StepState and StepNode (3 in the code)
  TimeOutRetry,\* m_uiTimeOutRetry of the StepState (Launch's uiToRetry)
  Retries,     \* values of m_uiRetrySend > 0 a StepNode may have
  Mods,        \* values of m_uiModFactor >= 0 a StepNode may have
  MaxChain,    \* requests a DataStep makes, one after the other
  MaxLaunch,   \* bound: flows started
  MaxSeq       \* bound: sequence numbers given to steps

ASSUME StepFlowAssumption ==
  /\ Prog \in Seq([send : {"node", "http", "none"}, next : Int])
  /\ Len(Prog) > 0
  /\ TimeOutMax \in Nat \ {0}
  /\ TimeOutRetry \in BOOLEAN
  /\ Retries \subseteq BOOLEAN /\ Mods \subseteq BOOLEAN
  /\ MaxChain \in Nat /\ MaxLaunch \in Nat /\ MaxSeq \in Nat

VARIABLES
  step,      \* m_mapCallbackStep: the step registered under each sequence number
  seq,       \* the last sequence number given out
  net,       \* the StepNode requests a peer may still answer
  http,      \* the HTTP requests of each StepState a server may still answer
  out,       \* the StepStates launched, and how often the success and the
             \*   failure hook of each ran
  launched   \* flows started so far

vars == <<step, seq, net, http, out, launched>>

Seqs  == 1 .. MaxSeq
Num   == Len(Prog)              \* m_uiStateVecNum
Fn(k) == Prog[k + 1]            \* m_StateVec[k]

\* A step; kind "none" stands for no entry in m_mapCallbackStep, the others are
\* "state", "data" and "node".
NewStep ==
  [kind  |-> "none",
   upper |-> 0,          \* m_uiUpperStepSeq of a StepNode
   pre   |-> {},         \* m_setPreStepSeq
   timer |-> "armed",    \* m_pTimeoutWatcher, or "far"
   fresh |-> FALSE,      \* m_dActiveTime refreshed since the timer was set
   st    |-> 0,          \* m_uiState
   last  |-> 0,          \* m_uiLastState
   next  |-> -1,         \* m_uiNextState
   to    |-> 0,          \* m_uiTimeOut, m_uiTimeOutCounter
   delay |-> FALSE,      \* m_boDelayDel
   chain |-> 0,          \* requests a DataStep has still to make
   retry |-> FALSE,      \* m_uiRetrySend > 0
   mod   |-> FALSE]      \* m_uiModFactor >= 0

State == [step |-> step, seq |-> seq, net |-> net, http |-> http, out |-> out]

Become(m) ==
  /\ step' = m.step /\ seq' = m.seq /\ net' = m.net /\ http' = m.http /\ out' = m.out

\* What is decided outside: whether a send succeeds, and what a new request is.
Choice == [ok : BOOLEAN, retry : Retries, mod : Mods]

\* What an answer says: done, an error number, or CMD_RSP_SYS_ERROR.
Responses == {"ok", "errno", "syserr"}

Init ==
  /\ step = [s \in Seqs |-> NewStep]
  /\ seq = 0
  /\ net = {}
  /\ http = [s \in Seqs |-> 0]
  /\ out = [s \in Seqs |-> [run |-> FALSE, succ |-> 0, fail |-> 0]]
  /\ launched = 0

----------------------------------------------------------------------------
(* The registry                                                             *)

IsRegistered(m, s) == s # 0 /\ m.step[s].kind # "none"

RegisterCallback(m, r) ==
  [m EXCEPT !.seq = m.seq + 1, !.step[m.seq + 1] = r]

\* ResetTimeout hands libev's relative timer the absolute time
\* ev_now + timeout, some fifty years: the timer is as good as stopped.
ResetTimeout(m, s) == [m EXCEPT !.step[s].timer = "far"]

\* Mutant: deletes without looking for predecessors.
DeleteCallbackAtOnce(m, s) == [m EXCEPT !.step[s] = NewStep]

\* The predecessors are tried in ascending order: the ones that are gone are
\* dropped up to the first that is registered, which puts the deletion off.
DeleteCallback(m, s) ==
  LET running == {p \in m.step[s].pre : IsRegistered(m, p)}
  IN  IF running # {}
      THEN ResetTimeout(
             [m EXCEPT !.step[s].pre = {p \in @ : \E q \in running : q <= p}], s)
      ELSE [m EXCEPT !.step[s] = NewStep]

OnSucc(m, u) == [m EXCEPT !.out[u].succ = @ + 1]
OnFail(m, u) == [m EXCEPT !.out[u].fail = @ + 1]

----------------------------------------------------------------------------
(* StepNode: one request to another node                                    *)

\* StepNode::Emit has sent the request of step s: a peer may answer it.
NodeEmit(m, s) == [m EXCEPT !.net = @ \cup {s}]

\* Worker::SendToCallback.  A failed send deletes the StepNode again; its
\* sequence number stays in the predecessors of the upper step.
SendToCallback(m, u, c) ==
  LET n  == m.seq + 1
      m1 == RegisterCallback(m, [NewStep EXCEPT
              !.kind = "node", !.upper = u, !.retry = c.retry, !.mod = c.mod])
      m2 == IF u = 0 THEN m1 ELSE [m1 EXCEPT !.step[u].pre = @ \cup {n}]
  IN  IF c.ok THEN NodeEmit(m2, n) ELSE DeleteCallback(m2, n)

----------------------------------------------------------------------------
(* StepState and DataStep: Emit                                             *)

Result(m, status) == [m |-> m, status |-> status]

\* The state function of state k.  SendToCallback marks a registered upper
\* step DelayDel; HttpGet opens a connection of its own for the request.
RunState(m, u, k, c) ==
  CASE Fn(k).send = "node" -> SendToCallback([m EXCEPT !.step[u].delay = TRUE], u, c)
    [] Fn(k).send = "http" -> IF c.ok THEN [m EXCEPT !.http[u] = @ + 1] ELSE m
    [] Fn(k).send = "none" -> m

StateEmit(m, u, c) ==
  LET r  == m.step[u]
      k  == IF r.next >= 0 THEN r.next ELSE r.st
      m1 == [m EXCEPT !.step[u].st = k, !.step[u].next = -1]
      m2 == RunState([m1 EXCEPT !.step[u].last = k], u, k, c)
      to == IF Fn(k).next \in 0 .. Num - 1 THEN Fn(k).next ELSE k + 1
      m3 == [m2 EXCEPT !.step[u].st = to]
  IN  IF k >= Num THEN Result(OnSucc(m1, u), "completed")
      ELSE IF Fn(k).send # "none" /\ ~c.ok THEN Result(OnFail(m2, u), "fault")
      ELSE IF to < Num THEN Result(m3, "running")
      ELSE Result(OnSucc(m3, u), "completed")

\* DataStep::Emit is DataStep::Timeout: it ends unless the callback that has
\* just run sent another request.
DataEmit(m, u) ==
  IF m.step[u].delay THEN Result([m EXCEPT !.step[u].delay = FALSE], "running")
                     ELSE Result(m, "completed")

Emit(m, u, c) == IF m.step[u].kind = "state" THEN StateEmit(m, u, c) ELSE DataEmit(m, u)

\* Mutant: the status of the handler is ignored.
SettleAlways(e, s) == DeleteCallback(e.m, s)

\* A step whose handler did not return STATUS_CMD_RUNNING is deleted.
Settle(e, s) == IF e.status = "running" THEN e.m ELSE DeleteCallback(e.m, s)

ExecStep(m, u, c) == IF IsRegistered(m, u) THEN Settle(Emit(m, u, c), u) ELSE m

----------------------------------------------------------------------------
(* Callbacks and timeouts of the three kinds of step                        *)

\* The callback of a DataStep's request sends the next one of the chain,
\* unless the answer carries an error number.
UpperCallback(m, u, rsp, c) ==
  IF m.step[u].kind = "data" /\ m.step[u].chain > 0 /\ rsp = "ok"
  THEN SendToCallback([m EXCEPT !.step[u].delay = TRUE, !.step[u].chain = @ - 1], u, c)
  ELSE m

\* StepNode::Callback: the business callback, then the predecessor entry of
\* this request goes, then the upper step runs on.
NodeCallback(m, n, rsp, c) ==
  LET u == m.step[n].upper
      a == UpperCallback(m, u, rsp, c)
  IN  IF IsRegistered(m, u)
      THEN ExecStep([a EXCEPT !.step[u].pre = @ \ {n}], u, c)
      ELSE m

\* Mutant: the failed route is kept, so the other one is tried for ever.
NodeTimeoutSameRoute(m, n, c) ==
  LET r == m.step[n]
      Again(x) == IF c.ok THEN Result(NodeEmit(x, n), "running") ELSE Result(x, "fault")
  IN  IF r.to + 1 < TimeOutMax
      THEN LET x == [m EXCEPT !.step[n].to = @ + 1]
           IN  IF r.retry THEN Again(x) ELSE Result(x, "running")
      ELSE IF r.mod THEN Again([m EXCEPT !.step[n].to = 0])
      ELSE Result(m, "completed")

NodeTimeout(m, n, c) ==
  LET r  == m.step[n]
      Again(x) == IF c.ok THEN Result(NodeEmit(x, n), "running") ELSE Result(x, "fault")
  IN  IF r.to + 1 < TimeOutMax
      THEN LET x == [m EXCEPT !.step[n].to = @ + 1]
           IN  IF r.retry THEN Again(x) ELSE Result(x, "running")
      ELSE IF r.mod THEN Again([m EXCEPT !.step[n].mod = FALSE, !.step[n].to = 0])
      ELSE Result(m, "completed")

\* Mutant: one state too far back.
SetNextStateTwoBack(m, u) ==
  LET st == m.step[u].st
      s  == IF st < 2 THEN st + 1 ELSE st - 2
  IN  IF s < Num THEN [m EXCEPT !.step[u].next = s] ELSE m

\* SetNextState(m_uiState - 1): a negative state means the one after this.
SetNextState(m, u) ==
  LET st == m.step[u].st
      s  == IF st = 0 THEN st + 1 ELSE st - 1
  IN  IF s < Num THEN [m EXCEPT !.step[u].next = s] ELSE m

\* Mutant: the failure hook is forgotten when the retries are used up.
StateTimeoutSilent(m, u, c) ==
  LET x == [m EXCEPT !.step[u].to = @ + 1]
  IN  IF x.step[u].to < TimeOutMax
      THEN IF TimeOutRetry THEN StateEmit(SetNextState(x, u), u, c)
                           ELSE Result(x, "running")
      ELSE Result(x, "fault")

StateTimeout(m, u, c) ==
  LET x == [m EXCEPT !.step[u].to = @ + 1]
  IN  IF x.step[u].to < TimeOutMax
      THEN IF TimeOutRetry THEN StateEmit(SetNextState(x, u), u, c)
                           ELSE Result(x, "running")
      ELSE Result(OnFail(x, u), "fault")

Timeout(m, s, c) ==
  CASE m.step[s].kind = "node"  -> NodeTimeout(m, s, c)
    [] m.step[s].kind = "state" -> StateTimeout(m, s, c)
    [] m.step[s].kind = "data"  -> DataEmit(m, s)

----------------------------------------------------------------------------
(* The actions                                                              *)

Room == seq + 2 <= MaxSeq       \* bound: a handler gives out at most two

\* net::Launch of a StepState.
Launch(c) ==
  /\ launched < MaxLaunch /\ Room
  /\ LET m == RegisterCallback([State EXCEPT !.out[seq + 1].run = TRUE],
                               [NewStep EXCEPT !.kind = "state"])
     IN  Become(ExecStep(m, seq + 1, c))
  /\ launched' = launched + 1

\* SendToCallback(new DataStep(...)): registers the DataStep and its request.
LaunchData(c) ==
  /\ launched < MaxLaunch /\ Room /\ MaxChain > 0
  /\ LET m == RegisterCallback(State, [NewStep EXCEPT !.kind = "data",
                                                      !.chain = MaxChain - 1])
     IN  Become(SendToCallback(m, seq + 1, c))
  /\ launched' = launched + 1

\* SendToCallback(pSession, ...): a request with no upper step.
LaunchSession(c) ==
  /\ launched < MaxLaunch /\ Room
  /\ Become(SendToCallback(State, 0, c))
  /\ launched' = launched + 1

\* Worker::Dispose of an answer.  CMD_RSP_SYS_ERROR ends the StepNode without
\* a word to the upper step; an answer nobody waits for is logged.
Dispose(n, rsp, c) ==
  /\ n \in net /\ Room
  /\ LET m == [State EXCEPT !.net = @ \ {n}]
     IN  Become(IF ~IsRegistered(m, n) THEN m
                ELSE DeleteCallback(IF rsp = "syserr" THEN m
                                    ELSE NodeCallback(m, n, rsp, c), n))
  /\ UNCHANGED launched

\* Worker::Dispose of an HTTP response, through m_mapHttpAttr.
DisposeHttp(u, c) ==
  /\ http[u] > 0 /\ Room
  /\ LET m == [State EXCEPT !.http[u] = @ - 1]
         x == [m EXCEPT !.step[u].fresh = TRUE, !.step[u].to = 0]
     IN  Become(IF IsRegistered(m, u) THEN Settle(StateEmit(x, u, c), u) ELSE m)
  /\ UNCHANGED launched

\* The connection of an HTTP request closes first: nobody tells the step.
DestroyConnect(u) ==
  /\ http[u] > 0
  /\ Become([State EXCEPT !.http[u] = @ - 1])
  /\ UNCHANGED launched

StepTimeout(s, c) ==
  /\ step[s].kind # "none" /\ step[s].timer = "armed" /\ Room
  /\ Become(IF step[s].fresh THEN [State EXCEPT !.step[s].fresh = FALSE]
            ELSE Settle(Timeout(State, s, c), s))
  /\ UNCHANGED launched

Next ==
  \/ \E c \in Choice : Launch(c)
  \/ \E c \in Choice : LaunchData(c)
  \/ \E c \in Choice : LaunchSession(c)
  \/ \E n \in Seqs, rsp \in Responses, c \in Choice : Dispose(n, rsp, c)
  \/ \E u \in Seqs, c \in Choice : DisposeHttp(u, c)
  \/ \E u \in Seqs : DestroyConnect(u)
  \/ \E s \in Seqs, c \in Choice : StepTimeout(s, c)

Spec == Init /\ [][Next]_vars

\* The loop serves the timers that are due.  Answers are not promised.
FairSpec ==
  Spec /\ WF_vars(\E s \in Seqs, c \in Choice : StepTimeout(s, c))
----------------------------------------------------------------------------
(* Properties                                                               *)

Live(s) == step[s].kind # "none"

\* What AddPreStepSeq promises: no step is destroyed while a request it is the
\* next step of is registered.  The predecessors of a step that are registered
\* are exactly its own unfinished requests, so an answer, however late, finds
\* its upper step (StepNode::Callback, DeleteCallback).
UpperOutlivesRequests ==
  /\ \A n \in Seqs : Live(n) /\ step[n].upper # 0 => Live(step[n].upper)
  /\ \A u \in Seqs : Live(u) =>
       {p \in step[u].pre : Live(p)} = {n \in Seqs : Live(n) /\ step[n].upper = u}

\* A StepState that no timer will wake again has already told its client the
\* outcome: DeleteCallback stops the clock only of a step that has finished.
ClockStopsAfterOutcome ==
  \A u \in Seqs : step[u].kind = "state" /\ step[u].timer = "far" =>
    out[u].succ + out[u].fail > 0

\* Every StepNode leaves the registry, answered or not: the retries and the
\* second route after a failed m_uiModFactor are both bounded.  (The flows
\* started being bounded, this says that the registry empties of requests.)
RequestsEnd == []<>(\A n \in Seqs : step[n].kind # "node")

\* Every launched StepState runs its success or its failure hook, even when
\* no peer ever answers.
OutcomeReached ==
  []<>(\A u \in Seqs : out[u].run => out[u].succ + out[u].fail > 0)

\* A flow never goes back behind the state function that ran last, whatever
\* retries, answers of an earlier try and answers of both tries resume it: what
\* a flow has done and passed it does not do again.  (StepState::Timeout goes
\* to m_uiState - 1, which is the state that ran last only if that state did
\* not choose its successor.)
NeverGoesBack ==
  [][\A u \in Seqs : step[u].kind = "state" /\ step'[u].kind = "state"
       => step'[u].last >= step[u].last]_vars

\* DelayTimeout puts the timeout of a step off: a step whose deletion was put
\* off is deleted in the end.
FlowsEnd == []<>(\A u \in Seqs : step[u].kind \notin {"state", "data"})
=============================================================================
