--------------------------- MODULE StepFlowProofs ---------------------------
(***************************************************************************)
(* For any state functions, chains of requests, retries and numbers of      *)
(* flows: a step outlives the requests it waits for (UpperOutlivesRequests), *)
(* and only a flow that has told its outcome loses its timer                 *)
(* (ClockStopsAfterOutcome).                                                *)
(*                                                                          *)
(* The handlers are functions on records, so the invariant is a predicate    *)
(* on records, and each operator a handler calls has a lemma that says what  *)
(* it leaves of it.  Between the moment StepNode::Callback takes its number   *)
(* out of the upper step's predecessors and its own deletion, the request x   *)
(* is registered and belongs to nobody: the invariant exempts it.            *)
(***************************************************************************)
EXTENDS StepFlow, TLAPS

StepRec ==
  [kind : {"none", "state", "data", "node"}, upper : 0 .. MaxSeq, pre : SUBSET Seqs,
   timer : {"armed", "far"}, fresh : BOOLEAN, st : Nat, last : Nat, next : Int, to : Nat,
   delay : BOOLEAN, chain : Nat, retry : BOOLEAN, mod : BOOLEAN]

Machine ==
  [step : [Seqs -> StepRec], seq : 0 .. MaxSeq, net : SUBSET Seqs, http : [Seqs -> Nat],
   out : [Seqs -> [run : BOOLEAN, succ : Nat, fail : Nat]]]

\* The registered steps.
Alive(m) == {s \in Seqs : m.step[s].kind # "none"}

\* What is registered has a number that was given out; only a request has an upper step,
\* which is a flow, and a request is nobody's upper step.
Numbered(m) ==
  /\ \A s \in Seqs : s > m.seq => m.step[s].kind = "none"
  /\ \A s \in Seqs : \A p \in m.step[s].pre : p <= m.seq
  /\ \A s \in Seqs : m.step[s].kind = "node" => m.step[s].pre = {}

\* UpperOutlivesRequests, but for the request x.
Linked(m, x) ==
  /\ \A n \in Alive(m) \ {x} : m.step[n].upper # 0 =>
       m.step[n].upper \in Alive(m) \ {x} /\ m.step[m.step[n].upper].kind # "node"
  /\ \A u \in Alive(m) \ {x} :
       m.step[u].pre \cap Alive(m) = {n \in Alive(m) \ {x} : m.step[n].upper = u}

\* Answers of a peer are for requests, those of an HTTP server for StepStates.
Addressed(m) ==
  /\ \A n \in m.net : n <= m.seq /\ m.step[n].kind \in {"none", "node"}
  /\ \A u \in Seqs : m.http[u] > 0 => u <= m.seq /\ m.step[u].kind \in {"none", "state"}

\* The success or the failure hook of u ran.
Told(m, u) == m.out[u].succ + m.out[u].fail > 0

Clocked(m) ==
  \A u \in Seqs : m.step[u].kind = "state" /\ m.step[u].timer = "far" => Told(m, u)

Good(m, x) == m \in Machine /\ Numbered(m) /\ Linked(m, x) /\ Addressed(m) /\ Clocked(m)

IInv == Good(State, 0)
-----------------------------------------------------------------------------
(* Changes that leave the ties between steps alone. *)

\* The parts of a machine.
LEMMA MachineFacts ==
  ASSUME NEW m \in Machine
  PROVE  /\ m.step \in [Seqs -> StepRec] /\ m.seq \in 0 .. MaxSeq /\ m.net \subseteq Seqs
         /\ m.http \in [Seqs -> Nat] /\ m.out \in [Seqs -> [run : BOOLEAN, succ : Nat, fail : Nat]]
BY Zenon DEF Machine

\* A change of fields that tie no step to another.
LEMMA TiesKept ==
  ASSUME NEW m, NEW x, Good(m, x), NEW y \in Machine, y.seq = m.seq, Addressed(y), Clocked(y),
         \A s \in Seqs : /\ y.step[s].kind = m.step[s].kind
                         /\ y.step[s].upper = m.step[s].upper
                         /\ y.step[s].pre = m.step[s].pre
  PROVE  Good(y, x)
<1>1. Alive(y) = Alive(m)
  BY Zenon DEF Alive
<1>2. Numbered(y)
  BY Zenon DEF Good, Numbered
<1>3. Linked(y, x)
  BY <1>1 DEF Good, Linked, Alive
<1> QED BY Zenon, <1>2, <1>3 DEF Good

-----------------------------------------------------------------------------
(* The registry. *)

\* DeleteCallback of a step that is not the exempt one: put off, or deleted.  A flow has
\* told its outcome before.
LEMMA DeleteCallbackGood ==
  ASSUME NEW m, NEW x, Good(m, x), NEW s \in Alive(m), s # x,
         m.step[s].kind = "state" => Told(m, s)
  PROVE  /\ Good(DeleteCallback(m, s), x)
         /\ DeleteCallback(m, s).seq = m.seq
         /\ \A n \in Seqs : n # s => DeleteCallback(m, s).step[n] = m.step[n]
<1> DEFINE running == {p \in m.step[s].pre : IsRegistered(m, p)}
           y == DeleteCallback(m, s)
<1>1. /\ m \in Machine /\ m.step \in [Seqs -> StepRec] /\ s \in Seqs /\ m.step[s] \in StepRec
      /\ m.step[s].pre \subseteq Seqs
  BY Zenon DEF Good, Machine, Alive, StepRec
<1>2. CASE running # {}
  <2> DEFINE pre == {p \in m.step[s].pre : \E q \in running : q <= p}
             r == [m.step[s] EXCEPT !.pre = pre, !.timer = "far"]
  <2>1. y = [m EXCEPT !.step[s] = r]
    <3>1. y = ResetTimeout([m EXCEPT !.step[s].pre = pre], s)
      BY Zenon, <1>2 DEF DeleteCallback
    <3>2. m.step[s] = [f \in {"kind", "upper", "pre", "timer", "fresh", "st", "last", "next", "to",
                             "delay", "chain", "retry", "mod"} |-> m.step[s][f]]
      BY Zenon, <1>1 DEF StepRec
    <3> QED BY Zenon, <1>1, <3>1, <3>2 DEF ResetTimeout, Machine
  <2> HIDE DEF y
  <2>2. pre \subseteq m.step[s].pre /\ running \subseteq pre
    BY <1>1 DEF Seqs
  <2>3. /\ r \in StepRec /\ r.kind = m.step[s].kind /\ r.upper = m.step[s].upper /\ r.pre = pre
        /\ r.timer = "far"
    BY Zenon, <1>1, <2>2 DEF StepRec
  <2>4. /\ y \in Machine /\ y.seq = m.seq /\ y.net = m.net /\ y.http = m.http /\ y.out = m.out
        /\ y.step = [m.step EXCEPT ![s] = r]
    BY Zenon, <1>1, <2>1, <2>3 DEF Machine
  <2> HIDE DEF r, pre
  <2>5. \A n \in Seqs : /\ n # s => y.step[n] = m.step[n]
                        /\ y.step[n].kind = m.step[n].kind
                        /\ y.step[n].upper = m.step[n].upper
                        /\ y.step[n].pre \subseteq m.step[n].pre
    BY Zenon, <1>1, <2>2, <2>3, <2>4
  <2>6. Alive(y) = Alive(m)
    BY Zenon, <2>5 DEF Alive
  <2>7. \A u \in Seqs : y.step[u].pre \cap Alive(y) = m.step[u].pre \cap Alive(m)
    <3>1. running = m.step[s].pre \cap Alive(m)
      BY <1>1 DEF IsRegistered, Alive, Seqs
    <3>2. y.step[s].pre = pre
      BY Zenon, <1>1, <2>3, <2>4
    <3> QED BY Zenon, <2>2, <2>5, <2>6, <3>1, <3>2
  <2>8. Numbered(y)
    <3>1. Numbered(m)
      BY Zenon DEF Good
    <3> QED BY <2>4, <2>5, <3>1 DEF Numbered
  <2>9. Linked(y, x)
    <3>1. Linked(m, x)
      BY Zenon DEF Good
    <3>2. Alive(m) \subseteq Seqs
      BY Zenon DEF Alive
    <3> QED BY <2>5, <2>6, <2>7, <3>1, <3>2 DEF Linked
  <2>10. Addressed(y)
    BY Zenon, <1>1, <2>4, <2>5 DEF Good, Addressed, Machine
  <2>11. Clocked(y)
    <3>1. Clocked(m)
      BY Zenon DEF Good
    <3> QED BY Zenon, <2>4, <2>5, <3>1 DEF Clocked, Told
  <2> QED BY Zenon, <2>4, <2>5, <2>8, <2>9, <2>10, <2>11 DEF Good, y
<1>3. CASE running = {}
  <2>1. y = [m EXCEPT !.step[s] = NewStep]
    BY Zenon, <1>3 DEF DeleteCallback
  <2> HIDE DEF y
  <2>2. /\ NewStep \in StepRec /\ NewStep.kind = "none" /\ NewStep.pre = {}
    BY StepFlowAssumption DEF NewStep, StepRec
  <2>3. /\ y \in Machine /\ y.seq = m.seq /\ y.net = m.net /\ y.http = m.http /\ y.out = m.out
        /\ y.step = [m.step EXCEPT ![s] = NewStep]
    BY Zenon, <1>1, <2>1, <2>2 DEF Machine
  <2>4. /\ \A n \in Seqs : n # s => y.step[n] = m.step[n]
        /\ y.step[s].kind = "none" /\ y.step[s].pre = {}
    BY Zenon, <1>1, <2>2, <2>3
  <2>5. Alive(y) = Alive(m) \ {s}
    BY Zenon, <2>4 DEF Alive
  <2>6. Numbered(y)
    <3>1. Numbered(m)
      BY Zenon DEF Good
    <3> QED BY Zenon, <2>3, <2>4, <3>1 DEF Numbered
  <2>7. Linked(y, x)
    <3>1. Linked(m, x)
      BY Zenon DEF Good
    <3>2. Alive(m) \subseteq Seqs
      BY Zenon DEF Alive
    <3>3. running = m.step[s].pre \cap Alive(m)
      BY <1>1 DEF IsRegistered, Alive, Seqs
    <3>4. \A n \in Alive(m) \ {x} : m.step[n].upper # s
      BY <1>3, <3>1, <3>3 DEF Linked
    <3>5. \A n \in Alive(y) \ {x} : y.step[n].upper # 0 =>
            y.step[n].upper \in Alive(y) \ {x} /\ y.step[y.step[n].upper].kind # "node"
      BY Zenon, <2>4, <2>5, <3>1, <3>2, <3>4 DEF Linked
    <3>6. \A u \in Alive(y) \ {x} :
            y.step[u].pre \cap Alive(y) = {n \in Alive(y) \ {x} : y.step[n].upper = u}
      BY <2>4, <2>5, <3>1, <3>2 DEF Linked
    <3> QED BY Zenon, <3>5, <3>6 DEF Linked
  <2>8. Addressed(y)
    <3>1. Addressed(m)
      BY Zenon DEF Good
    <3> QED BY Zenon, <1>1, <2>3, <2>4, <3>1 DEF Addressed, Machine
  <2>9. Clocked(y)
    <3>1. Clocked(m)
      BY Zenon DEF Good
    <3> QED BY Zenon, <2>3, <2>4, <3>1 DEF Clocked, Told
  <2> QED BY Zenon, <2>3, <2>4, <2>6, <2>7, <2>8, <2>9 DEF Good, y
<1> QED BY Zenon, <1>2, <1>3

\* The end of the request that is exempt: it has no predecessors, so it is deleted.
LEMMA DeleteExemptGood ==
  ASSUME NEW m, NEW x \in Seqs, Good(m, x), m.step[x].kind = "node"
  PROVE  Good(DeleteCallback(m, x), 0)
<1> DEFINE y == DeleteCallback(m, x)
<1>1. /\ m \in Machine /\ m.step \in [Seqs -> StepRec] /\ m.step[x].pre = {} /\ 0 \notin Seqs
  BY DEF Good, Machine, Numbered, Seqs
<1>2. y = [m EXCEPT !.step[x] = NewStep]
  BY Zenon, <1>1 DEF DeleteCallback
<1> HIDE DEF y
<1>3. /\ NewStep \in StepRec /\ NewStep.kind = "none" /\ NewStep.pre = {}
  BY StepFlowAssumption DEF NewStep, StepRec
<1>4. /\ y \in Machine /\ y.seq = m.seq /\ y.net = m.net /\ y.http = m.http /\ y.out = m.out
      /\ y.step = [m.step EXCEPT ![x] = NewStep]
  BY Zenon, <1>1, <1>2, <1>3 DEF Machine
<1>5. /\ \A n \in Seqs : n # x => y.step[n] = m.step[n]
      /\ y.step[x].kind = "none" /\ y.step[x].pre = {}
  BY Zenon, <1>1, <1>3, <1>4
<1>6. Alive(y) = Alive(m) \ {x} /\ Alive(m) \subseteq Seqs /\ Alive(y) \ {0} = Alive(y)
  BY Zenon, <1>1, <1>5 DEF Alive
<1>7. Numbered(y)
  <2>1. Numbered(m)
    BY Zenon DEF Good
  <2> QED BY Zenon, <1>4, <1>5, <2>1 DEF Numbered
<1>8. Linked(y, 0)
  <2>1. Linked(m, x)
    BY Zenon DEF Good
  <2>2. \A n \in Alive(y) : y.step[n].upper # 0 =>
          y.step[n].upper \in Alive(y) /\ y.step[y.step[n].upper].kind # "node"
    BY Zenon, <1>5, <1>6, <2>1 DEF Linked
  <2>3. \A u \in Alive(y) :
          y.step[u].pre \cap Alive(y) = {n \in Alive(y) : y.step[n].upper = u}
    BY <1>5, <1>6, <2>1 DEF Linked
  <2> QED BY Zenon, <1>6, <2>2, <2>3 DEF Linked
<1>9. Addressed(y)
  <2>1. Addressed(m)
    BY Zenon DEF Good
  <2> QED BY Zenon, <1>1, <1>4, <1>5, <2>1 DEF Addressed, Machine
<1>10. Clocked(y)
  <2>1. Clocked(m)
    BY Zenon DEF Good
  <2> QED BY Zenon, <1>4, <1>5, <2>1 DEF Clocked, Told
<1> QED BY Zenon, <1>4, <1>7, <1>8, <1>9, <1>10 DEF Good, y

\* A new flow, which nobody waits for.
LEMMA RegisterFlow ==
  ASSUME NEW m, Good(m, 0), m.seq + 1 <= MaxSeq, NEW r \in StepRec,
         r.kind \in {"state", "data"}, r.upper = 0, r.pre = {}, r.timer = "armed"
  PROVE  /\ Good(RegisterCallback(m, r), 0)
         /\ RegisterCallback(m, r).seq = m.seq + 1
         /\ RegisterCallback(m, r).step[m.seq + 1] = r
<1> DEFINE y == RegisterCallback(m, r)
           n == m.seq + 1
<1>1. /\ m \in Machine /\ m.step \in [Seqs -> StepRec] /\ m.seq \in Nat /\ n \in Seqs 
      /\ n \in 0 .. MaxSeq /\ m.net \subseteq Seqs /\ m.http \in [Seqs -> Nat]
  <2>1. m \in Machine
    BY Zenon DEF Good
  <2>2. MaxSeq \in Nat /\ m.seq \in 0 .. MaxSeq
    BY Zenon, <2>1, StepFlowAssumption, MachineFacts
  <2>3. n \in 1 .. MaxSeq /\ n \in 0 .. MaxSeq /\ m.seq \in Nat
    BY <2>2
  <2> QED BY Zenon, <2>1, <2>3, MachineFacts DEF Seqs
<1>2. /\ y \in Machine /\ y.seq = n /\ y.net = m.net /\ y.http = m.http /\ y.out = m.out
      /\ y.step = [m.step EXCEPT ![n] = r]
  BY Zenon, <1>1 DEF Machine, RegisterCallback
<1> HIDE DEF y
<1>3. /\ \A k \in Seqs : k # n => y.step[k] = m.step[k]
      /\ y.step[n] = r
  BY Zenon, <1>1, <1>2
<1>4. m.step[n].kind = "none" /\ \A k \in Seqs : n \notin m.step[k].pre
  BY <1>1 DEF Good, Numbered
<1>5. Alive(y) = Alive(m) \cup {n} /\ Alive(m) \subseteq Seqs /\ n \notin Alive(m)
      /\ Alive(m) \ {0} = Alive(m) /\ Alive(y) \ {0} = Alive(y)
  BY <1>1, <1>3, <1>4 DEF Alive, Seqs
<1>6. Numbered(y)
  <2>1. Numbered(m)
    BY Zenon DEF Good
  <2>2. \A k \in Seqs : k \in Nat
    BY DEF Seqs
  <2>3. \A k \in Seqs : m.step[k].pre \subseteq Seqs
    BY Zenon, <1>1 DEF StepRec
  <2> HIDE DEF n
  <2>4. \A k, q \in Nat : (k > n => k > m.seq) /\ (q <= m.seq => q <= n)
    BY <1>1 DEF n
  <2>5. ~ (n > n)
    BY <1>1, <2>2
  <2>6. ASSUME NEW k \in Seqs
        PROVE  /\ k > y.seq => y.step[k].kind = "none"
               /\ \A p \in y.step[k].pre : p <= y.seq
               /\ y.step[k].kind = "node" => y.step[k].pre = {}
    <3>1. CASE k = n
      BY Zenon, <1>2, <1>3, <2>5, <3>1
    <3>2. CASE k # n
      <4>1. y.step[k] = m.step[k]
        BY Zenon, <1>3, <3>2
      <4> QED BY Zenon, <1>2, <2>1, <2>2, <2>3, <2>4, <4>1 DEF Numbered
    <3> QED BY Zenon, <3>1, <3>2
  <2> QED BY Zenon, <2>6 DEF Numbered
<1>7. Linked(y, 0)
  <2>1. Linked(m, 0)
    BY Zenon DEF Good
  <2>2. \A k \in Alive(y) : y.step[k].upper # 0 =>
          y.step[k].upper \in Alive(y) /\ y.step[y.step[k].upper].kind # "node"
    BY <1>3, <1>5, <2>1 DEF Linked
  <2>3. \A k \in Alive(y) : y.step[k].upper # n
    <3>1. n # 0
      BY <1>1
    <3>2. \A k \in Alive(m) : m.step[k].upper # n
      BY <1>5, <2>1, <3>1 DEF Linked
    <3> QED BY Zenon, <1>3, <1>5, <3>1, <3>2
  <2>4. \A u \in Alive(y) :
          y.step[u].pre \cap Alive(y) = {k \in Alive(y) : y.step[k].upper = u}
    BY <1>3, <1>4, <1>5, <2>1, <2>3 DEF Linked
  <2> QED BY Zenon, <1>5, <2>2, <2>4 DEF Linked
<1>8. Addressed(y)
  <2>1. Addressed(m)
    BY Zenon DEF Good
  <2> QED BY <1>1, <1>2, <1>3, <2>1 DEF Addressed, Seqs
<1>9. Clocked(y)
  <2>1. Clocked(m)
    BY Zenon DEF Good
  <2> QED BY Zenon, <1>2, <1>3, <2>1 DEF Clocked, Told
<1> QED BY Zenon, <1>2, <1>3, <1>6, <1>7, <1>8, <1>9 DEF Good, y

\* A new request of the flow u, or of none: it is registered and made a predecessor of u.
Requested(m, u, r) ==
  LET m1 == RegisterCallback(m, r)
  IN  IF u = 0 THEN m1 ELSE [m1 EXCEPT !.step[u].pre = @ \cup {m.seq + 1}]

\* The flow u may make a request, while x is exempt.
MaySend(m, x, u) ==
  /\ m.seq + 1 <= MaxSeq /\ x \in 0 .. m.seq
  /\ u = 0 \/ (u \in Alive(m) \ {x} /\ m.step[u].kind # "node")

LEMMA RequestedGood ==
  ASSUME NEW m, NEW x, Good(m, x), NEW u, MaySend(m, x, u), NEW r \in StepRec,
         r.kind = "node", r.upper = u, r.pre = {}
  PROVE  LET n == m.seq + 1
             y == Requested(m, u, r)
         IN  /\ Good(y, x) /\ y.seq = n /\ n \in Seqs \ {x, u}
             /\ y.net = m.net /\ y.out = m.out /\ y.http = m.http
             /\ \A s \in Seqs : s # n => y.step[s].kind = m.step[s].kind
             /\ \A s \in Seqs : s \notin {n, u} => y.step[s] = m.step[s]
             /\ y.step[n] = r
<1> DEFINE n == m.seq + 1
           y == Requested(m, u, r)
<1>1. /\ m \in Machine /\ m.step \in [Seqs -> StepRec] /\ m.seq \in Nat /\ n \in Seqs /\ n \in 0 .. MaxSeq
      /\ n # x /\ n # 0 /\ m.net \subseteq Seqs /\ m.http \in [Seqs -> Nat] /\ m.seq \in 0 .. MaxSeq
  <2>1. m \in Machine
    BY Zenon DEF Good
  <2>2. MaxSeq \in Nat /\ m.seq \in 0 .. MaxSeq /\ n <= MaxSeq /\ x \in 0 .. m.seq
    BY Zenon, <2>1, StepFlowAssumption, MachineFacts DEF MaySend
  <2>3. n \in 1 .. MaxSeq /\ n \in 0 .. MaxSeq /\ m.seq \in Nat /\ n # x /\ n # 0
    BY <2>2
  <2> QED BY Zenon, <2>1, <2>2, <2>3, MachineFacts DEF Seqs
<1>2. m.step[n].kind = "none" /\ \A k \in Seqs : n \notin m.step[k].pre
  BY <1>1 DEF Good, Numbered
<1>3. u = 0 \/ (u \in Seqs /\ u \in Alive(m) \ {x} /\ m.step[u].kind \in {"state", "data"} /\ u # n)
  BY Zenon, <1>1, <1>2 DEF MaySend, Alive, StepRec
<1>4. /\ y \in Machine /\ y.seq = n /\ y.net = m.net /\ y.http = m.http /\ y.out = m.out
      /\ y.step[n] = r
      /\ \A s \in Seqs : s \notin {n, u} => y.step[s] = m.step[s]
      /\ u # 0 => y.step[u] = [m.step[u] EXCEPT !.pre = @ \cup {n}]
  <2> DEFINE m1 == RegisterCallback(m, r)
  <2>1. /\ m1 \in Machine /\ m1.seq = n /\ m1.net = m.net /\ m1.http = m.http /\ m1.out = m.out
        /\ m1.step = [m.step EXCEPT ![n] = r]
    BY Zenon, <1>1 DEF Machine, RegisterCallback
  <2>2. m1.step \in [Seqs -> StepRec] /\ m1.step[n] = r /\ \A s \in Seqs : s # n => m1.step[s] = m.step[s]
    BY Zenon, <1>1, <2>1
  <2>3. CASE u = 0
    BY Zenon, <2>1, <2>2, <2>3 DEF Requested
  <2>4. CASE u # 0
    <3> DEFINE ru == [m.step[u] EXCEPT !.pre = @ \cup {n}]
    <3>1. u \in Seqs /\ m1.step[u] = m.step[u] /\ m.step[u] \in StepRec
      BY Zenon, <1>1, <1>3, <2>2, <2>4
    <3>2. ru \in StepRec
      BY <1>1, <3>1 DEF StepRec
    <3>3. y = [m1 EXCEPT !.step[u].pre = @ \cup {n}]
      BY Zenon, <2>4 DEF Requested
    <3> HIDE DEF m1, y
    <3>4. y = [m1 EXCEPT !.step[u] = ru]
      BY Zenon, <3>1, <3>3
    <3> HIDE DEF ru
    <3>5. /\ y \in Machine /\ y.seq = n /\ y.net = m.net /\ y.http = m.http /\ y.out = m.out
          /\ y.step = [m1.step EXCEPT ![u] = ru]
      BY Zenon, <2>1, <3>1, <3>2, <3>4 DEF Machine
    <3>6. y.step[u] = ru /\ \A s \in Seqs : s # u => y.step[s] = m1.step[s]
      BY Zenon, <2>2, <3>1, <3>5
    <3>7. y.step[u] = [m.step[u] EXCEPT !.pre = @ \cup {n}]
      BY Zenon, <3>6 DEF ru
    <3> QED BY <1>1, <1>3, <2>2, <2>4, <3>5, <3>6, <3>7
  <2> QED BY Zenon, <2>3, <2>4
<1> HIDE DEF y
<1>5. u # 0 => /\ y.step[u].kind = m.step[u].kind /\ y.step[u].upper = m.step[u].upper
               /\ y.step[u].pre = m.step[u].pre \cup {n} /\ y.step[u].timer = m.step[u].timer
  BY <1>1, <1>3, <1>4 DEF StepRec
<1>6. \A s \in Seqs \ {n} : /\ y.step[s].kind = m.step[s].kind /\ y.step[s].upper = m.step[s].upper
                            /\ y.step[s].timer = m.step[s].timer
                            /\ y.step[s].pre = IF s = u THEN m.step[s].pre \cup {n} ELSE m.step[s].pre
  <2>1. 0 \notin Seqs
    BY DEF Seqs
  <2> QED BY Zenon, <1>4, <1>5, <2>1
<1> HIDE DEF n
<1>7. Alive(y) = Alive(m) \cup {n} /\ n \notin Alive(m) /\ Alive(m) \subseteq Seqs
  <2>1. y.step[n].kind # "none" /\ m.step[n].kind = "none" /\ n \in Seqs
    BY Zenon, <1>1, <1>2, <1>4
  <2>2. \A s \in Seqs : s # n => y.step[s].kind = m.step[s].kind
    BY Zenon, <1>6
  <2> QED BY Zenon, <2>1, <2>2 DEF Alive
<1>8. Numbered(y)
  <2>1. Numbered(m)
    BY Zenon DEF Good
  <2>2. \A k \in Seqs : k \in Nat
    BY DEF Seqs
  <2>3. \A k \in Seqs : m.step[k].pre \subseteq Seqs
    BY Zenon, <1>1 DEF StepRec
  <2>4. \A k, q \in Nat : (k > n => k > m.seq) /\ (q <= m.seq => q <= n)
    BY <1>1 DEF n
  <2>5. ~ (n > n) /\ n <= n
    BY <1>1, <2>2
  <2>6. ASSUME NEW k \in Seqs
        PROVE  /\ k > y.seq => y.step[k].kind = "none"
               /\ \A p \in y.step[k].pre : p <= y.seq
               /\ y.step[k].kind = "node" => y.step[k].pre = {}
    <3>1. CASE k = n
      BY Zenon, <1>4, <2>5, <3>1
    <3>2. CASE k # n
      <4>1. /\ k > y.seq => y.step[k].kind = "none"
            /\ \A p \in m.step[k].pre : p <= y.seq
            /\ m.step[k].kind = "node" => m.step[k].pre = {}
        <5>1. k > n => k > m.seq
          BY Zenon, <2>2, <2>4
        <5>2. y.step[k].kind = m.step[k].kind /\ y.seq = n
          BY Zenon, <1>4, <1>6, <3>2
        <5>3. \A p \in m.step[k].pre : p <= n
          BY Zenon, <2>1, <2>2, <2>3, <2>4 DEF Numbered
        <5> QED BY Zenon, <2>1, <5>1, <5>2, <5>3 DEF Numbered
      <4>2. /\ y.step[k].kind = m.step[k].kind /\ y.seq = n
            /\ y.step[k].pre = IF k = u THEN m.step[k].pre \cup {n} ELSE m.step[k].pre
        BY Zenon, <1>4, <1>6, <3>2
      <4>3. k = u => m.step[k].kind # "node"
        BY <1>3 DEF Seqs
      <4> QED BY Zenon, <2>5, <4>1, <4>2, <4>3
    <3> QED BY Zenon, <3>1, <3>2
  <2> QED BY Zenon, <2>6 DEF Numbered
<1>9. Linked(y, x)
  <2>1. Linked(m, x)
    BY Zenon DEF Good
  <2>2. \A k \in Alive(y) \ {x} : y.step[k].upper # 0 =>
          y.step[k].upper \in Alive(y) \ {x} /\ y.step[y.step[k].upper].kind # "node"
    <3> SUFFICES ASSUME NEW k \in Alive(y) \ {x}, y.step[k].upper # 0
                 PROVE  y.step[k].upper \in Alive(y) \ {x} /\ y.step[y.step[k].upper].kind # "node"
      BY Zenon
    <3>1. CASE k = n
      <4>1. y.step[k].upper = u
        BY Zenon, <1>4, <3>1
      <4> QED BY Zenon, <1>3, <1>5, <1>7, <4>1
    <3>2. CASE k # n
      <4>1. k \in Alive(m) \ {x} /\ y.step[k].upper = m.step[k].upper
        BY Zenon, <1>6, <1>7, <3>2
      <4>2. m.step[k].upper \in Alive(m) \ {x} /\ m.step[m.step[k].upper].kind # "node"
        BY Zenon, <2>1, <4>1 DEF Linked
      <4>3. PICK v : v = m.step[k].upper
        BY Zenon
      <4>4. v \in Alive(m) /\ v \in Alive(y) /\ v # x /\ v \in Seqs \ {n} /\ m.step[v].kind # "node"
        BY Zenon, <1>7, <4>2, <4>3
      <4>5. y.step[v].kind = m.step[v].kind
        BY Zenon, <1>6, <4>4
      <4> QED BY Zenon, <4>1, <4>3, <4>4, <4>5
    <3> QED BY Zenon, <3>1, <3>2
  <2>3. ASSUME NEW v \in Alive(y) \ {x}
        PROVE  y.step[v].pre \cap Alive(y) = {k \in Alive(y) \ {x} : y.step[k].upper = v}
    <3>1. \A k \in Alive(m) \ {x} : y.step[k].upper = m.step[k].upper
      BY Zenon, <1>6, <1>7
    <3>2. y.step[n].upper = u /\ n \in Alive(y) \ {x}
      BY Zenon, <1>1, <1>4, <1>7
    <3>3. CASE v = n
      <4>1. y.step[v].pre = {}
        BY Zenon, <1>4, <3>3
      <4>2. \A k \in Alive(m) \ {x} : m.step[k].upper # n
        BY Zenon, <1>1, <1>7, <2>1 DEF Linked
      <4> QED BY Zenon, <1>3, <1>7, <3>1, <3>2, <3>3, <4>1, <4>2, <1>1
    <3>4. CASE v # n
      <4>1. v \in Alive(m) \ {x}
        BY Zenon, <1>7, <3>4
      <4>2. m.step[v].pre \cap Alive(m) = {k \in Alive(m) \ {x} : m.step[k].upper = v}
        BY Zenon, <2>1, <4>1 DEF Linked
      <4>3. y.step[v].pre = (IF v = u THEN m.step[v].pre \cup {n} ELSE m.step[v].pre) /\ n \notin m.step[v].pre
        BY Zenon, <1>2, <1>6, <1>7, <4>1, <3>4
      <4> QED BY Zenon, <1>7, <3>1, <3>2, <4>2, <4>3
    <3> QED BY Zenon, <3>3, <3>4
  <2> QED BY Zenon, <2>2, <2>3 DEF Linked
<1>10. Addressed(y)
  <2>1. Addressed(m)
    BY Zenon DEF Good
  <2>2. \A k \in Nat : k <= m.seq => k <= n /\ k # n
    BY <1>1 DEF n
  <2>3. Seqs \subseteq Nat
    BY DEF Seqs
  <2>4. \A k \in Seqs : k <= m.seq => k <= y.seq /\ y.step[k].kind = m.step[k].kind
    <3> SUFFICES ASSUME NEW k \in Seqs, k <= m.seq
                 PROVE  k <= y.seq /\ y.step[k].kind = m.step[k].kind
      BY Zenon
    <3>1. k <= n /\ k # n
      BY Zenon, <2>2, <2>3
    <3>2. y.seq = n
      BY Zenon, <1>4
    <3> QED BY Zenon, <1>6, <3>1, <3>2
  <2>5. y.net = m.net /\ y.http = m.http
    BY Zenon, <1>4
  <2> QED BY Zenon, <1>1, <2>1, <2>4, <2>5 DEF Addressed
<1>11. Clocked(y)
  <2>1. Clocked(m)
    BY Zenon DEF Good
  <2>2. y.step[n].kind = "node" /\ y.out = m.out
    BY Zenon, <1>4
  <2> QED BY Zenon, <1>6, <2>1, <2>2 DEF Clocked, Told
<1> QED BY Zenon, <1>1, <1>3, <1>4, <1>6, <1>8, <1>9, <1>10, <1>11 DEF Good, y, n

\* The record of a new request.
NodeRec(u, a, b) == [NewStep EXCEPT !.kind = "node", !.upper = u, !.retry = a, !.mod = b]

LEMMA NewRequest ==
  ASSUME NEW u \in 0 .. MaxSeq, NEW a \in BOOLEAN, NEW b \in BOOLEAN
  PROVE  NodeRec(u, a, b) \in StepRec /\ NodeRec(u, a, b).kind = "node" /\ NodeRec(u, a, b).upper = u
         /\ NodeRec(u, a, b).pre = {}
<1>1. PICK r : r = NodeRec(u, a, b)
  BY Zenon
<1>2. r = [kind |-> "node", upper |-> u, pre |-> {}, timer |-> "armed", fresh |-> FALSE, st |-> 0,
           last |-> 0, next |-> -1, to |-> 0, delay |-> FALSE, chain |-> 0, retry |-> a, mod |-> b]
  BY Zenon, <1>1 DEF NewStep, NodeRec
<1>3. r \in StepRec /\ r.kind = "node" /\ r.upper = u /\ r.pre = {}
  BY <1>2 DEF StepRec
<1> QED BY Zenon, <1>1, <1>3

\* SendToCallback: the request is out, or deleted again.  The flow and all other steps
\* are as they were, but for the flow's predecessors.
LEMMA SendToCallbackGood ==
  ASSUME NEW m, NEW x, Good(m, x), NEW u, MaySend(m, x, u), NEW c \in Choice
  PROVE  LET n == m.seq + 1
             y == SendToCallback(m, u, c)
         IN  /\ Good(y, x) /\ y.seq = n /\ y.out = m.out
             /\ \A s \in Seqs : s # n => y.step[s].kind = m.step[s].kind
             /\ \A s \in Seqs : s \notin {n, u} => y.step[s] = m.step[s]
<1> DEFINE n == m.seq + 1
           y == SendToCallback(m, u, c)
           r == NodeRec(u, c.retry, c.mod)
           m2 == Requested(m, u, r)
<1>1. u \in 0 .. MaxSeq
  BY StepFlowAssumption DEF MaySend, Alive, Seqs
<1>2. r \in StepRec /\ r.kind = "node" /\ r.upper = u /\ r.pre = {}
  <2>1. c.retry \in BOOLEAN /\ c.mod \in BOOLEAN
    BY Zenon, StepFlowAssumption DEF Choice
  <2> QED BY <1>1, <2>1, NewRequest
<1>3. y = IF c.ok THEN NodeEmit(m2, n) ELSE DeleteCallback(m2, n)
  BY Zenon DEF SendToCallback, Requested, NodeRec
<1> HIDE DEF r, y
<1>4. /\ Good(m2, x) /\ m2.seq = n /\ n \in Seqs \ {x, u}
      /\ m2.net = m.net /\ m2.out = m.out /\ m2.http = m.http
      /\ \A s \in Seqs : s # n => m2.step[s].kind = m.step[s].kind
      /\ \A s \in Seqs : s \notin {n, u} => m2.step[s] = m.step[s]
      /\ m2.step[n] = r
  BY <1>2, RequestedGood
<1> HIDE DEF m2, n
<1>5. CASE c.ok
  <2>0. m2 \in Machine
    BY Zenon, <1>4 DEF Good
  <2>1. y = [m2 EXCEPT !.net = @ \cup {n}]
    BY Zenon, <1>3, <1>5 DEF NodeEmit
  <2>2. /\ y \in Machine /\ y.seq = n /\ y.net = m2.net \cup {n} /\ y.out = m2.out /\ y.http = m2.http
        /\ y.step = m2.step
    BY Zenon, <1>4, <2>0, <2>1 DEF Machine
  <2>3. Addressed(y)
    <3>1. Addressed(m2)
      BY Zenon, <1>4 DEF Good
    <3>2. n <= y.seq /\ y.step[n].kind = "node"
      BY <1>2, <1>4, <2>2 DEF Seqs
    <3> QED BY Zenon, <1>4, <2>2, <3>1, <3>2 DEF Addressed
  <2>4. Clocked(y)
    BY Zenon, <1>4, <2>2 DEF Good, Clocked, Told
  <2>5. Good(y, x)
    BY Zenon, <1>4, <2>2, <2>3, <2>4, TiesKept
  <2> QED BY Zenon, <1>4, <2>2, <2>5 DEF y, n
<1>6. CASE ~ c.ok
  <2>1. y = DeleteCallback(m2, n)
    BY Zenon, <1>3, <1>6
  <2>2. n \in Alive(m2) /\ m2.step[n].kind = "node" /\ n # x
    BY Zenon, <1>2, <1>4 DEF Alive
  <2>3. /\ Good(y, x) /\ y.seq = m2.seq /\ \A s \in Seqs : s # n => y.step[s] = m2.step[s]
    BY <1>4, <2>1, <2>2, DeleteCallbackGood
  <2>4. y.out = m2.out
    <3>1. m2 \in Machine
      BY Zenon, <1>4 DEF Good
    <3> QED BY Zenon, <2>1, <3>1 DEF DeleteCallback, ResetTimeout, Machine
  <2> QED BY Zenon, <1>4, <2>3, <2>4 DEF y, n
<1> QED BY Zenon, <1>5, <1>6

-----------------------------------------------------------------------------
(* The flows. *)

\* Of all that is registered and pending, y differs from m only in fields of the step u
\* that tie it to no other step and to no timer.
Tuning(m, y, u) ==
  /\ y \in Machine /\ y.seq = m.seq /\ y.net = m.net /\ y.http = m.http /\ y.out = m.out
  /\ \A s \in Seqs : s # u => y.step[s] = m.step[s]
  /\ y.step[u].kind = m.step[u].kind /\ y.step[u].upper = m.step[u].upper
  /\ y.step[u].pre = m.step[u].pre /\ y.step[u].timer = m.step[u].timer

LEMMA TuningGood ==
  ASSUME NEW m, NEW x, Good(m, x), NEW u \in Seqs, NEW y, Tuning(m, y, u)
  PROVE  Good(y, x) /\ Alive(y) = Alive(m)
<1>1. m \in Machine
  BY Zenon DEF Good
<1>2. /\ y \in Machine /\ y.seq = m.seq /\ y.net = m.net /\ y.http = m.http /\ y.out = m.out
      /\ \A s \in Seqs : /\ y.step[s].kind = m.step[s].kind
                         /\ y.step[s].upper = m.step[s].upper
                         /\ y.step[s].pre = m.step[s].pre
                         /\ y.step[s].timer = m.step[s].timer
  BY Zenon DEF Tuning
<1>3. Addressed(y)
  BY Zenon, <1>1, <1>2 DEF Good, Addressed, Machine
<1>4. Clocked(y)
  BY Zenon, <1>2 DEF Good, Clocked, Told
<1> QED BY <1>2, <1>3, <1>4, TiesKept DEF Alive

LEMMA SetRecord ==
  ASSUME NEW m \in Machine, NEW u \in Seqs, NEW r \in StepRec,
         r.kind = m.step[u].kind, r.upper = m.step[u].upper, r.pre = m.step[u].pre,
         r.timer = m.step[u].timer
  PROVE  Tuning(m, [m EXCEPT !.step[u] = r], u)
<1> DEFINE y == [m EXCEPT !.step[u] = r]
<1>1. /\ y \in Machine /\ y.seq = m.seq /\ y.net = m.net /\ y.http = m.http /\ y.out = m.out
      /\ y.step = [m.step EXCEPT ![u] = r] /\ m.step \in [Seqs -> StepRec]
  BY Zenon DEF Machine
<1> HIDE DEF y
<1>2. y.step[u] = r /\ \A s \in Seqs : s # u => y.step[s] = m.step[s]
  BY Zenon, <1>1
<1>3. Tuning(m, y, u)
  BY Zenon, <1>1, <1>2 DEF Tuning
<1> QED BY Zenon, <1>3 DEF y

LEMMA TuningTwice ==
  ASSUME NEW m, NEW u, NEW y, NEW z, Tuning(m, y, u), Tuning(y, z, u)
  PROVE  Tuning(m, z, u)
BY Zenon DEF Tuning

\* The fields a handler sets one by one.
LEMMA SetSt ==
  ASSUME NEW m \in Machine, NEW u \in Seqs, NEW k \in Nat
  PROVE  Tuning(m, [m EXCEPT !.step[u].st = k], u)
<1> DEFINE r == [m.step[u] EXCEPT !.st = k]
<1>1. m.step[u] \in StepRec
  BY Zenon DEF Machine
<1>2. /\ r \in StepRec /\ r.kind = m.step[u].kind /\ r.upper = m.step[u].upper
      /\ r.pre = m.step[u].pre /\ r.timer = m.step[u].timer
  BY Zenon, <1>1 DEF StepRec
<1>3. [m EXCEPT !.step[u].st = k] = [m EXCEPT !.step[u] = r]
  BY Zenon
<1> QED BY Zenon, <1>2, <1>3, SetRecord

LEMMA SetLast ==
  ASSUME NEW m \in Machine, NEW u \in Seqs, NEW k \in Nat
  PROVE  Tuning(m, [m EXCEPT !.step[u].last = k], u)
<1> DEFINE r == [m.step[u] EXCEPT !.last = k]
<1>1. m.step[u] \in StepRec
  BY Zenon DEF Machine
<1>2. /\ r \in StepRec /\ r.kind = m.step[u].kind /\ r.upper = m.step[u].upper
      /\ r.pre = m.step[u].pre /\ r.timer = m.step[u].timer
  BY Zenon, <1>1 DEF StepRec
<1>3. [m EXCEPT !.step[u].last = k] = [m EXCEPT !.step[u] = r]
  BY Zenon
<1> QED BY Zenon, <1>2, <1>3, SetRecord

LEMMA SetNext ==
  ASSUME NEW m \in Machine, NEW u \in Seqs, NEW k \in Int
  PROVE  Tuning(m, [m EXCEPT !.step[u].next = k], u)
<1> DEFINE r == [m.step[u] EXCEPT !.next = k]
<1>1. m.step[u] \in StepRec
  BY Zenon DEF Machine
<1>2. /\ r \in StepRec /\ r.kind = m.step[u].kind /\ r.upper = m.step[u].upper
      /\ r.pre = m.step[u].pre /\ r.timer = m.step[u].timer
  BY Zenon, <1>1 DEF StepRec
<1>3. [m EXCEPT !.step[u].next = k] = [m EXCEPT !.step[u] = r]
  BY Zenon
<1> QED BY Zenon, <1>2, <1>3, SetRecord

LEMMA SetTo ==
  ASSUME NEW m \in Machine, NEW u \in Seqs, NEW k \in Nat
  PROVE  Tuning(m, [m EXCEPT !.step[u].to = k], u)
<1> DEFINE r == [m.step[u] EXCEPT !.to = k]
<1>1. m.step[u] \in StepRec
  BY Zenon DEF Machine
<1>2. /\ r \in StepRec /\ r.kind = m.step[u].kind /\ r.upper = m.step[u].upper
      /\ r.pre = m.step[u].pre /\ r.timer = m.step[u].timer
  BY Zenon, <1>1 DEF StepRec
<1>3. [m EXCEPT !.step[u].to = k] = [m EXCEPT !.step[u] = r]
  BY Zenon
<1> QED BY Zenon, <1>2, <1>3, SetRecord

LEMMA SetDelay ==
  ASSUME NEW m \in Machine, NEW u \in Seqs, NEW k \in BOOLEAN
  PROVE  Tuning(m, [m EXCEPT !.step[u].delay = k], u)
<1> DEFINE r == [m.step[u] EXCEPT !.delay = k]
<1>1. m.step[u] \in StepRec
  BY Zenon DEF Machine
<1>2. /\ r \in StepRec /\ r.kind = m.step[u].kind /\ r.upper = m.step[u].upper
      /\ r.pre = m.step[u].pre /\ r.timer = m.step[u].timer
  BY Zenon, <1>1 DEF StepRec
<1>3. [m EXCEPT !.step[u].delay = k] = [m EXCEPT !.step[u] = r]
  BY Zenon
<1> QED BY Zenon, <1>2, <1>3, SetRecord

LEMMA SetChain ==
  ASSUME NEW m \in Machine, NEW u \in Seqs, NEW k \in Nat
  PROVE  Tuning(m, [m EXCEPT !.step[u].chain = k], u)
<1> DEFINE r == [m.step[u] EXCEPT !.chain = k]
<1>1. m.step[u] \in StepRec
  BY Zenon DEF Machine
<1>2. /\ r \in StepRec /\ r.kind = m.step[u].kind /\ r.upper = m.step[u].upper
      /\ r.pre = m.step[u].pre /\ r.timer = m.step[u].timer
  BY Zenon, <1>1 DEF StepRec
<1>3. [m EXCEPT !.step[u].chain = k] = [m EXCEPT !.step[u] = r]
  BY Zenon
<1> QED BY Zenon, <1>2, <1>3, SetRecord

LEMMA SetMod ==
  ASSUME NEW m \in Machine, NEW u \in Seqs, NEW k \in BOOLEAN
  PROVE  Tuning(m, [m EXCEPT !.step[u].mod = k], u)
<1> DEFINE r == [m.step[u] EXCEPT !.mod = k]
<1>1. m.step[u] \in StepRec
  BY Zenon DEF Machine
<1>2. /\ r \in StepRec /\ r.kind = m.step[u].kind /\ r.upper = m.step[u].upper
      /\ r.pre = m.step[u].pre /\ r.timer = m.step[u].timer
  BY Zenon, <1>1 DEF StepRec
<1>3. [m EXCEPT !.step[u].mod = k] = [m EXCEPT !.step[u] = r]
  BY Zenon
<1> QED BY Zenon, <1>2, <1>3, SetRecord

LEMMA SetFresh ==
  ASSUME NEW m \in Machine, NEW u \in Seqs, NEW k \in BOOLEAN
  PROVE  Tuning(m, [m EXCEPT !.step[u].fresh = k], u)
<1> DEFINE r == [m.step[u] EXCEPT !.fresh = k]
<1>1. m.step[u] \in StepRec
  BY Zenon DEF Machine
<1>2. /\ r \in StepRec /\ r.kind = m.step[u].kind /\ r.upper = m.step[u].upper
      /\ r.pre = m.step[u].pre /\ r.timer = m.step[u].timer
  BY Zenon, <1>1 DEF StepRec
<1>3. [m EXCEPT !.step[u].fresh = k] = [m EXCEPT !.step[u] = r]
  BY Zenon
<1> QED BY Zenon, <1>2, <1>3, SetRecord

\* A handler of the flow u went from m to y: it gave out at most one number, and touched
\* no other step.
Forward(m, y, u) ==
  /\ y.seq \in {m.seq, m.seq + 1}
  /\ y.step[u].kind = m.step[u].kind
  /\ \A s \in Seqs : s <= m.seq /\ s # u => y.step[s] = m.step[s]

\* The flow u is running, while x is exempt, and may make one request more.
Runs(m, x, u) ==
  /\ Good(m, x) /\ m.seq + 1 <= MaxSeq /\ x \in 0 .. m.seq
  /\ u \in Alive(m) \ {x} /\ m.step[u].kind \in {"state", "data"}

LEMMA TuningRuns ==
  ASSUME NEW m, NEW x, NEW u \in Seqs, Runs(m, x, u), NEW y, Tuning(m, y, u)
  PROVE  Runs(y, x, u) /\ Forward(m, y, u) /\ y.step[u].kind = m.step[u].kind /\ y.seq = m.seq
<1>1. Good(y, x) /\ Alive(y) = Alive(m)
  BY Zenon, TuningGood DEF Runs
<1> QED BY Zenon, <1>1 DEF Runs, Tuning, Forward

LEMMA RunsFacts ==
  ASSUME NEW m, NEW x, NEW u, Runs(m, x, u)
  PROVE  /\ m \in Machine /\ u \in Seqs /\ u \in Nat /\ u <= m.seq /\ m.seq \in Nat /\ m.step[u] \in StepRec
         /\ MaySend(m, x, u) /\ m.step \in [Seqs -> StepRec]
<1>1. m \in Machine /\ Numbered(m) /\ u \in Seqs /\ m.step[u].kind # "none" /\ m.step[u].kind # "node"
  BY Zenon DEF Runs, Good, Alive
<1>2. m.seq \in 0 .. MaxSeq /\ MaxSeq \in Nat /\ m.step \in [Seqs -> StepRec]
  BY Zenon, <1>1, MachineFacts, StepFlowAssumption
<1>3. m.seq \in Nat /\ u \in Nat /\ m.step[u] \in StepRec
  BY <1>1, <1>2 DEF Seqs
<1>4. u <= m.seq
  BY <1>1, <1>3 DEF Numbered
<1>5. MaySend(m, x, u)
  BY Zenon, <1>1 DEF Runs, MaySend
<1> QED BY Zenon, <1>1, <1>2, <1>3, <1>4, <1>5

\* The success and the failure hook.
LEMMA HookGood ==
  ASSUME NEW m, NEW x, Good(m, x), NEW u \in Seqs, NEW y, y \in {OnSucc(m, u), OnFail(m, u)}
  PROVE  Good(y, x) /\ y.seq = m.seq /\ y.step = m.step /\ Told(y, u)
<1>1. m \in Machine /\ m.out[u] \in [run : BOOLEAN, succ : Nat, fail : Nat]
  BY Zenon DEF Good, Machine
<1> DEFINE o == y.out[u]
<1>2. /\ y.seq = m.seq /\ y.step = m.step /\ y.net = m.net /\ y.http = m.http /\ y \in Machine
      /\ \A s \in Seqs : s # u => y.out[s] = m.out[s]
      /\ o.succ + o.fail = m.out[u].succ + m.out[u].fail + 1
  <2>1. CASE y = OnSucc(m, u)
    <3> DEFINE r == [m.out[u] EXCEPT !.succ = @ + 1]
    <3>1. r \in [run : BOOLEAN, succ : Nat, fail : Nat] /\ r.succ = m.out[u].succ + 1 /\ r.fail = m.out[u].fail
      BY <1>1
    <3>2. y = [m EXCEPT !.out[u] = r]
      BY Zenon, <2>1 DEF OnSucc
    <3> HIDE DEF r
    <3>3. /\ y.seq = m.seq /\ y.step = m.step /\ y.net = m.net /\ y.http = m.http /\ y \in Machine
          /\ y.out = [m.out EXCEPT ![u] = r]
          /\ m.out \in [Seqs -> [run : BOOLEAN, succ : Nat, fail : Nat]]
      BY Zenon, <1>1, <3>1, <3>2 DEF Machine
    <3>4. y.out[u] = r /\ \A s \in Seqs : s # u => y.out[s] = m.out[s]
      BY Zenon, <3>3
    <3> QED BY <1>1, <3>1, <3>3, <3>4
  <2>2. CASE y = OnFail(m, u)
    <3> DEFINE r == [m.out[u] EXCEPT !.fail = @ + 1]
    <3>1. r \in [run : BOOLEAN, succ : Nat, fail : Nat] /\ r.fail = m.out[u].fail + 1 /\ r.succ = m.out[u].succ
      BY <1>1
    <3>2. y = [m EXCEPT !.out[u] = r]
      BY Zenon, <2>2 DEF OnFail
    <3> HIDE DEF r
    <3>3. /\ y.seq = m.seq /\ y.step = m.step /\ y.net = m.net /\ y.http = m.http /\ y \in Machine
          /\ y.out = [m.out EXCEPT ![u] = r]
          /\ m.out \in [Seqs -> [run : BOOLEAN, succ : Nat, fail : Nat]]
      BY Zenon, <1>1, <3>1, <3>2 DEF Machine
    <3>4. y.out[u] = r /\ \A s \in Seqs : s # u => y.out[s] = m.out[s]
      BY Zenon, <3>3
    <3> QED BY <1>1, <3>1, <3>3, <3>4
  <2> QED BY Zenon, <2>1, <2>2
<1>3. Told(y, u)
  BY <1>1, <1>2 DEF Told
<1>4. Addressed(y)
  BY Zenon, <1>2 DEF Good, Addressed
<1>5. Clocked(y)
  BY Zenon, <1>2, <1>3 DEF Good, Clocked, Told
<1> QED BY Zenon, <1>2, <1>3, <1>4, <1>5, TiesKept

\* SendToCallback as a flow's handler calls it.
LEMMA SendRuns ==
  ASSUME NEW m, NEW x, NEW u, Runs(m, x, u), NEW c \in Choice
  PROVE  Good(SendToCallback(m, u, c), x) /\ Forward(m, SendToCallback(m, u, c), u)
<1> DEFINE y == SendToCallback(m, u, c)
           n == m.seq + 1
<1>1. MaySend(m, x, u) /\ u \in Seqs /\ m.seq \in Nat /\ u <= m.seq /\ u \in Nat /\ Seqs \subseteq Nat
  BY RunsFacts DEF Seqs
<1>2. Good(m, x)
  BY Zenon DEF Runs
<1> HIDE DEF y
<1>3. /\ Good(y, x) /\ y.seq = n /\ y.out = m.out
      /\ \A s \in Seqs : s # n => y.step[s].kind = m.step[s].kind
      /\ \A s \in Seqs : s \notin {n, u} => y.step[s] = m.step[s]
  BY <1>1, <1>2, SendToCallbackGood DEF y
<1>4. \A s \in Seqs : s <= m.seq => s # n
  BY <1>1
<1> HIDE DEF n
<1>5. Forward(m, y, u)
  BY Zenon, <1>1, <1>3, <1>4 DEF Forward, n
<1> QED BY Zenon, <1>3, <1>5 DEF y

LEMMA ForwardTwice ==
  ASSUME NEW m, NEW y, NEW z, NEW u, m.seq \in Nat, y.seq \in Nat, Forward(m, y, u), Forward(y, z, u),
         y.seq = m.seq \/ z.seq = y.seq
  PROVE  Forward(m, z, u)
<1>1. \A s \in Seqs : s <= m.seq => s <= y.seq
  BY DEF Forward, Seqs
<1> QED BY Zenon, <1>1 DEF Forward

LEMMA FnType ==
  ASSUME NEW k \in 0 .. Num - 1
  PROVE  Fn(k).send \in {"node", "http", "none"}
<1> DEFINE R == [send : {"node", "http", "none"}, next : Int]
<1>1. Prog \in Seq(R)
  BY Zenon, StepFlowAssumption
<1>2. k + 1 \in 1 .. Len(Prog)
  BY <1>1 DEF Num
<1> HIDE DEF R
<1>3. Prog[k + 1] \in R
  BY <1>1, <1>2
<1> QED BY Zenon, <1>3 DEF R, Fn

\* The state function: a request, an HTTP request, or neither.
LEMMA RunStateGood ==
  ASSUME NEW m, NEW x, NEW u, Runs(m, x, u), m.step[u].kind = "state", NEW c \in Choice,
         NEW k \in 0 .. Num - 1
  PROVE  Good(RunState(m, u, k, c), x) /\ Forward(m, RunState(m, u, k, c), u)
<1> DEFINE y == RunState(m, u, k, c)
<1>1. m \in Machine /\ u \in Seqs /\ u <= m.seq /\ m.seq \in Nat /\ Good(m, x)
  BY Zenon, RunsFacts DEF Runs
<1>2. Fn(k).send \in {"node", "http", "none"}
  BY Zenon, FnType
<1>3. CASE Fn(k).send = "node"
  <2> DEFINE d == [m EXCEPT !.step[u].delay = TRUE]
  <2>1. y = SendToCallback(d, u, c)
    BY Zenon, <1>3 DEF RunState
  <2>2. Tuning(m, d, u)
    BY Zenon, <1>1, SetDelay
  <2> HIDE DEF d, y
  <2>3. Runs(d, x, u) /\ Forward(m, d, u) /\ d.seq = m.seq
    BY <1>1, <2>2, TuningRuns
  <2>4. Good(y, x) /\ Forward(d, y, u)
    BY Zenon, <2>1, <2>3, SendRuns
  <2>5. Forward(m, y, u)
    BY Zenon, <1>1, <2>3, <2>4, ForwardTwice
  <2> QED BY Zenon, <2>4, <2>5 DEF y
<1>4. CASE Fn(k).send = "http"
  <2>1. CASE c.ok
    <3>1. y = [m EXCEPT !.http[u] = @ + 1]
      BY Zenon, <1>4, <2>1 DEF RunState
    <3> HIDE DEF y
    <3>2. /\ y \in Machine /\ y.seq = m.seq /\ y.net = m.net /\ y.out = m.out /\ y.step = m.step
          /\ \A s \in Seqs : s # u => y.http[s] = m.http[s]
      <4> DEFINE h == [m.http EXCEPT ![u] = @ + 1]
      <4>1. y = [m EXCEPT !.http = h]
        BY Zenon, <3>1
      <4>2. m.http \in [Seqs -> Nat]
        BY Zenon, <1>1, MachineFacts
      <4>3. h \in [Seqs -> Nat] /\ \A s \in Seqs : s # u => h[s] = m.http[s]
        BY <1>1, <4>2
      <4> HIDE DEF h
      <4> QED BY Zenon, <1>1, <4>1, <4>3 DEF Machine
    <3>3. Addressed(y)
      BY Zenon, <1>1, <3>2 DEF Good, Addressed
    <3>4. Clocked(y)
      BY Zenon, <1>1, <3>2 DEF Good, Clocked, Told
    <3>5. Good(y, x)
      BY Zenon, <1>1, <3>2, <3>3, <3>4, TiesKept
    <3> QED BY Zenon, <3>2, <3>5 DEF Forward, y
  <2>2. CASE ~ c.ok
    <3>1. y = m
      BY Zenon, <1>4, <2>2 DEF RunState
    <3> QED BY Zenon, <1>1, <3>1 DEF Forward
  <2> QED BY Zenon, <2>1, <2>2
<1>5. CASE Fn(k).send = "none"
  <2>1. y = m
    BY Zenon, <1>5 DEF RunState
  <2> QED BY Zenon, <1>1, <2>1 DEF Forward
<1> QED BY Zenon, <1>2, <1>3, <1>4, <1>5

\* StepState::Emit: a flow that does not go on has told its outcome.
LEMMA StateEmitGood ==
  ASSUME NEW m, NEW x, NEW u, Runs(m, x, u), m.step[u].kind = "state", NEW c \in Choice
  PROVE  LET e == StateEmit(m, u, c)
         IN  Good(e.m, x) /\ Forward(m, e.m, u) /\ (e.status # "running" => Told(e.m, u))
<1> DEFINE k  == IF m.step[u].next >= 0 THEN m.step[u].next ELSE m.step[u].st
           m0 == [m EXCEPT !.step[u].st = k]
           m1 == [m EXCEPT !.step[u].st = k, !.step[u].next = -1]
           ml == [m1 EXCEPT !.step[u].last = k]
           m2 == RunState(ml, u, k, c)
           to == IF Fn(k).next \in 0 .. Num - 1 THEN Fn(k).next ELSE k + 1
           m3 == [m2 EXCEPT !.step[u].st = to]
           e  == StateEmit(m, u, c)
<1>1. m \in Machine /\ u \in Seqs /\ m.seq \in Nat /\ Good(m, x) /\ u <= m.seq
  BY Zenon, RunsFacts DEF Runs
<1>2. k \in Nat
  <2>1. m.step[u] \in StepRec
    BY Zenon, RunsFacts
  <2> QED BY <2>1 DEF StepRec
<1>3. e = IF k >= Num THEN Result(OnSucc(m1, u), "completed")
          ELSE IF Fn(k).send # "none" /\ ~c.ok THEN Result(OnFail(m2, u), "fault")
          ELSE IF to < Num THEN Result(m3, "running")
          ELSE Result(OnSucc(m3, u), "completed")
  BY Zenon DEF StateEmit
<1> HIDE DEF e, k
<1>4. Tuning(m, m1, u)
  <2>1. Tuning(m, m0, u)
    BY Zenon, <1>1, <1>2, SetSt
  <2>2. m0 \in Machine
    BY Zenon, <2>1 DEF Tuning
  <2>3. m1 = [m0 EXCEPT !.step[u].next = -1]
    BY Zenon
  <2> HIDE DEF m0, m1
  <2>4. Tuning(m0, m1, u)
    BY <1>1, <2>2, <2>3, SetNext
  <2> QED BY Zenon, <2>1, <2>4, TuningTwice
<1> HIDE DEF m1
<1>5. Runs(m1, x, u) /\ Forward(m, m1, u) /\ m1.step[u].kind = "state" /\ m1.seq = m.seq
  BY <1>1, <1>4, TuningRuns
<1>6. CASE k >= Num
  <2> DEFINE y == OnSucc(m1, u)
  <2>1. e = Result(y, "completed")
    BY Zenon, <1>3, <1>6
  <2>2. Good(m1, x)
    BY Zenon, <1>5 DEF Runs
  <2> HIDE DEF y
  <2>3. Good(y, x) /\ y.seq = m1.seq /\ y.step = m1.step /\ Told(y, u)
    BY Zenon, <1>1, <2>2, HookGood DEF y
  <2>4. Forward(m, y, u)
    BY Zenon, <1>5, <2>3 DEF Forward
  <2>5. e.m = y
    BY Zenon, <2>1 DEF Result
  <2> QED BY Zenon, <2>3, <2>4, <2>5 DEF e
<1>7. CASE ~ (k >= Num)
  <2>1. Num \in Nat /\ k \in 0 .. Num - 1
    BY <1>2, <1>7, StepFlowAssumption DEF Num
  <2>2. m1 \in Machine
    BY Zenon, <1>4 DEF Tuning
  <2>3. Tuning(m1, ml, u)
    BY Zenon, <1>1, <1>2, <2>2, SetLast
  <2> HIDE DEF ml
  <2>4. Runs(ml, x, u) /\ Forward(m1, ml, u) /\ ml.step[u].kind = "state" /\ ml.seq = m.seq
    BY <1>1, <1>5, <2>3, TuningRuns
  <2>5. Good(m2, x) /\ Forward(ml, m2, u)
    BY Zenon, <2>1, <2>4, RunStateGood
  <2> HIDE DEF m2
  <2>6. Forward(m, m2, u)
    <3>1. Forward(m, ml, u)
      BY Zenon, <1>1, <1>5, <2>4, ForwardTwice
    <3> QED BY Zenon, <1>1, <2>4, <2>5, <3>1, ForwardTwice
  <2>7. CASE Fn(k).send # "none" /\ ~c.ok
    <3> DEFINE y == OnFail(m2, u)
    <3>1. e = Result(y, "fault")
      BY Zenon, <1>3, <1>7, <2>7
    <3> HIDE DEF y
    <3>2. Good(y, x) /\ y.seq = m2.seq /\ y.step = m2.step /\ Told(y, u)
      BY Zenon, <1>1, <2>5, HookGood DEF y
    <3>3. Forward(m, y, u)
      BY Zenon, <2>6, <3>2 DEF Forward
    <3>4. e.m = y
      BY Zenon, <3>1 DEF Result
    <3> QED BY Zenon, <3>2, <3>3, <3>4 DEF e
  <2>8. CASE ~ (Fn(k).send # "none" /\ ~c.ok)
    <3>1. to \in Nat
      BY <1>2, <2>1
    <3>2. m2 \in Machine
      BY Zenon, <2>5 DEF Good
    <3> HIDE DEF to
    <3>3. Tuning(m2, m3, u)
      BY Zenon, <1>1, <3>1, <3>2, SetSt
    <3> HIDE DEF m3
    <3>4. Good(m3, x)
      BY Zenon, <1>1, <2>5, <3>3, TuningGood
    <3>5. Forward(m, m3, u)
      BY Zenon, <1>1, <2>6, <3>3 DEF Forward, Tuning
    <3>6. CASE to < Num
      <4>1. e = Result(m3, "running")
        BY Zenon, <1>3, <1>7, <2>8, <3>6
      <4>2. e.m = m3 /\ e.status = "running"
        BY Zenon, <4>1 DEF Result
      <4> QED BY Zenon, <3>4, <3>5, <4>2 DEF e
    <3>7. CASE ~ (to < Num)
      <4> DEFINE y == OnSucc(m3, u)
      <4>1. e = Result(y, "completed")
        BY Zenon, <1>3, <1>7, <2>8, <3>7
      <4> HIDE DEF y
      <4>2. Good(y, x) /\ y.seq = m3.seq /\ y.step = m3.step /\ Told(y, u)
        BY Zenon, <1>1, <3>4, HookGood DEF y
      <4>3. Forward(m, y, u)
        BY Zenon, <3>5, <4>2 DEF Forward
      <4>4. e.m = y
        BY Zenon, <4>1 DEF Result
      <4> QED BY Zenon, <4>2, <4>3, <4>4 DEF e
    <3> QED BY Zenon, <3>6, <3>7
  <2> QED BY Zenon, <2>7, <2>8
<1> QED BY Zenon, <1>6, <1>7

\* Emit of either kind of flow.
LEMMA EmitGood ==
  ASSUME NEW m, NEW x, NEW u, Runs(m, x, u), NEW c \in Choice
  PROVE  LET e == Emit(m, u, c)
         IN  /\ Good(e.m, x) /\ Forward(m, e.m, u)
             /\ e.status # "running" /\ m.step[u].kind = "state" => Told(e.m, u)
<1> DEFINE e == Emit(m, u, c)
<1>1. CASE m.step[u].kind = "state"
  <2>1. e = StateEmit(m, u, c)
    BY Zenon, <1>1 DEF Emit
  <2> QED BY Zenon, <1>1, <2>1, StateEmitGood
<1>2. CASE m.step[u].kind # "state"
  <2>1. m \in Machine /\ u \in Seqs /\ Good(m, x)
    BY Zenon, RunsFacts DEF Runs
  <2>2. e = DataEmit(m, u)
    BY Zenon, <1>2 DEF Emit
  <2>3. CASE m.step[u].delay
    <3> DEFINE y == [m EXCEPT !.step[u].delay = FALSE]
    <3>1. Tuning(m, y, u)
      BY Zenon, <2>1, SetDelay
    <3>2. e.m = y
      BY <2>2, <2>3 DEF DataEmit, Result
    <3> HIDE DEF y, e
    <3>3. Runs(y, x, u) /\ Forward(m, y, u)
      BY Zenon, <2>1, <3>1, TuningRuns
    <3> QED BY Zenon, <1>2, <3>2, <3>3 DEF e, Runs
  <2>4. CASE ~ m.step[u].delay
    <3>1. e.m = m
      BY <2>2, <2>4 DEF DataEmit, Result
    <3> QED BY Zenon, <1>2, <2>1, <3>1 DEF Forward
  <2> QED BY Zenon, <2>3, <2>4
<1> QED BY Zenon, <1>1, <1>2

\* What follows a handler: the step goes on or is deleted.
LEMMA SettleGood ==
  ASSUME NEW e, NEW x, NEW s, Good(e.m, x), s \in Alive(e.m), s # x,
         e.status # "running" /\ e.m.step[s].kind = "state" => Told(e.m, s)
  PROVE  /\ Good(Settle(e, s), x) /\ Settle(e, s).seq = e.m.seq
         /\ \A n \in Seqs : n # s => Settle(e, s).step[n] = e.m.step[n]
<1>1. CASE e.status = "running"
  BY Zenon, <1>1 DEF Settle
<1>2. CASE e.status # "running"
  <2>1. Settle(e, s) = DeleteCallback(e.m, s)
    BY Zenon, <1>2 DEF Settle
  <2> DEFINE m == e.m
  <2>2. Good(m, x) /\ s \in Alive(m) /\ s # x /\ (m.step[s].kind = "state" => Told(m, s))
    BY Zenon, <1>2
  <2> HIDE DEF m
  <2>3. /\ Good(DeleteCallback(m, s), x)
        /\ DeleteCallback(m, s).seq = m.seq
        /\ \A n \in Seqs : n # s => DeleteCallback(m, s).step[n] = m.step[n]
    BY Zenon, <2>2, DeleteCallbackGood
  <2> QED BY Zenon, <2>1, <2>3 DEF m
<1> QED BY Zenon, <1>1, <1>2

\* ExecStep runs a flow on, and deletes it when it is done.
LEMMA ExecStepGood ==
  ASSUME NEW m, NEW x, NEW u, Runs(m, x, u), NEW c \in Choice
  PROVE  LET y == ExecStep(m, u, c)
         IN  /\ Good(y, x) /\ y.seq \in {m.seq, m.seq + 1}
             /\ \A s \in Seqs : s <= m.seq /\ s # u => y.step[s] = m.step[s]
<1> DEFINE e == Emit(m, u, c)
           y == ExecStep(m, u, c)
<1>1. u \in Seqs /\ u # 0 /\ u # x /\ m.step[u].kind \in {"state", "data"}
  <2>1. u \in Alive(m) \ {x} /\ m.step[u].kind \in {"state", "data"}
    BY Zenon DEF Runs
  <2>2. 0 \notin Seqs
    BY DEF Seqs
  <2> QED BY Zenon, <2>1, <2>2 DEF Alive
<1>2. y = Settle(e, u)
  BY Zenon, <1>1 DEF ExecStep, IsRegistered
<1>3. /\ Good(e.m, x) /\ Forward(m, e.m, u)
      /\ e.status # "running" /\ m.step[u].kind = "state" => Told(e.m, u)
  BY Zenon, EmitGood
<1> HIDE DEF e, y
<1>4. e.m.step[u].kind = m.step[u].kind /\ u \in Alive(e.m)
  BY Zenon, <1>1, <1>3 DEF Forward, Alive
<1>5. Good(y, x) /\ y.seq = e.m.seq /\ \A n \in Seqs : n # u => y.step[n] = e.m.step[n]
  BY <1>1, <1>2, <1>3, <1>4, SettleGood
<1> QED BY Zenon, <1>3, <1>5 DEF Forward, y

\* StepNode::Callback takes its request n out of the predecessors of the upper step: from
\* here to its deletion n is exempt.
LEMMA Exempted ==
  ASSUME NEW m, Good(m, 0), NEW n \in Alive(m), m.step[n].kind = "node", NEW u \in Alive(m),
         u = m.step[n].upper
  PROVE  LET y == [m EXCEPT !.step[u].pre = @ \ {n}]
         IN  /\ Good(y, n) /\ y.seq = m.seq /\ y.step[u].kind = m.step[u].kind
             /\ \A s \in Seqs : s # u => y.step[s] = m.step[s]
<1> DEFINE y == [m EXCEPT !.step[u].pre = @ \ {n}]
<1>1. /\ m \in Machine /\ m.step \in [Seqs -> StepRec] /\ u \in Seqs /\ n \in Seqs /\ m.step[u] \in StepRec
      /\ 0 \notin Seqs
  <2>1. m \in Machine /\ u \in Seqs /\ n \in Seqs
    BY Zenon DEF Good, Alive
  <2>2. 0 \notin Seqs
    BY DEF Seqs
  <2> QED BY Zenon, <2>1, <2>2, MachineFacts
<1> DEFINE r == [m.step[u] EXCEPT !.pre = @ \ {n}]
<1>2. y = [m EXCEPT !.step[u] = r]
  BY Zenon
<1>3. /\ r \in StepRec /\ r.kind = m.step[u].kind /\ r.upper = m.step[u].upper
      /\ r.pre = m.step[u].pre \ {n} /\ r.timer = m.step[u].timer
  BY Zenon, <1>1 DEF StepRec
<1> HIDE DEF r, y
<1>4. /\ y \in Machine /\ y.seq = m.seq /\ y.net = m.net /\ y.http = m.http /\ y.out = m.out
      /\ y.step = [m.step EXCEPT ![u] = r]
  BY Zenon, <1>1, <1>2, <1>3 DEF Machine
<1>5. \A s \in Seqs : /\ s # u => y.step[s] = m.step[s]
                      /\ y.step[s].kind = m.step[s].kind /\ y.step[s].upper = m.step[s].upper
                      /\ y.step[s].timer = m.step[s].timer
                      /\ y.step[s].pre \subseteq m.step[s].pre
  BY Zenon, <1>1, <1>3, <1>4
<1>6. y.step[u].pre = m.step[u].pre \ {n}
  BY Zenon, <1>1, <1>3, <1>4
<1>7. Alive(y) = Alive(m) /\ Alive(m) \subseteq Seqs /\ Alive(m) \ {0} = Alive(m)
  BY <1>1, <1>5 DEF Alive
<1>8. Linked(m, 0) /\ Numbered(m) /\ Addressed(m) /\ Clocked(m)
  BY Zenon DEF Good
<1>9. Numbered(y)
  BY <1>4, <1>5, <1>8 DEF Numbered
<1>10. Linked(y, n)
  <2>1. \A k \in Alive(m) : m.step[k].upper # 0 =>
          m.step[k].upper \in Alive(m) /\ m.step[m.step[k].upper].kind # "node"
    BY Zenon, <1>7, <1>8 DEF Linked
  <2>2. \A v \in Alive(m) : m.step[v].pre \cap Alive(m) = {k \in Alive(m) : m.step[k].upper = v}
    BY Zenon, <1>7, <1>8 DEF Linked
  <2>3. \A k \in Alive(y) \ {n} : y.step[k].upper # 0 =>
          y.step[k].upper \in Alive(y) \ {n} /\ y.step[y.step[k].upper].kind # "node"
    BY <1>5, <1>7, <2>1
  <2>4. ASSUME NEW v \in Alive(y) \ {n}
        PROVE  y.step[v].pre \cap Alive(y) = {k \in Alive(y) \ {n} : y.step[k].upper = v}
    <3>1. m.step[v].pre \cap Alive(m) = {k \in Alive(m) : m.step[k].upper = v}
      BY Zenon, <1>7, <2>2
    <3>2. {k \in Alive(y) \ {n} : y.step[k].upper = v} = {k \in Alive(m) : m.step[k].upper = v} \ {n}
      BY Zenon, <1>5, <1>7
    <3>3. CASE v = u
      BY Zenon, <1>6, <1>7, <3>1, <3>2, <3>3
    <3>4. CASE v # u
      <4>1. y.step[v].pre = m.step[v].pre
        BY Zenon, <1>5, <1>7, <3>4
      <4>2. n \notin {k \in Alive(m) : m.step[k].upper = v}
        BY Zenon, <3>4
      <4> QED BY Zenon, <1>7, <3>1, <3>2, <4>1, <4>2
    <3> QED BY Zenon, <3>3, <3>4
  <2> QED BY Zenon, <2>3, <2>4 DEF Linked
<1>11. Addressed(y)
  BY Zenon, <1>1, <1>4, <1>5, <1>8 DEF Addressed, Machine
<1>12. Clocked(y)
  BY Zenon, <1>4, <1>5, <1>8 DEF Clocked, Told
<1>13. Good(y, n)
  BY Zenon, <1>4, <1>9, <1>10, <1>11, <1>12 DEF Good
<1> QED BY Zenon, <1>1, <1>4, <1>5, <1>13 DEF y

\* The business callback of a flow's request.
LEMMA UpperCallbackGood ==
  ASSUME NEW m, NEW u, Runs(m, 0, u), NEW rsp, NEW c \in Choice
  PROVE  LET y == UpperCallback(m, u, rsp, c)
         IN  Good(y, 0) /\ Forward(m, y, u)
<1> DEFINE y == UpperCallback(m, u, rsp, c)
           sends == m.step[u].kind = "data" /\ m.step[u].chain > 0 /\ rsp = "ok"
<1>1. m \in Machine /\ u \in Seqs /\ m.seq \in Nat /\ Good(m, 0) /\ m.step[u] \in StepRec
  BY Zenon, RunsFacts DEF Runs
<1>2. CASE sends
  <2> DEFINE d == [m EXCEPT !.step[u].delay = TRUE]
             v == m.step[u].chain - 1
             z == [d EXCEPT !.step[u].chain = v]
  <2>1. v \in Nat
    BY <1>1, <1>2 DEF StepRec
  <2>2. Tuning(m, d, u)
    BY Zenon, <1>1, SetDelay
  <2>3. d \in Machine
    BY Zenon, <2>2 DEF Tuning
  <2>4. d.step[u].chain = m.step[u].chain
    BY Zenon, <1>1 DEF Machine, StepRec
  <2>5. y = SendToCallback([d EXCEPT !.step[u].chain = @ - 1], u, c)
    BY Zenon, <1>2 DEF UpperCallback
  <2>6. [d EXCEPT !.step[u].chain = @ - 1] = z
    <3> HIDE DEF d
    <3> QED BY Zenon, <2>4
  <2> HIDE DEF d, v, y
  <2>7. Tuning(d, z, u)
    BY Zenon, <1>1, <2>1, <2>3, SetChain
  <2> HIDE DEF z
  <2>8. Tuning(m, z, u)
    BY Zenon, <2>2, <2>7, TuningTwice
  <2>9. Runs(z, 0, u) /\ Forward(m, z, u) /\ z.seq = m.seq
    BY <1>1, <2>8, TuningRuns
  <2>10. y = SendToCallback(z, u, c)
    BY Zenon, <2>5, <2>6
  <2>11. Good(y, 0) /\ Forward(z, y, u)
    BY Zenon, <2>9, <2>10, SendRuns
  <2>12. Forward(m, y, u)
    BY Zenon, <1>1, <2>9, <2>11, ForwardTwice
  <2> QED BY Zenon, <2>11, <2>12 DEF y
<1>3. CASE ~ sends
  <2>1. y = m
    BY Zenon, <1>3 DEF UpperCallback
  <2> QED BY Zenon, <1>1, <2>1 DEF Forward
<1> QED BY Zenon, <1>2, <1>3

\* StepNode::Callback, and the deletion of the request that follows it.
LEMMA CallbackGood ==
  ASSUME NEW m, Good(m, 0), m.seq + 2 <= MaxSeq, NEW n \in Alive(m), m.step[n].kind = "node",
         NEW rsp, NEW c \in Choice
  PROVE  Good(DeleteCallback(NodeCallback(m, n, rsp, c), n), 0)
<1> DEFINE u == m.step[n].upper
           a == UpperCallback(m, u, rsp, c)
           b == [a EXCEPT !.step[u].pre = @ \ {n}]
           y == ExecStep(b, u, c)
<1>1. /\ m \in Machine /\ m.seq \in Nat /\ m.seq \in 0 .. MaxSeq /\ n \in Seqs /\ n <= m.seq /\ n # 0
      /\ MaxSeq \in Nat /\ Alive(m) \ {0} = Alive(m) /\ n \in Nat
  <2>1. m \in Machine /\ Numbered(m) /\ n \in Seqs /\ m.step[n].kind # "none"
    BY Zenon DEF Good, Alive
  <2>2. m.seq \in 0 .. MaxSeq /\ MaxSeq \in Nat
    BY Zenon, <2>1, MachineFacts, StepFlowAssumption
  <2>3. m.seq \in Nat /\ n \in Nat /\ n # 0
    BY <2>1, <2>2 DEF Seqs
  <2>4. n <= m.seq
    BY <2>1, <2>3 DEF Numbered
  <2>5. 0 \notin Alive(m)
    BY DEF Alive, Seqs
  <2> QED BY Zenon, <2>1, <2>2, <2>3, <2>4, <2>5
<1>2. CASE ~ IsRegistered(m, u)
  <2>1. NodeCallback(m, n, rsp, c) = m
    BY Zenon, <1>2 DEF NodeCallback
  <2>2. n \in Alive(m) /\ n # 0 /\ m.step[n].kind # "state"
    BY Zenon, <1>1
  <2> QED BY Zenon, <2>1, <2>2, DeleteCallbackGood
<1>3. CASE IsRegistered(m, u)
  <2>1. u \in Alive(m) /\ m.step[u].kind # "node" /\ u # n
    <3>1. Linked(m, 0) /\ u # 0
      BY Zenon, <1>3 DEF Good, IsRegistered
    <3> QED BY Zenon, <1>1, <3>1 DEF Linked
  <2>2. NodeCallback(m, n, rsp, c) = y
    BY Zenon, <1>3 DEF NodeCallback
  <2> HIDE DEF u
  <2>3. Runs(m, 0, u)
    <3>1. m.step[u] \in StepRec
      BY Zenon, <1>1, <2>1, MachineFacts DEF Alive
    <3>2. m.step[u].kind \in {"state", "data"}
      BY Zenon, <2>1, <3>1 DEF StepRec, Alive
    <3>3. m.seq + 1 <= MaxSeq /\ 0 \in 0 .. m.seq
      BY <1>1
    <3> QED BY Zenon, <1>1, <2>1, <3>2, <3>3 DEF Runs
  <2>4. Good(a, 0) /\ Forward(m, a, u)
    BY Zenon, <2>3, UpperCallbackGood
  <2> HIDE DEF a
  <2>5. /\ a.step[n] = m.step[n] /\ a.step[u].kind = m.step[u].kind /\ a.seq \in {m.seq, m.seq + 1}
        /\ m.step[u].kind \in {"state", "data"}
    BY Zenon, <1>1, <2>1, <2>3, <2>4 DEF Forward, Runs
  <2>6. u \in Alive(a) /\ n \in Alive(a) /\ a.step[n].kind = "node" /\ a.step[n].upper = u
    BY Zenon, <2>1, <2>5 DEF Alive, u
  <2>7. /\ Good(b, n) /\ b.seq = a.seq /\ b.step[u].kind = a.step[u].kind
        /\ \A s \in Seqs : s # u => b.step[s] = a.step[s]
    BY <2>4, <2>6, Exempted
  <2> HIDE DEF b
  <2>8. Runs(b, n, u)
    <3>1. u \in Alive(b)
      BY Zenon, <2>1, <2>5, <2>7 DEF Alive
    <3>2. b.seq + 1 <= MaxSeq /\ n \in 0 .. b.seq
      BY <1>1, <2>5, <2>7
    <3> QED BY Zenon, <2>1, <2>5, <2>7, <3>1, <3>2 DEF Runs
  <2>9. /\ Good(y, n)
        /\ \A s \in Seqs : s <= b.seq /\ s # u => y.step[s] = b.step[s]
    BY <2>8, ExecStepGood
  <2> HIDE DEF y
  <2>10. y.step[n].kind = "node"
    <3>1. n <= b.seq
      BY <1>1, <2>5, <2>7
    <3> QED BY Zenon, <1>1, <2>1, <2>5, <2>7, <2>9, <3>1
  <2>11. Good(DeleteCallback(y, n), 0)
    BY Zenon, <1>1, <2>9, <2>10, DeleteExemptGood
  <2> QED BY Zenon, <2>2, <2>11
<1> QED BY Zenon, <1>2, <1>3

-----------------------------------------------------------------------------
(* The timeouts. *)

\* A request is sent once more.
LEMMA NodeEmitGood ==
  ASSUME NEW m, NEW x, Good(m, x), NEW n \in Alive(m), m.step[n].kind = "node"
  PROVE  Good(NodeEmit(m, n), x) /\ NodeEmit(m, n).step = m.step
<1> DEFINE y == NodeEmit(m, n)
<1>1. m \in Machine /\ n \in Seqs /\ Numbered(m) /\ Addressed(m) /\ Clocked(m)
  BY Zenon DEF Good, Alive
<1>2. /\ y \in Machine /\ y.seq = m.seq /\ y.net = m.net \cup {n} /\ y.out = m.out /\ y.http = m.http
      /\ y.step = m.step
  BY Zenon, <1>1 DEF Machine, NodeEmit
<1> HIDE DEF y
<1>3. n <= m.seq
  <2>1. m.seq \in Nat /\ n \in Nat
    BY <1>1, MachineFacts DEF Seqs
  <2> QED BY <1>1, <2>1 DEF Numbered
<1>4. Addressed(y)
  BY Zenon, <1>1, <1>2, <1>3 DEF Addressed
<1>5. Clocked(y)
  BY Zenon, <1>1, <1>2 DEF Clocked, Told
<1>6. Good(y, x)
  BY Zenon, <1>2, <1>4, <1>5, TiesKept
<1> QED BY Zenon, <1>2, <1>6 DEF y

\* StepNode::Timeout.
LEMMA NodeTimeoutGood ==
  ASSUME NEW m, Good(m, 0), NEW n \in Alive(m), m.step[n].kind = "node", NEW c \in Choice
  PROVE  LET e == NodeTimeout(m, n, c) IN Good(e.m, 0) /\ e.m.step[n].kind = "node"
<1> DEFINE e == NodeTimeout(m, n, c)
           Again(z) == IF c.ok THEN Result(NodeEmit(z, n), "running") ELSE Result(z, "fault")
           t == m.step[n].to + 1
           m1 == [m EXCEPT !.step[n].to = t]
           mm == [m EXCEPT !.step[n].mod = FALSE]
           m2 == [mm EXCEPT !.step[n].to = 0]
<1>1. m \in Machine /\ n \in Seqs /\ m.step[n] \in StepRec
  <2>1. m \in Machine /\ n \in Seqs
    BY Zenon DEF Good, Alive
  <2> QED BY Zenon, <2>1, MachineFacts
<1>2. e = IF t < TimeOutMax THEN IF m.step[n].retry THEN Again(m1) ELSE Result(m1, "running")
          ELSE IF m.step[n].mod THEN Again(m2) ELSE Result(m, "completed")
  BY Zenon DEF NodeTimeout
<1>3. t \in Nat
  BY <1>1 DEF StepRec
<1> HIDE DEF e, t
<1>4. Tuning(m, m1, n)
  BY Zenon, <1>1, <1>3, SetTo
<1>5. Tuning(m, m2, n)
  <2>1. Tuning(m, mm, n)
    BY Zenon, <1>1, SetMod
  <2>2. mm \in Machine
    BY Zenon, <2>1 DEF Tuning
  <2> HIDE DEF mm
  <2>3. Tuning(mm, m2, n)
    BY Zenon, <1>1, <2>2, SetTo
  <2> HIDE DEF m2
  <2> QED BY Zenon, <2>1, <2>3, TuningTwice
<1> HIDE DEF m1, m2
<1>6. ASSUME NEW z, Tuning(m, z, n)
      PROVE  Good(z, 0) /\ z.step[n].kind = "node" /\ Good(Again(z).m, 0) /\ Again(z).m.step[n].kind = "node"
  <2>1. Good(z, 0) /\ Alive(z) = Alive(m)
    BY Zenon, <1>1, <1>6, TuningGood
  <2>2. z.step[n].kind = "node"
    BY Zenon, <1>6 DEF Tuning
  <2>3. Good(NodeEmit(z, n), 0) /\ NodeEmit(z, n).step = z.step
    BY Zenon, <2>1, <2>2, NodeEmitGood
  <2>4. Again(z).m = IF c.ok THEN NodeEmit(z, n) ELSE z
    BY Zenon DEF Result
  <2> HIDE DEF Again
  <2> QED BY Zenon, <2>1, <2>2, <2>3, <2>4
<1>7. e.m \in {m, m1, Again(m1).m, Again(m2).m}
  <2> HIDE DEF Again
  <2> QED BY Zenon, <1>2 DEF Result
<1> HIDE DEF Again
<1>8. Good(e.m, 0) /\ e.m.step[n].kind = "node"
  BY Zenon, <1>4, <1>5, <1>6, <1>7
<1> QED BY Zenon, <1>8 DEF e

\* StepState::Timeout.
LEMMA StateTimeoutGood ==
  ASSUME NEW m, NEW u, Runs(m, 0, u), m.step[u].kind = "state", NEW c \in Choice
  PROVE  LET e == StateTimeout(m, u, c)
         IN  Good(e.m, 0) /\ Forward(m, e.m, u) /\ (e.status # "running" => Told(e.m, u))
<1> DEFINE e == StateTimeout(m, u, c)
           t == m.step[u].to + 1
           x == [m EXCEPT !.step[u].to = t]
           w == SetNextState(x, u)
<1>1. m \in Machine /\ u \in Seqs /\ m.seq \in Nat /\ m.step[u] \in StepRec
  BY Zenon, RunsFacts
<1>2. t \in Nat
  BY <1>1 DEF StepRec
<1>3. e = IF x.step[u].to < TimeOutMax
          THEN IF TimeOutRetry THEN StateEmit(w, u, c) ELSE Result(x, "running")
          ELSE Result(OnFail(x, u), "fault")
  BY Zenon DEF StateTimeout
<1> HIDE DEF e, t
<1>4. Tuning(m, x, u)
  BY Zenon, <1>1, <1>2, SetTo
<1> HIDE DEF x
<1>5. Runs(x, 0, u) /\ Forward(m, x, u) /\ x.step[u].kind = "state" /\ x.seq = m.seq
  BY <1>1, <1>4, TuningRuns
<1>6. CASE x.step[u].to < TimeOutMax /\ TimeOutRetry
  <2>1. e = StateEmit(w, u, c)
    BY Zenon, <1>3, <1>6
  <2>2. x \in Machine /\ x.step[u] \in StepRec
    BY Zenon, <1>5, RunsFacts
  <2>3. Runs(w, 0, u) /\ Forward(x, w, u) /\ w.step[u].kind = "state" /\ w.seq = x.seq
    <3> DEFINE st == x.step[u].st
               s  == IF st = 0 THEN st + 1 ELSE st - 1
    <3>1. s \in Int
      BY <2>2 DEF StepRec
    <3>2. w = IF s < Num THEN [x EXCEPT !.step[u].next = s] ELSE x
      BY Zenon DEF SetNextState
    <3> HIDE DEF s
    <3>3. CASE s < Num
      <4>1. w = [x EXCEPT !.step[u].next = s]
        BY Zenon, <3>2, <3>3
      <4>2. Tuning(x, w, u)
        BY Zenon, <1>1, <2>2, <3>1, <4>1, SetNext
      <4> HIDE DEF w
      <4> QED BY <1>1, <1>5, <4>2, TuningRuns
    <3>4. CASE ~ (s < Num)
      <4>1. w = x
        BY Zenon, <3>2, <3>4
      <4> QED BY Zenon, <1>5, <4>1 DEF Forward
    <3> QED BY Zenon, <3>3, <3>4
  <2> HIDE DEF w
  <2>4. Good(e.m, 0) /\ Forward(w, e.m, u) /\ (e.status # "running" => Told(e.m, u))
    BY Zenon, <2>1, <2>3, StateEmitGood
  <2>5. Forward(m, w, u)
    BY Zenon, <1>1, <1>5, <2>3, ForwardTwice
  <2>6. Forward(m, e.m, u)
    BY Zenon, <1>1, <1>5, <2>3, <2>4, <2>5, ForwardTwice
  <2> QED BY Zenon, <2>4, <2>6 DEF e
<1>7. CASE x.step[u].to < TimeOutMax /\ ~ TimeOutRetry
  <2>1. e.m = x /\ e.status = "running"
    BY Zenon, <1>3, <1>7 DEF Result
  <2> QED BY Zenon, <1>5, <2>1 DEF Runs, e
<1>8. CASE ~ (x.step[u].to < TimeOutMax)
  <2> DEFINE y == OnFail(x, u)
  <2>1. e.m = y
    BY Zenon, <1>3, <1>8 DEF Result
  <2> HIDE DEF y
  <2>2. Good(y, 0) /\ y.seq = x.seq /\ y.step = x.step /\ Told(y, u)
    BY Zenon, <1>1, <1>5, HookGood DEF y, Runs
  <2>3. Forward(m, y, u)
    BY Zenon, <1>5, <2>2 DEF Forward
  <2> QED BY Zenon, <2>1, <2>2, <2>3 DEF e
<1> QED BY Zenon, <1>6, <1>7, <1>8

-----------------------------------------------------------------------------
(* The actions. *)

LEMMA BecomeGood ==
  ASSUME NEW m, Good(m, 0), Become(m)
  PROVE  IInv'
<1>1. m \in Machine
  BY Zenon DEF Good
<1>2. m = [step |-> m.step, seq |-> m.seq, net |-> m.net, http |-> m.http, out |-> m.out]
  BY Zenon, <1>1 DEF Machine
<1>3. m = [step |-> step', seq |-> seq', net |-> net', http |-> http', out |-> out']
  BY Zenon, <1>2 DEF Become
<1>4. State' = m
  BY Zenon, <1>3 DEF State
<1>5. Good(State', 0)
  BY Zenon, <1>4
<1> QED BY Zenon, <1>5 DEF IInv

LEMMA InitIInv == Init => IInv
<1> SUFFICES ASSUME Init
             PROVE  IInv
  BY Zenon
<1>1. NewStep \in StepRec /\ NewStep.kind = "none" /\ NewStep.pre = {}
  BY StepFlowAssumption DEF NewStep, StepRec
<1>2. /\ step = [s \in Seqs |-> NewStep] /\ seq = 0 /\ net = {} /\ http = [s \in Seqs |-> 0]
      /\ out = [s \in Seqs |-> [run |-> FALSE, succ |-> 0, fail |-> 0]]
  BY Zenon DEF Init
<1>3. PICK m : m = State
  BY Zenon
<1>4. m.step = step /\ m.seq = seq /\ m.net = net /\ m.http = http /\ m.out = out
  BY Zenon, <1>3 DEF State
<1>5. m \in Machine
  <2>1. step \in [Seqs -> StepRec]
    BY Zenon, <1>1, <1>2
  <2>2. seq \in 0 .. MaxSeq
    BY <1>2, StepFlowAssumption
  <2> QED BY Zenon, <1>2, <1>3, <2>1, <2>2 DEF State, Machine
<1>6. \A s \in Seqs : m.step[s].kind = "none" /\ m.step[s].pre = {} /\ m.http[s] = 0
  BY <1>1, <1>2, <1>4
<1>7. Numbered(m)
  BY Zenon, <1>6 DEF Numbered
<1>8. Alive(m) = {}
  BY Zenon, <1>6 DEF Alive
<1>9. Linked(m, 0) /\ Addressed(m) /\ Clocked(m)
  BY <1>2, <1>4, <1>6, <1>8 DEF Linked, Addressed, Clocked
<1> QED BY Zenon, <1>3, <1>5, <1>7, <1>9 DEF Good, IInv

\* The state of the handlers.
LEMMA StateFacts ==
  ASSUME IInv
  PROVE  /\ Good(State, 0) /\ State \in Machine /\ State.seq = seq /\ State.step = step /\ State.net = net
         /\ State.http = http /\ State.out = out /\ seq \in Nat /\ MaxSeq \in Nat
         /\ \A s \in Seqs : step[s].kind # "none" => s \in Alive(State) /\ s # 0
<1>1. Good(State, 0) /\ State \in Machine
  BY Zenon DEF IInv, Good
<1>2. /\ State.seq = seq /\ State.step = step /\ State.net = net /\ State.http = http /\ State.out = out
  BY Zenon DEF State
<1>3. seq \in 0 .. MaxSeq /\ MaxSeq \in Nat
  BY Zenon, <1>1, <1>2, MachineFacts, StepFlowAssumption
<1>4. \A s \in Seqs : step[s].kind # "none" => s \in Alive(State) /\ s # 0
  BY <1>2 DEF Alive, Seqs
<1> QED BY <1>1, <1>2, <1>3, <1>4

\* The record of a new flow.
FlowRec(kind, chain) ==
  [kind |-> kind, upper |-> 0, pre |-> {}, timer |-> "armed", fresh |-> FALSE, st |-> 0, last |-> 0,
   next |-> -1, to |-> 0, delay |-> FALSE, chain |-> chain, retry |-> FALSE, mod |-> FALSE]

LEMMA NewFlow ==
  /\ [NewStep EXCEPT !.kind = "state"] = FlowRec("state", 0)
  /\ [NewStep EXCEPT !.kind = "data", !.chain = MaxChain - 1] = FlowRec("data", MaxChain - 1)
  /\ \A k \in {"state", "data"}, v \in Nat :
       /\ FlowRec(k, v) \in StepRec /\ FlowRec(k, v).kind = k /\ FlowRec(k, v).upper = 0
       /\ FlowRec(k, v).pre = {} /\ FlowRec(k, v).timer = "armed"
<1>1. [NewStep EXCEPT !.kind = "state"] = FlowRec("state", 0)
  <2>1. PICK r : r = [NewStep EXCEPT !.kind = "state"]
    BY Zenon
  <2>2. r = FlowRec("state", 0)
    BY Zenon, <2>1 DEF NewStep, FlowRec
  <2> QED BY Zenon, <2>1, <2>2
<1>2. [NewStep EXCEPT !.kind = "data", !.chain = MaxChain - 1] = FlowRec("data", MaxChain - 1)
  <2>1. PICK r : r = [NewStep EXCEPT !.kind = "data", !.chain = MaxChain - 1]
    BY Zenon
  <2>2. r = FlowRec("data", MaxChain - 1)
    BY Zenon, <2>1 DEF NewStep, FlowRec
  <2> QED BY Zenon, <2>1, <2>2
<1>3. ASSUME NEW k \in {"state", "data"}, NEW v \in Nat
      PROVE  /\ FlowRec(k, v) \in StepRec /\ FlowRec(k, v).kind = k /\ FlowRec(k, v).upper = 0
             /\ FlowRec(k, v).pre = {} /\ FlowRec(k, v).timer = "armed"
  BY StepFlowAssumption DEF FlowRec, StepRec
<1> QED BY Zenon, <1>1, <1>2, <1>3

\* A flow that was just registered runs.
LEMMA NewFlowRuns ==
  ASSUME NEW m, Good(m, 0), m.seq + 2 <= MaxSeq, NEW k \in {"state", "data"}, NEW v \in Nat
  PROVE  Runs(RegisterCallback(m, FlowRec(k, v)), 0, m.seq + 1)
<1> DEFINE r == FlowRec(k, v)
           n == m.seq + 1
           y == RegisterCallback(m, r)
<1>1. m.seq \in Nat /\ MaxSeq \in Nat
  <2>1. m \in Machine
    BY Zenon DEF Good
  <2> QED BY <2>1, MachineFacts, StepFlowAssumption
<1>2. n \in Seqs /\ n # 0 /\ m.seq + 1 <= MaxSeq /\ n + 1 <= MaxSeq /\ 0 \in 0 .. n
  BY <1>1 DEF Seqs
<1>3. r \in StepRec /\ r.kind = k /\ r.upper = 0 /\ r.pre = {} /\ r.timer = "armed"
  BY NewFlow
<1> HIDE DEF r
<1>4. Good(y, 0) /\ y.seq = n /\ y.step[n] = r
  BY Zenon, <1>2, <1>3, RegisterFlow
<1> HIDE DEF y
<1>5. n \in Alive(y) \ {0} /\ y.step[n].kind \in {"state", "data"}
  BY Zenon, <1>2, <1>3, <1>4 DEF Alive
<1>6. Runs(y, 0, n)
  BY Zenon, <1>2, <1>4, <1>5 DEF Runs
<1> QED BY Zenon, <1>6 DEF y, r

LEMMA LaunchIInv ==
  ASSUME IInv, NEW c \in Choice, Launch(c)
  PROVE  IInv'
<1> DEFINE m0 == [State EXCEPT !.out[seq + 1].run = TRUE]
           m == RegisterCallback(m0, FlowRec("state", 0))
<1>1. seq + 2 <= MaxSeq /\ Become(ExecStep(m, seq + 1, c))
  BY Zenon, NewFlow DEF Launch, Room
<1>2. Good(State, 0) /\ State \in Machine /\ State.seq = seq /\ seq \in Nat /\ MaxSeq \in Nat
  BY Zenon, StateFacts
<1>3. seq + 1 \in Seqs
  BY <1>1, <1>2 DEF Seqs
<1>4. PICK s : s = State
  BY Zenon
<1>5. PICK n : n = seq + 1
  BY Zenon
<1>6. Good(m0, 0) /\ m0.seq = seq
  <2> DEFINE o == [s.out EXCEPT ![n].run = TRUE]
  <2>1. m0 = [s EXCEPT !.out = o]
    BY Zenon, <1>4, <1>5
  <2>2. s \in Machine /\ Good(s, 0) /\ s.seq = seq /\ n \in Seqs
    BY Zenon, <1>2, <1>3, <1>4, <1>5
  <2>3. s.out \in [Seqs -> [run : BOOLEAN, succ : Nat, fail : Nat]]
    BY Zenon, <2>2, MachineFacts
  <2>4. /\ o \in [Seqs -> [run : BOOLEAN, succ : Nat, fail : Nat]]
        /\ \A k \in Seqs : o[k].succ = s.out[k].succ /\ o[k].fail = s.out[k].fail
    BY Zenon, <2>2, <2>3
  <2> HIDE DEF o, m0
  <2>5. /\ m0 \in Machine /\ m0.seq = s.seq /\ m0.step = s.step /\ m0.net = s.net /\ m0.http = s.http
        /\ m0.out = o
    BY Zenon, <2>1, <2>2, <2>4 DEF Machine
  <2>6. Addressed(m0)
    BY Zenon, <2>2, <2>5 DEF Good, Addressed
  <2>7. Clocked(m0)
    BY Zenon, <2>2, <2>4, <2>5 DEF Good, Clocked, Told
  <2>8. Good(m0, 0)
    BY Zenon, <2>2, <2>5, <2>6, <2>7, TiesKept
  <2> QED BY Zenon, <2>2, <2>5, <2>8
<1> HIDE DEF m0
<1>7. Runs(m, 0, seq + 1)
  BY Zenon, <1>1, <1>6, NewFlowRuns
<1> HIDE DEF m
<1>8. Good(ExecStep(m, seq + 1, c), 0)
  BY Zenon, <1>7, ExecStepGood
<1> QED BY Zenon, <1>1, <1>8, BecomeGood

LEMMA LaunchDataIInv ==
  ASSUME IInv, NEW c \in Choice, LaunchData(c)
  PROVE  IInv'
<1> DEFINE m == RegisterCallback(State, FlowRec("data", MaxChain - 1))
<1>1. seq + 2 <= MaxSeq /\ MaxChain > 0 /\ Become(SendToCallback(m, seq + 1, c))
  BY Zenon, NewFlow DEF LaunchData, Room
<1>2. Good(State, 0) /\ State.seq = seq
  BY Zenon, StateFacts
<1>3. MaxChain - 1 \in Nat
  BY <1>1, StepFlowAssumption
<1>4. Runs(m, 0, seq + 1)
  BY Zenon, <1>1, <1>2, <1>3, NewFlowRuns
<1> HIDE DEF m
<1>5. Good(SendToCallback(m, seq + 1, c), 0)
  BY Zenon, <1>4, SendRuns
<1> QED BY Zenon, <1>1, <1>5, BecomeGood

LEMMA LaunchSessionIInv ==
  ASSUME IInv, NEW c \in Choice, LaunchSession(c)
  PROVE  IInv'
<1>1. seq + 2 <= MaxSeq /\ Become(SendToCallback(State, 0, c))
  BY Zenon DEF LaunchSession, Room
<1>2. Good(State, 0) /\ State.seq = seq /\ seq \in Nat /\ MaxSeq \in Nat
  BY Zenon, StateFacts
<1>3. MaySend(State, 0, 0)
  BY <1>1, <1>2 DEF MaySend
<1>4. Good(SendToCallback(State, 0, c), 0)
  BY Zenon, <1>2, <1>3, SendToCallbackGood
<1> QED BY Zenon, <1>1, <1>4, BecomeGood

LEMMA DisposeIInv ==
  ASSUME IInv, NEW n \in Seqs, NEW rsp \in Responses, NEW c \in Choice, Dispose(n, rsp, c)
  PROVE  IInv'
<1> DEFINE m == [State EXCEPT !.net = @ \ {n}]
           y == IF ~IsRegistered(m, n) THEN m
                ELSE DeleteCallback(IF rsp = "syserr" THEN m ELSE NodeCallback(m, n, rsp, c), n)
<1>1. n \in net /\ seq + 2 <= MaxSeq /\ Become(y)
  BY Zenon DEF Dispose, Room
<1>2. /\ Good(State, 0) /\ State \in Machine /\ State.seq = seq /\ State.net = net
      /\ \A s \in Seqs : State.step[s].kind # "none" => s \in Alive(State) /\ s # 0
  BY Zenon, StateFacts
<1>3. PICK s : s = State
  BY Zenon
<1>4. Good(m, 0) /\ m.seq = seq /\ m.step = State.step
  <2>1. s \in Machine /\ Good(s, 0) /\ m = [s EXCEPT !.net = @ \ {n}]
    BY Zenon, <1>2, <1>3
  <2> HIDE DEF m
  <2>2. /\ m \in Machine /\ m.seq = s.seq /\ m.step = s.step /\ m.net = s.net \ {n} /\ m.http = s.http
        /\ m.out = s.out
    BY Zenon, <2>1 DEF Machine
  <2>3. Addressed(m)
    BY Zenon, <2>1, <2>2 DEF Good, Addressed
  <2>4. Clocked(m)
    BY Zenon, <2>1, <2>2 DEF Good, Clocked, Told
  <2>5. Good(m, 0)
    BY Zenon, <2>1, <2>2, <2>3, <2>4, TiesKept
  <2> QED BY Zenon, <1>2, <1>3, <2>2, <2>5
<1> HIDE DEF m
<1>5. Good(y, 0)
  <2>1. CASE ~ IsRegistered(m, n)
    BY Zenon, <1>4, <2>1
  <2>2. CASE IsRegistered(m, n)
    <3>1. m.step[n].kind = "node" /\ n \in Alive(m) /\ n # 0
      <4>1. State.step[n].kind \in {"none", "node"}
        BY Zenon, <1>1, <1>2 DEF Good, Addressed
      <4> QED BY Zenon, <1>4, <2>2, <4>1 DEF IsRegistered, Alive
    <3>2. CASE rsp = "syserr"
      <4>1. y = DeleteCallback(m, n)
        BY Zenon, <2>2, <3>2
      <4> QED BY Zenon, <1>4, <3>1, <4>1, DeleteCallbackGood
    <3>3. CASE rsp # "syserr"
      <4>1. y = DeleteCallback(NodeCallback(m, n, rsp, c), n)
        BY Zenon, <2>2, <3>3
      <4> QED BY Zenon, <1>1, <1>4, <3>1, <4>1, CallbackGood
    <3> QED BY Zenon, <3>2, <3>3
  <2> QED BY Zenon, <2>1, <2>2
<1> HIDE DEF y
<1> QED BY Zenon, <1>1, <1>5, BecomeGood

\* An HTTP request is over.
LEMMA HttpOver ==
  ASSUME NEW s, Good(s, 0), NEW u \in Seqs, s.http[u] > 0
  PROVE  LET m == [s EXCEPT !.http[u] = @ - 1]
         IN  Good(m, 0) /\ m.seq = s.seq /\ m.step = s.step /\ m.step[u].kind \in {"none", "state"}
<1> DEFINE m == [s EXCEPT !.http[u] = @ - 1]
           h == [s.http EXCEPT ![u] = @ - 1]
<1>1. s \in Machine /\ Addressed(s) /\ Clocked(s)
  BY Zenon DEF Good
<1>2. s.http \in [Seqs -> Nat]
  BY Zenon, <1>1, MachineFacts
<1>3. h \in [Seqs -> Nat] /\ \A k \in Seqs : h[k] > 0 => s.http[k] > 0
  BY <1>2
<1>4. m = [s EXCEPT !.http = h]
  BY Zenon
<1> HIDE DEF m, h
<1>5. /\ m \in Machine /\ m.seq = s.seq /\ m.step = s.step /\ m.net = s.net /\ m.http = h
      /\ m.out = s.out
  BY Zenon, <1>1, <1>3, <1>4 DEF Machine
<1>6. Addressed(m)
  BY Zenon, <1>1, <1>3, <1>5 DEF Addressed
<1>7. Clocked(m)
  BY Zenon, <1>1, <1>5 DEF Clocked, Told
<1>8. Good(m, 0)
  BY Zenon, <1>5, <1>6, <1>7, TiesKept
<1>9. s.step[u].kind \in {"none", "state"}
  BY Zenon, <1>1 DEF Addressed
<1> QED BY Zenon, <1>5, <1>8, <1>9 DEF m

LEMMA DisposeHttpIInv ==
  ASSUME IInv, NEW u \in Seqs, NEW c \in Choice, DisposeHttp(u, c)
  PROVE  IInv'
<1> DEFINE m == [State EXCEPT !.http[u] = @ - 1]
           f == [m EXCEPT !.step[u].fresh = TRUE]
           x == [m EXCEPT !.step[u].fresh = TRUE, !.step[u].to = 0]
           y == IF IsRegistered(m, u) THEN Settle(StateEmit(x, u, c), u) ELSE m
<1>1. http[u] > 0 /\ seq + 2 <= MaxSeq /\ Become(y)
  BY Zenon DEF DisposeHttp, Room
<1>2. Good(State, 0) /\ State.seq = seq /\ State.http[u] > 0 /\ seq \in Nat /\ MaxSeq \in Nat
  BY Zenon, <1>1, StateFacts
<1>3. Good(m, 0) /\ m.seq = seq /\ m.step[u].kind \in {"none", "state"}
  BY Zenon, <1>2, HttpOver
<1> HIDE DEF m
<1>4. Good(y, 0)
  <2>1. CASE ~ IsRegistered(m, u)
    BY Zenon, <1>3, <2>1
  <2>2. CASE IsRegistered(m, u)
    <3> DEFINE e == StateEmit(x, u, c)
    <3>1. y = Settle(e, u)
      BY Zenon, <2>2
    <3>2. u \in Alive(m) \ {0} /\ m.step[u].kind = "state"
      BY Zenon, <1>3, <2>2 DEF IsRegistered, Alive
    <3>3. Runs(m, 0, u)
      BY <1>1, <1>2, <1>3, <3>2 DEF Runs
    <3>4. m \in Machine
      BY Zenon, <1>3 DEF Good
    <3>5. Tuning(m, x, u)
      <4>1. Tuning(m, f, u)
        BY Zenon, <3>4, SetFresh
      <4>2. f \in Machine
        BY Zenon, <4>1 DEF Tuning
      <4>3. x = [f EXCEPT !.step[u].to = 0]
        BY Zenon
      <4> HIDE DEF f, x
      <4>4. Tuning(f, x, u)
        BY Zenon, <4>2, <4>3, SetTo
      <4> QED BY Zenon, <4>1, <4>4, TuningTwice
    <3> HIDE DEF x, y
    <3>6. Runs(x, 0, u) /\ x.step[u].kind = "state"
      BY Zenon, <3>2, <3>3, <3>5, TuningRuns
    <3>7. Good(e.m, 0) /\ Forward(x, e.m, u) /\ (e.status # "running" => Told(e.m, u))
      BY Zenon, <3>6, StateEmitGood
    <3> HIDE DEF e
    <3>8. u \in Alive(e.m) /\ u # 0
      BY Zenon, <3>2, <3>6, <3>7 DEF Forward, Alive
    <3> QED BY Zenon, <3>1, <3>7, <3>8, SettleGood
  <2> QED BY Zenon, <2>1, <2>2
<1> HIDE DEF y
<1> QED BY Zenon, <1>1, <1>4, BecomeGood

LEMMA DestroyConnectIInv ==
  ASSUME IInv, NEW u \in Seqs, DestroyConnect(u)
  PROVE  IInv'
<1> DEFINE m == [State EXCEPT !.http[u] = @ - 1]
<1>1. http[u] > 0 /\ Become(m)
  BY Zenon DEF DestroyConnect
<1>2. Good(State, 0) /\ State.http[u] > 0
  BY Zenon, <1>1, StateFacts
<1>3. Good(m, 0)
  BY Zenon, <1>2, HttpOver
<1> HIDE DEF m
<1> QED BY Zenon, <1>1, <1>3, BecomeGood

LEMMA StepTimeoutIInv ==
  ASSUME IInv, NEW s \in Seqs, NEW c \in Choice, StepTimeout(s, c)
  PROVE  IInv'
<1> DEFINE m == State
           e == Timeout(m, s, c)
           f == [m EXCEPT !.step[s].fresh = FALSE]
           y == IF step[s].fresh THEN f ELSE Settle(e, s)
<1>1. step[s].kind # "none" /\ seq + 2 <= MaxSeq /\ Become(y)
  BY Zenon DEF StepTimeout, Room
<1>2. /\ Good(m, 0) /\ m \in Machine /\ m.seq = seq /\ m.step = step /\ seq \in Nat /\ MaxSeq \in Nat
      /\ s \in Alive(m) /\ s # 0
  BY Zenon, <1>1, StateFacts
<1> HIDE DEF m
<1>3. m.step[s].kind \in {"node", "state", "data"}
  <2>1. m.step[s] \in StepRec
    BY Zenon, <1>2, MachineFacts
  <2> QED BY Zenon, <1>1, <1>2, <2>1 DEF StepRec
<1>4. CASE step[s].fresh
  <2>1. Tuning(m, f, s)
    BY Zenon, <1>2, SetFresh
  <2>2. y = f
    BY Zenon, <1>4
  <2> HIDE DEF f, y
  <2>3. Good(f, 0)
    BY Zenon, <1>2, <2>1, TuningGood
  <2> QED BY Zenon, <1>1, <2>2, <2>3, BecomeGood
<1>5. CASE ~ step[s].fresh
  <2>1. y = Settle(e, s)
    BY Zenon, <1>5
  <2> HIDE DEF y
  <2>2. /\ Good(e.m, 0) /\ e.m.step[s].kind = m.step[s].kind
        /\ e.status # "running" /\ m.step[s].kind = "state" => Told(e.m, s)
    <3>1. CASE m.step[s].kind = "node"
      <4>1. e = NodeTimeout(m, s, c)
        BY Zenon, <3>1 DEF Timeout
      <4> HIDE DEF e
      <4> QED BY Zenon, <1>2, <3>1, <4>1, NodeTimeoutGood
    <3>2. CASE m.step[s].kind \in {"state", "data"}
      <4>1. Runs(m, 0, s)
        BY <1>1, <1>2, <3>2 DEF Runs
      <4>2. CASE m.step[s].kind = "state"
        <5>1. e = StateTimeout(m, s, c)
          BY Zenon, <4>2 DEF Timeout
        <5> HIDE DEF e
        <5> QED BY <4>1, <4>2, <5>1, StateTimeoutGood DEF Forward
      <4>3. CASE m.step[s].kind = "data"
        <5>1. e = Emit(m, s, c)
          BY Zenon, <4>3 DEF Timeout, Emit
        <5> HIDE DEF e
        <5> QED BY <4>1, <4>3, <5>1, EmitGood DEF Forward
      <4> QED BY Zenon, <3>2, <4>2, <4>3
    <3> QED BY Zenon, <1>3, <3>1, <3>2
  <2> HIDE DEF e
  <2>3. s \in Alive(e.m)
    BY Zenon, <1>3, <2>2 DEF Alive
  <2>4. Good(y, 0)
    BY Zenon, <1>2, <2>1, <2>2, <2>3, SettleGood
  <2> QED BY Zenon, <1>1, <2>4, BecomeGood
<1> QED BY Zenon, <1>4, <1>5

LEMMA NextIInv == IInv /\ [Next]_vars => IInv'
<1> SUFFICES ASSUME IInv, [Next]_vars
             PROVE  IInv'
  BY Zenon
<1>1. CASE \E c \in Choice : Launch(c)
  BY Zenon, <1>1, LaunchIInv
<1>2. CASE \E c \in Choice : LaunchData(c)
  BY Zenon, <1>2, LaunchDataIInv
<1>3. CASE \E c \in Choice : LaunchSession(c)
  BY Zenon, <1>3, LaunchSessionIInv
<1>4. CASE \E n \in Seqs, rsp \in Responses, c \in Choice : Dispose(n, rsp, c)
  BY Zenon, <1>4, DisposeIInv
<1>5. CASE \E u \in Seqs, c \in Choice : DisposeHttp(u, c)
  BY Zenon, <1>5, DisposeHttpIInv
<1>6. CASE \E u \in Seqs : DestroyConnect(u)
  BY Zenon, <1>6, DestroyConnectIInv
<1>7. CASE \E s \in Seqs, c \in Choice : StepTimeout(s, c)
  BY Zenon, <1>7, StepTimeoutIInv
<1>8. CASE UNCHANGED vars
  <2>1. State' = State
    BY Zenon, <1>8 DEF vars, State
  <2>2. Good(State', 0)
    BY Zenon, <2>1 DEF IInv
  <2> QED BY Zenon, <2>2 DEF IInv
<1> QED BY Zenon, <1>1, <1>2, <1>3, <1>4, <1>5, <1>6, <1>7, <1>8 DEF Next

\* Whatever the state functions do, however many requests a flow has in the air and in
\* whatever order their answers, failures and timeouts come, DeleteCallback destroys no step
\* while a request of it is registered, and the predecessors AddPreStepSeq keeps are exactly
\* its unfinished requests.
THEOREM UpperOutlives == Spec => []UpperOutlivesRequests
<1>1. IInv => UpperOutlivesRequests
  <2> SUFFICES ASSUME IInv
               PROVE  UpperOutlivesRequests
    BY Zenon
  <2>1. Linked(State, 0) /\ State.step = step /\ State \in Machine
    BY Zenon, StateFacts DEF Good
  <2>2. 0 \notin Seqs /\ Alive(State) = {s \in Seqs : Live(s)}
    BY <2>1 DEF Alive, Live, Seqs
  <2>3. \A n \in Alive(State) : step[n].upper # 0 => step[n].upper \in Alive(State)
    BY Zenon, <2>1, <2>2 DEF Linked
  <2>4. \A u \in Alive(State) :
          step[u].pre \cap Alive(State) = {n \in Alive(State) : step[n].upper = u}
    BY ZenonT(30), <2>1, <2>2 DEF Linked
  <2>5. \A u \in Seqs : step[u].pre \subseteq Seqs
    BY Zenon, <2>1, MachineFacts DEF StepRec
  <2>6. \A n \in Seqs : Live(n) /\ step[n].upper # 0 => Live(step[n].upper)
    BY Zenon, <2>2, <2>3
  <2>7. ASSUME NEW u \in Seqs, Live(u)
        PROVE  {p \in step[u].pre : Live(p)} = {n \in Seqs : Live(n) /\ step[n].upper = u}
    BY Zenon, <2>2, <2>4, <2>5, <2>7
  <2> QED BY Zenon, <2>6, <2>7 DEF UpperOutlivesRequests
<1> QED BY <1>1, InitIInv, NextIInv, PTL DEF Spec

\* No StepState waits for an event that nothing will bring: the only steps whose timer is
\* out of the way are those DeleteCallback put off, and those have run their success or
\* failure hook.
THEOREM ClockStops == Spec => []ClockStopsAfterOutcome
<1>1. IInv => ClockStopsAfterOutcome
  BY Zenon, StateFacts DEF Good, Clocked, Told, ClockStopsAfterOutcome
<1> QED BY <1>1, InitIInv, NextIInv, PTL DEF Spec
=============================================================================
