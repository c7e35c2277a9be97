---------------------------- MODULE RedisPipeProofs ----------------------------
(***************************************************************************)
(* What RedisPipe keeps for every number of steps.                         *)
(*                                                                         *)
(* PipeOK, the inductive invariant, is a predicate on the record State of  *)
(* the variables, so that it can be stated of the values a handler goes    *)
(* through: at an address that is connected the commands in flight are the *)
(* steps of listData, in order; at one that connects they wait; a step     *)
(* lives at one address at most, and is there exactly while it lives, but  *)
(* for a read that fell back to the master while its list was failed.      *)
(* The loop of FailAll is followed one step of the list at a time (Lost).  *)
(***************************************************************************)
EXTENDS RedisPipe, FiniteSetTheorems, TLAPS

\* A set of numbers that is not empty has a least one.
LEMMA Least ==
  ASSUME NEW S \in SUBSET Nat, S # {}
  PROVE  \E m \in S : \A y \in S : m =< y
<1>1. PICK m \in S : \A y \in S : ~ (<<y, m>> \in OpToRel(<, Nat))
  BY Zenon, NatLessThanWellFounded, WFMin
<1>2. \A y \in S : m =< y
  <2>1. SUFFICES ASSUME NEW y \in S, y < m PROVE FALSE
    OBVIOUS
  <2>2. OpToRel(<, Nat) = {p \in Nat \X Nat : p[1] < p[2]}
    BY Zenon DEF OpToRel
  <2>3. <<y, m>> \in {p \in Nat \X Nat : p[1] < p[2]}
    BY Zenon, <2>1
  <2> QED BY Zenon, <1>1, <2>2, <2>3
<1> QED BY Zenon, <1>2

\* The states that the first i steps of the list may lead to.
Failing(m, list, g) ==
  g = [i \in 0 .. Len(list) |->
         IF i = 0 THEN {m} ELSE UNION {FailStep(x, list[i]) : x \in g[i - 1]}]

\* The loop of FailAll has a value.
LEMMA FailAllDefined ==
  ASSUME NEW m, NEW list \in Seq(Steps)
  PROVE  \E g : Failing(m, list, g) /\ FailAll(m, list) = g[Len(list)]
<1> DEFINE Up(k, g) == g = [i \in 0 .. k |->
                  IF i = 0 THEN {m} ELSE UNION {FailStep(x, list[i]) : x \in g[i - 1]}]
           Bad == {k \in Nat : ~ \E g : Up(k, g)}
<1>1. Bad = {}
  <2> SUFFICES ASSUME Bad # {} PROVE FALSE
    BY Zenon
  <2>1. PICK k \in Bad : \A y \in Bad : k =< y
    <3>1. Bad \in SUBSET Nat
      BY Zenon
    <3> HIDE DEF Bad
    <3> QED BY Zenon, <3>1, Least
  <2>2. CASE k = 0
    <3>1. PICK g : g = [i \in 0 .. k |-> {m}]
      BY Zenon
    <3> DEFINE R(i) == IF i = 0 THEN {m} ELSE UNION {FailStep(x, list[i]) : x \in g[i - 1]}
    <3>2. \A i \in 0 .. k : R(i) = {m}
      BY <2>2
    <3> HIDE DEF R
    <3>3. g = [i \in 0 .. k |-> R(i)]
      BY Zenon, <3>1, <3>2
    <3>4. Up(k, g)
      BY Zenon, <3>3 DEF R
    <3> QED BY Zenon, <2>1, <3>4
  <2>3. CASE k # 0
    <3>1. k - 1 \in Nat /\ k - 1 \notin Bad
      <4>1. k \in Nat
        BY Zenon
      <4> HIDE DEF Bad
      <4> QED BY <4>1, <2>1, <2>3
    <3>2. PICK g : Up(k - 1, g)
      BY Zenon, <3>1
    <3> DEFINE h == [i \in 0 .. k |-> IF i = k THEN UNION {FailStep(x, list[k]) : x \in g[k - 1]}
                                     ELSE g[i]]
    <3>3. Up(k, h)
      <4>1. k \in Nat
        BY Zenon, <2>1
      <4>2. \A i \in 0 .. k : h[i] = IF i = 0 THEN {m}
                                     ELSE UNION {FailStep(x, list[i]) : x \in h[i - 1]}
        <5> SUFFICES ASSUME NEW i \in 0 .. k
                     PROVE  h[i] = IF i = 0 THEN {m}
                                   ELSE UNION {FailStep(x, list[i]) : x \in h[i - 1]}
          BY Zenon
        <5>1. CASE i = k
          <6>1. h[i - 1] = g[i - 1]
            BY <5>1, <4>1, <2>3
          <6> QED BY Zenon, <5>1, <6>1, <2>3
        <5>2. CASE i # k /\ i # 0
          <6>1. h[i - 1] = g[i - 1] /\ h[i] = g[i]
            BY <5>2, <4>1
          <6>2. g[i] = UNION {FailStep(x, list[i]) : x \in g[i - 1]}
            BY <3>2, <5>2, <4>1
          <6> QED BY Zenon, <5>2, <6>1, <6>2
        <5>3. CASE i # k /\ i = 0
          <6>1. g[0] = {m}
            BY <3>2, <3>1
          <6> QED BY Zenon, <5>3, <6>1
        <5> QED BY Zenon, <5>1, <5>2, <5>3
      <4> QED BY Zenon, <4>2
    <3> QED BY Zenon, <2>1, <3>3
  <2> QED BY Zenon, <2>2, <2>3
<1>2. Len(list) \in Nat
  OBVIOUS
<1>3. \E g : Up(Len(list), g)
  BY Zenon, <1>1, <1>2
<1>4. \E g : Failing(m, list, g)
  BY Zenon, <1>3 DEF Failing
<1> QED
  BY Zenon, <1>4 DEF FailAll, Failing

-----------------------------------------------------------------------------
(* The states, and the lists of steps. *)

Rec == [kind : {"read", "write", "ttl", "ping"}, life : {"live", "gone", "none"}, reg : BOOLEAN,
        num : Nat, master : Node \cup {NoNode}, slave : Node \cup {NoNode}, rsp : Nat,
        db : BOOLEAN]
Lists == [Node -> Seq(Steps)]
States == [step : [Steps -> Rec], conn : [Node -> {"none", "connecting", "up", "closing"}],
           data : Lists, wait : Lists, sent : Lists, ping : [Node -> BOOLEAN], crashed : BOOLEAN]

\* No step twice.
Once(q) == \A i, j \in 1 .. Len(q) : q[i] = q[j] => i = j

LEMMA ListFacts ==
  /\ Range(<<>>) = {} /\ Once(<<>>) /\ <<>> \in Seq(Steps)
  /\ \A s \in Steps : Range(<<s>>) = {s} /\ Once(<<s>>) /\ <<s>> \in Seq(Steps)
  /\ \A q \in Seq(Steps) : Range(q) = {q[i] : i \in 1 .. Len(q)} /\ Range(q) \subseteq Steps
BY DEF Range, Once

LEMMA Appended ==
  ASSUME NEW q \in Seq(Steps), NEW s \in Steps
  PROVE  /\ Append(q, s) \in Seq(Steps) /\ Range(Append(q, s)) = Range(q) \cup {s}
         /\ s \notin Range(q) /\ Once(q) => Once(Append(q, s))
         /\ Append(q, s) # <<>>
<1> DEFINE r == Append(q, s)
<1>1. /\ r \in Seq(Steps) /\ Len(r) = Len(q) + 1 /\ r[Len(r)] = s /\ Len(q) \in Nat
      /\ \A i \in 1 .. Len(q) : r[i] = q[i]
  OBVIOUS
<1>2. Range(r) = {r[i] : i \in 1 .. Len(r)} /\ Range(q) = {q[i] : i \in 1 .. Len(q)}
  BY Zenon, <1>1, ListFacts
<1> HIDE DEF r
<1>3. Range(r) = Range(q) \cup {s}
  <2>1. \A i \in 1 .. Len(r) : i \in 1 .. Len(q) \/ i = Len(r)
    BY <1>1
  <2>2. 1 .. Len(q) \subseteq 1 .. Len(r) /\ Len(r) \in 1 .. Len(r)
    BY <1>1
  <2>3. Range(r) \subseteq Range(q) \cup {s}
    BY Zenon, <1>1, <1>2, <2>1
  <2>4. Range(q) \cup {s} \subseteq Range(r)
    BY Zenon, <1>1, <1>2, <2>2
  <2> QED BY Zenon, <2>3, <2>4
<1>4. ASSUME s \notin Range(q), Once(q) PROVE Once(r)
  BY <1>1, <1>2, <1>4 DEF Once
<1>5. r # <<>>
  BY <1>1
<1> QED BY Zenon, <1>1, <1>3, <1>4, <1>5 DEF r

LEMMA Behead ==
  ASSUME NEW q \in Seq(Steps), q # <<>>
  PROVE  /\ Tail(q) \in Seq(Steps) /\ Head(q) \in Steps /\ Head(q) \in Range(q)
         /\ Range(Tail(q)) \subseteq Range(q)
         /\ Range(q) \subseteq Range(Tail(q)) \cup {Head(q)}
         /\ Once(q) => Once(Tail(q)) /\ Head(q) \notin Range(Tail(q))
         /\ \A s \in Steps : Tail(Append(q, s)) = Append(Tail(q), s)
<1> DEFINE r == Tail(q)
<1>1. /\ r \in Seq(Steps) /\ Len(q) \in Nat \ {0} /\ Len(r) = Len(q) - 1 /\ Head(q) = q[1]
      /\ \A i \in 1 .. Len(r) : r[i] = q[i + 1]
  OBVIOUS
<1>2. Range(r) = {r[i] : i \in 1 .. Len(r)} /\ Range(q) = {q[i] : i \in 1 .. Len(q)}
  BY Zenon, <1>1, ListFacts
<1>7. \A s \in Steps : Tail(Append(q, s)) = Append(r, s)
  <2> SUFFICES ASSUME NEW s \in Steps
               PROVE  Tail(Append(q, s)) = Append(r, s)
    BY Zenon
  <2>1. Len(Tail(Append(q, s))) = Len(q) /\ Len(Append(r, s)) = Len(q)
    BY <1>1
  <2>2. \A i \in 1 .. Len(q) : Tail(Append(q, s))[i] = Append(r, s)[i]
    <3> HIDE DEF r
    <3>1. ASSUME NEW i \in 1 .. Len(q)
          PROVE  Tail(Append(q, s))[i] = Append(q, s)[i + 1]
      BY <1>1
    <3>2. ASSUME NEW i \in 1 .. Len(q)
          PROVE  Append(q, s)[i + 1] = IF i = Len(q) THEN s ELSE q[i + 1]
      BY <1>1
    <3>3. ASSUME NEW i \in 1 .. Len(q)
          PROVE  Append(r, s)[i] = IF i = Len(q) THEN s ELSE r[i]
      BY <1>1
    <3>4. ASSUME NEW i \in 1 .. Len(q), i # Len(q)
          PROVE  r[i] = q[i + 1]
      BY <1>1, <3>4
    <3> QED BY Zenon, <3>1, <3>2, <3>3, <3>4
  <2>3. Tail(Append(q, s)) \in Seq(Steps) /\ Append(r, s) \in Seq(Steps)
    BY <1>1
  <2>4. \A u, v \in Seq(Steps) : Len(u) = Len(v) /\ (\A i \in 1 .. Len(u) : u[i] = v[i]) => u = v
    OBVIOUS
  <2> QED BY Zenon, <2>1, <2>2, <2>3, <2>4
<1> HIDE DEF r
<1>3. q[1] \in Range(q) /\ q[1] \in Steps
  BY <1>1, <1>2
<1>4. Range(r) \subseteq Range(q)
  <2>1. \A i \in 1 .. Len(r) : i + 1 \in 1 .. Len(q)
    BY <1>1
  <2> QED BY Zenon, <1>1, <1>2, <2>1
<1>5. Range(q) \subseteq Range(r) \cup {Head(q)}
  <2>1. \A i \in 1 .. Len(q) : i = 1 \/ (i - 1 \in 1 .. Len(r) /\ (i - 1) + 1 = i)
    BY <1>1
  <2>2. \A i \in 1 .. Len(q) : q[i] = Head(q) \/ q[i] = r[i - 1]
    BY Zenon, <1>1, <2>1
  <2> QED BY <1>2, <2>1, <2>2
<1>6. ASSUME Once(q) PROVE Once(r) /\ Head(q) \notin Range(r)
  <2>1. \A i \in 1 .. Len(r) : i + 1 \in 1 .. Len(q) /\ i + 1 # 1 /\ 1 \in 1 .. Len(q)
    BY <1>1
  <2>2. Head(q) \notin Range(r)
    BY <1>1, <1>2, <1>6, <2>1 DEF Once
  <2>3. \A i, j \in 1 .. Len(r) : i + 1 = j + 1 => i = j
    BY <1>1
  <2>4. Once(r)
    BY Zenon, <1>1, <1>6, <2>1, <2>3 DEF Once
  <2> QED BY Zenon, <2>2, <2>4
<1> QED BY Zenon, <1>1, <1>3, <1>4, <1>5, <1>6, <1>7 DEF r

-----------------------------------------------------------------------------
(* What the operations change. *)

SameLists(m, x) == x.conn = m.conn /\ x.data = m.data /\ x.wait = m.wait /\ x.sent = m.sent

\* All but step s and the lists.
SameRest(m, x, s) ==
  /\ x \in States /\ x.ping = m.ping /\ x.crashed = m.crashed
  /\ \A t \in Steps : t # s => x.step[t] = m.step[t]

\* Step s is the first that waits for a new context of address k.
Opens(m, x, k, s) ==
  /\ m.conn[k] = "none" /\ x.conn = [m.conn EXCEPT ![k] = "connecting"]
  /\ x.wait = [m.wait EXCEPT ![k] = <<s>>] /\ x.data = m.data /\ x.sent = m.sent

\* Step s comes behind the others of address k.
Joins(m, x, k, s) ==
  \/ /\ m.conn[k] = "up" /\ x.conn = m.conn /\ x.wait = m.wait
     /\ x.data = [m.data EXCEPT ![k] = Append(@, s)] /\ x.sent = [m.sent EXCEPT ![k] = Append(@, s)]
  \/ /\ m.conn[k] = "connecting" /\ x.conn = m.conn /\ x.data = m.data /\ x.sent = m.sent
     /\ x.wait = [m.wait EXCEPT ![k] = Append(@, s)]

Placement(m, x, s) == \E k \in Node : Opens(m, x, k, s) \/ Joins(m, x, k, s)

\* Changes of the record of a step.
Reg(r) == [r EXCEPT !.reg = TRUE]
Num(r) == [r EXCEPT !.num = @ + 1]
Rsp(r) == [r EXCEPT !.rsp = @ + 1]
Run(r) == [r EXCEPT !.db = TRUE]

\* The state m with record r for step s.
Put(m, s, r) == [m EXCEPT !.step = [m.step EXCEPT ![s] = r]]

LEMMA PutFields ==
  ASSUME NEW m \in States, NEW s \in Steps, NEW r \in Rec
  PROVE  /\ Put(m, s, r).step[s] = r /\ SameRest(m, Put(m, s, r), s)
         /\ SameLists(m, Put(m, s, r))
BY Zenon DEF Put, States, SameRest, SameLists

LEMMA RecFacts ==
  ASSUME NEW r \in Rec
  PROVE  Reg(r) \in Rec /\ Num(r) \in Rec /\ Rsp(r) \in Rec /\ Gone(r) \in Rec /\ Run(r) \in Rec
<1>1. Reg(r) \in Rec
  BY Zenon DEF Rec, Reg
<1>2. Num(r) \in Rec
  BY DEF Rec, Num
<1>3. Rsp(r) \in Rec
  BY DEF Rec, Rsp
<1>4. Gone(r) \in Rec
  BY Zenon DEF Rec, Gone
<1>5. Run(r) \in Rec
  BY Zenon DEF Rec, Run
<1> QED BY Zenon, <1>1, <1>2, <1>3, <1>4, <1>5

\* The operations as changes of the record.
LEMMA PutForms ==
  ASSUME NEW m \in States, NEW s \in Steps
  PROVE  /\ Registered(m, s) = Put(m, s, Reg(m.step[s]))
         /\ Response(m, s) = Put(m, s, Rsp(m.step[s]))
         /\ Delete(m, s) = Put(m, s, Gone(m.step[s]))
         /\ NextStep(m, s) = Put(m, s, Run(m.step[s]))
         /\ [m EXCEPT !.step[s].num = @ + 1] = Put(m, s, Num(m.step[s]))
         /\ \A r : [m EXCEPT !.step[s] = r] = Put(m, s, r)
         /\ m.step[s] \in Rec
<1>1. m.step[s] \in Rec
  BY Zenon DEF States
<1> QED
  BY Zenon, <1>1 DEF States, Registered, Response, Delete, NextStep, Put, Reg, Num, Rsp, Run

LEMMA ConnectingFields ==
  ASSUME NEW m \in States, NEW s \in Steps, NEW k \in Node, m.conn[k] = "none",
         NEW x, x = Connecting(m, k, s)
  PROVE  x.step[s] = Reg(m.step[s]) /\ SameRest(m, x, s) /\ Opens(m, x, k, s)
<1>1. m.step[s] \in Rec /\ Reg(m.step[s]) \in Rec /\ <<s>> \in Seq(Steps)
  BY RecFacts DEF States
<1>2. /\ x.step = [m.step EXCEPT ![s] = Reg(m.step[s])] /\ x.conn = [m.conn EXCEPT ![k] = "connecting"]
      /\ x.wait = [m.wait EXCEPT ![k] = <<s>>] /\ x.data = m.data /\ x.sent = m.sent
      /\ x.ping = m.ping /\ x.crashed = m.crashed
  BY Zenon DEF States, Connecting, Reg
<1>3. x = [step |-> x.step, conn |-> x.conn, data |-> x.data, wait |-> x.wait, sent |-> x.sent,
           ping |-> x.ping, crashed |-> x.crashed]
  BY Zenon DEF States, Connecting
<1>4. x \in States
  <2>1. x.step \in [Steps -> Rec]
    BY <1>1, <1>2 DEF States
  <2>2. x.conn \in [Node -> {"none", "connecting", "up", "closing"}]
    BY <1>2 DEF States
  <2>3. x.wait \in Lists
    BY <1>1, <1>2 DEF States, Lists
  <2>4. x.data \in Lists /\ x.sent \in Lists /\ x.ping \in [Node -> BOOLEAN] /\ x.crashed \in BOOLEAN
    BY Zenon, <1>2 DEF States
  <2> QED
    BY Zenon, <1>3, <2>1, <2>2, <2>3, <2>4 DEF States
<1> QED
  BY Zenon, <1>1, <1>2, <1>4 DEF SameRest, Opens, States

\* A command sent at once, and a step that waits.
LEMMA JoinFields ==
  ASSUME NEW m \in States, NEW s \in Steps, NEW k \in Node
  PROVE  /\ \A x : m.conn[k] = "up" /\ x = Sent(Registered(m, s), k, s)
                     => x.step[s] = Reg(m.step[s]) /\ SameRest(m, x, s) /\ Joins(m, x, k, s)
         /\ \A x : m.conn[k] = "connecting" /\ x = [Registered(m, s) EXCEPT !.wait[k] = Append(@, s)]
                     => x.step[s] = Reg(m.step[s]) /\ SameRest(m, x, s) /\ Joins(m, x, k, s)
<1>0. PICK y : y = Registered(m, s)
  BY Zenon
<1>1. y \in States /\ y.step[s] = Reg(m.step[s]) /\ SameRest(m, y, s) /\ SameLists(m, y)
  <2>1. m.step[s] \in Rec /\ Reg(m.step[s]) \in Rec /\ y = Put(m, s, Reg(m.step[s]))
    BY Zenon, <1>0, PutForms, RecFacts
  <2> QED BY <2>1, PutFields DEF SameRest
<1>2. \A q \in Seq(Steps) : Append(q, s) \in Seq(Steps)
  BY Zenon, Appended
<1>3. y.data[k] \in Seq(Steps) /\ y.sent[k] \in Seq(Steps) /\ y.wait[k] \in Seq(Steps)
  BY Zenon, <1>1 DEF States, Lists
<1>4. ASSUME m.conn[k] = "up", NEW x, x = Sent(y, k, s)
      PROVE  x.step[s] = Reg(m.step[s]) /\ SameRest(m, x, s) /\ Joins(m, x, k, s)
  <2>1. /\ x.step = y.step /\ x.conn = y.conn /\ x.data = [y.data EXCEPT ![k] = Append(@, s)]
        /\ x.wait = y.wait /\ x.sent = [y.sent EXCEPT ![k] = Append(@, s)]
        /\ x.ping = y.ping /\ x.crashed = y.crashed
    BY Zenon, <1>1, <1>4 DEF Sent, States
  <2>2. x = [step |-> x.step, conn |-> x.conn, data |-> x.data, wait |-> x.wait, sent |-> x.sent,
             ping |-> x.ping, crashed |-> x.crashed]
    BY Zenon, <1>1, <1>4 DEF Sent, States
  <2>3. x.data \in Lists /\ x.sent \in Lists
    BY <1>1, <1>2, <1>3, <2>1 DEF States, Lists
  <2>4. /\ x.step \in [Steps -> Rec] /\ x.conn \in [Node -> {"none", "connecting", "up", "closing"}]
        /\ x.wait \in Lists /\ x.ping \in [Node -> BOOLEAN] /\ x.crashed \in BOOLEAN
    BY Zenon, <1>1, <2>1 DEF States
  <2>5. x \in States
    BY Zenon, <2>2, <2>3, <2>4 DEF States
  <2> QED
    BY Zenon, <1>1, <1>4, <2>1, <2>5 DEF SameRest, SameLists, Joins
<1>5. ASSUME m.conn[k] = "connecting", NEW x, x = [y EXCEPT !.wait[k] = Append(@, s)]
      PROVE  x.step[s] = Reg(m.step[s]) /\ SameRest(m, x, s) /\ Joins(m, x, k, s)
  <2>1. /\ x.step = y.step /\ x.conn = y.conn /\ x.data = y.data
        /\ x.wait = [y.wait EXCEPT ![k] = Append(@, s)] /\ x.sent = y.sent
        /\ x.ping = y.ping /\ x.crashed = y.crashed
    BY Zenon, <1>1, <1>5 DEF States
  <2>2. x = [step |-> x.step, conn |-> x.conn, data |-> x.data, wait |-> x.wait, sent |-> x.sent,
             ping |-> x.ping, crashed |-> x.crashed]
    BY Zenon, <1>1, <1>5 DEF States
  <2>3. x.wait \in Lists
    BY <1>1, <1>2, <1>3, <2>1 DEF States, Lists
  <2>4. /\ x.step \in [Steps -> Rec] /\ x.conn \in [Node -> {"none", "connecting", "up", "closing"}]
        /\ x.data \in Lists /\ x.sent \in Lists /\ x.ping \in [Node -> BOOLEAN]
        /\ x.crashed \in BOOLEAN
    BY Zenon, <1>1, <2>1 DEF States
  <2>5. x \in States
    BY Zenon, <2>2, <2>3, <2>4 DEF States
  <2> QED
    BY Zenon, <1>1, <1>5, <2>1, <2>5 DEF SameRest, SameLists, Joins
<1> QED
  BY Zenon, <1>0, <1>4, <1>5

\* RegisterCallback of a step that was not registered: it is refused, or listed.
LEMMA RegisterFresh ==
  ASSUME NEW m \in States, NEW s \in Steps, NEW n \in Node \cup {NoNode}, ~ m.step[s].reg,
         \A k \in Node : m.conn[k] # "closing", NEW r \in RegisterCallback(m, n, s)
  PROVE  /\ SameRest(m, r.m, s) /\ r.m.step[s] \in {m.step[s], Reg(m.step[s])}
         /\ \/ r.ok = FALSE /\ SameLists(m, r.m)
            \/ r.ok = TRUE /\ r.m.step[s] = Reg(m.step[s]) /\ Placement(m, r.m, s)
<1>0. SameRest(m, m, s) /\ SameLists(m, m)
  BY Zenon DEF SameRest, SameLists
<1>1. CASE r = Returns(m, FALSE)
  BY Zenon, <1>0, <1>1 DEF Returns
<1>2. ASSUME n \in Node, m.conn[n] = "none", r = Returns(Connecting(m, n, s), TRUE)
      PROVE  SameRest(m, r.m, s) /\ r.ok = TRUE /\ r.m.step[s] = Reg(m.step[s]) /\ Placement(m, r.m, s)
  <2>1. r.ok = TRUE /\ r.m = Connecting(m, n, s)
    BY Zenon, <1>2 DEF Returns
  <2> QED
    BY Zenon, <1>2, <2>1, ConnectingFields DEF Placement
<1>3. ASSUME n \in Node, m.conn[n] # "none", r \in RegisterOn(m, n, s)
      PROVE  SameRest(m, r.m, s) /\ r.ok = TRUE /\ r.m.step[s] = Reg(m.step[s]) /\ Placement(m, r.m, s)
  <2>1. m.conn[n] \in {"connecting", "up"}
    BY Zenon, <1>3 DEF States
  <2>2. CASE m.conn[n] = "up"
    <3>1. r = Returns(Sent(Registered(m, s), n, s), TRUE)
      BY Zenon, <1>3, <2>2 DEF RegisterOn
    <3>2. r.ok = TRUE /\ r.m = Sent(Registered(m, s), n, s)
      BY Zenon, <3>1 DEF Returns
    <3> QED
      BY Zenon, <1>3, <2>2, <3>2, JoinFields DEF Placement
  <2>3. CASE m.conn[n] = "connecting"
    <3>1. r = Returns([Registered(m, s) EXCEPT !.wait[n] = Append(@, s)], TRUE)
      BY Zenon, <1>3, <2>3 DEF RegisterOn
    <3>2. r.ok = TRUE /\ r.m = [Registered(m, s) EXCEPT !.wait[n] = Append(@, s)]
      BY Zenon, <3>1 DEF Returns
    <3>3. r.m.step[s] = Reg(m.step[s]) /\ SameRest(m, r.m, s) /\ Joins(m, r.m, n, s)
      BY Zenon, <1>3, <2>3, <3>2, JoinFields
    <3> QED
      BY Zenon, <1>3, <3>2, <3>3 DEF Placement
  <2> QED BY Zenon, <2>1, <2>2, <2>3
<1> QED
  BY Zenon, <1>1, <1>2, <1>3 DEF RegisterCallback, AutoRedisCmd

\* RegisterCallback of a registered step: nothing, or a new context.
LEMMA RegisterAgain ==
  ASSUME NEW m \in States, NEW s \in Steps, NEW n \in Node \cup {NoNode}, m.step[s].reg,
         NEW r \in RegisterCallback(m, n, s)
  PROVE  /\ r.ok \in BOOLEAN
         /\ \/ r.m = m
            \/ /\ r.ok = TRUE /\ n \in Node /\ r.m.step[s] = Reg(m.step[s])
               /\ SameRest(m, r.m, s) /\ Opens(m, r.m, n, s)
<1>1. CASE r = Returns(m, FALSE) \/ r = Returns(m, TRUE)
  <2>1. r.m = m /\ (r.ok = FALSE \/ r.ok = TRUE)
    BY <1>1 DEF Returns
  <2> QED BY Zenon, <2>1
<1>2. ASSUME n \in Node, m.conn[n] = "none", r = Returns(Connecting(m, n, s), TRUE)
      PROVE  /\ r.ok = TRUE /\ r.m.step[s] = Reg(m.step[s])
             /\ SameRest(m, r.m, s) /\ Opens(m, r.m, n, s)
  <2>1. r.ok = TRUE /\ r.m = Connecting(m, n, s)
    BY Zenon, <1>2 DEF Returns
  <2> QED
    BY Zenon, <1>2, <2>1, ConnectingFields
<1>3. ASSUME r \in RegisterOn(m, n, s)
      PROVE  r = Returns(m, TRUE)
  BY Zenon, <1>3 DEF RegisterOn
<1> QED
  BY Zenon, <1>1, <1>2, <1>3 DEF RegisterCallback, AutoRedisCmd

\* A read whose Emit ran for the master.
Fell(r) == r.kind = "read" /\ r.num = 2

\* The record of a step: one that lives has answered nobody, handed nothing on and sent
\* its first command only; one that is deleted has answered or run its DB step, unless
\* it is a read that fell back; and a write that ran its DB step has answered.
RecOK(r) ==
  /\ r.life = "live" => /\ r.reg /\ r.rsp = 0 /\ r.db = FALSE
                        /\ r.kind \in {"read", "ping"} => r.num = 1
  /\ r.rsp <= 1
  /\ r.life = "gone" /\ r.kind \in {"read", "write"} /\ ~ Fell(r) => r.rsp = 1 \/ r.db = TRUE
  /\ r.kind = "write" /\ r.db = TRUE => r.rsp = 1

\* The new step s was listed, or failed at once.
Added(m, x, s) ==
  /\ SameRest(m, x, s) /\ RecOK(x.step[s])
  /\ \/ x.step[s].life = "gone" /\ SameLists(m, x)
     \/ x.step[s].life = "live" /\ Placement(m, x, s)

\* Emit of the new step s returned r.
Emitted(m, r, s) ==
  /\ SameRest(m, r.m, s)
  /\ \/ r.ok = FALSE /\ SameLists(m, r.m) /\ RecOK(Gone(r.m.step[s]))
     \/ /\ r.ok = TRUE /\ Placement(m, r.m, s)
        /\ r.m.step[s].life = "live" /\ RecOK(r.m.step[s])

LEMMA RestTrans ==
  ASSUME NEW m, NEW y, NEW x, NEW s, SameRest(m, y, s), SameRest(y, x, s)
  PROVE  SameRest(m, x, s)
BY Zenon DEF SameRest

LEMMA PlacementFrom ==
  ASSUME NEW m, NEW y, NEW x, NEW s, SameLists(m, y)
  PROVE  /\ Placement(y, x, s) => Placement(m, x, s)
         /\ SameLists(y, x) => SameLists(m, x)
BY Zenon DEF Placement, Opens, Joins, SameLists

LEMMA PlacementTo ==
  ASSUME NEW m, NEW y, NEW x, NEW s, SameLists(y, x)
  PROVE  Placement(m, y, s) => Placement(m, x, s)
BY Zenon DEF Placement, Opens, Joins, SameLists

\* The fields of a changed record.
LEMMA RegFields ==
  ASSUME NEW r \in Rec
  PROVE  /\ Reg(r).kind = r.kind /\ Reg(r).life = r.life /\ Reg(r).reg = TRUE
         /\ Reg(r).num = r.num /\ Reg(r).rsp = r.rsp /\ Reg(r).db = r.db
BY Zenon DEF Rec, Reg

LEMMA NumFields ==
  ASSUME NEW r \in Rec
  PROVE  /\ Num(r).kind = r.kind /\ Num(r).life = r.life /\ Num(r).reg = r.reg
         /\ Num(r).num = r.num + 1 /\ Num(r).rsp = r.rsp /\ Num(r).db = r.db
BY Zenon DEF Rec, Num

LEMMA RspFields ==
  ASSUME NEW r \in Rec
  PROVE  /\ Rsp(r).kind = r.kind /\ Rsp(r).life = r.life /\ Rsp(r).reg = r.reg
         /\ Rsp(r).num = r.num /\ Rsp(r).rsp = r.rsp + 1
BY Zenon DEF Rec, Rsp

LEMMA RunFields ==
  ASSUME NEW r \in Rec
  PROVE  /\ Run(r).kind = r.kind /\ Run(r).life = r.life /\ Run(r).rsp = r.rsp
         /\ Run(r).db = TRUE
BY Zenon DEF Rec, Run

LEMMA GoneFields ==
  ASSUME NEW r \in Rec
  PROVE  /\ Gone(r).kind = r.kind /\ Gone(r).life = "gone" /\ Gone(r).num = r.num
         /\ Gone(r).rsp = r.rsp /\ Gone(r).db = r.db
BY Zenon DEF Rec, Gone

\* A step that lives, and a step deleted after an answer, a hand-over, or neither.
LEMMA LiveOK ==
  ASSUME NEW r, r.life = "live", r.reg = TRUE, r.rsp = 0, r.db = FALSE,
         r.kind \in {"read", "ping"} => r.num = 1
  PROVE  RecOK(r)
BY DEF RecOK

LEMMA GoneOK ==
  ASSUME NEW r \in Rec,
         \/ r.rsp = 1
         \/ /\ r.rsp = 0
            /\ \/ r.kind \in {"ttl", "ping"}
               \/ r.kind = "read" /\ (r.num = 2 \/ r.db = TRUE)
  PROVE  RecOK(Gone(r))
<1>1. PICK g : g = Gone(r)
  BY Zenon
<1>2. g.kind = r.kind /\ g.life = "gone" /\ g.num = r.num /\ g.rsp = r.rsp /\ g.db = r.db
  BY Zenon, <1>1, GoneFields
<1>3. RecOK(g)
  BY <1>2 DEF RecOK, Fell
<1> QED BY Zenon, <1>1, <1>3

\* Emit of a read that is new.
LEMMA ReadEmitted ==
  ASSUME NEW m \in States, NEW s \in Steps, \A k \in Node : m.conn[k] # "closing",
         m.step[s].kind = "read", m.step[s].life = "live", m.step[s].reg = FALSE,
         m.step[s].num = 0, m.step[s].rsp = 0, m.step[s].db = FALSE, NEW r \in ReadEmit(m, s)
  PROVE  Emitted(m, r, s)
<1>0. m.step[s] \in Rec /\ m.step[s].slave \in Node \cup {NoNode}
  BY Zenon DEF States, Rec
<1>1. PICK q \in RegisterCallback(m, m.step[s].slave, s) :
        r = IF q.ok THEN Returns([q.m EXCEPT !.step[s].num = @ + 1], TRUE)
                    ELSE Returns(Response(q.m, s), FALSE)
  BY Zenon DEF ReadEmit
<1>2. PICK y, v : y = q.m /\ v = y.step[s]
  BY Zenon
<1>3. /\ SameRest(m, y, s) /\ v \in {m.step[s], Reg(m.step[s])}
      /\ \/ q.ok = FALSE /\ SameLists(m, y)
         \/ q.ok = TRUE /\ v = Reg(m.step[s]) /\ Placement(m, y, s)
  BY Zenon, <1>0, <1>1, <1>2, RegisterFresh
<1>4. y \in States /\ v \in Rec
  BY Zenon, <1>2, <1>3 DEF SameRest, States
<1>5. /\ v.kind = "read" /\ v.life = "live" /\ v.num = 0 /\ v.rsp = 0 /\ v.db = FALSE
      /\ v = Reg(m.step[s]) => v.reg = TRUE
  BY Zenon, <1>0, <1>3, RegFields
<1>6. CASE q.ok = TRUE /\ v = Reg(m.step[s]) /\ Placement(m, y, s)
  <2>1. PICK x : x = Put(y, s, Num(v))
    BY Zenon
  <2>a. [y EXCEPT !.step[s].num = @ + 1] = Put(y, s, Num(y.step[s]))
    BY Zenon, <1>4, PutForms
  <2>b. r = Returns([y EXCEPT !.step[s].num = @ + 1], TRUE)
    BY Zenon, <1>1, <1>2, <1>6
  <2>2. r.ok = TRUE /\ r.m = x
    BY Zenon, <1>2, <2>1, <2>a, <2>b DEF Returns
  <2>3. x.step[s] = Num(v) /\ SameRest(y, x, s) /\ SameLists(y, x)
    BY <1>4, <2>1, PutFields, RecFacts
  <2>c. PICK z : z = Num(v)
    BY Zenon
  <2>d. z.kind = "read" /\ z.life = "live" /\ z.reg = TRUE /\ z.num = 1 /\ z.rsp = 0
        /\ z.db = FALSE
    BY <1>4, <1>5, <1>6, <2>c, NumFields
  <2>4. RecOK(Num(v)) /\ Num(v).life = "live"
    BY Zenon, <2>c, <2>d, LiveOK
  <2>5. SameRest(m, x, s) /\ Placement(m, x, s)
    BY Zenon, <1>3, <1>6, <2>3, RestTrans, PlacementTo
  <2> QED
    BY Zenon, <2>2, <2>3, <2>4, <2>5 DEF Emitted
<1>7. CASE q.ok = FALSE /\ SameLists(m, y)
  <2>1. PICK x : x = Put(y, s, Rsp(v))
    BY Zenon
  <2>a. r = Returns(Response(y, s), FALSE)
    BY Zenon, <1>1, <1>2, <1>7
  <2>2. r.ok = FALSE /\ r.m = x
    BY Zenon, <1>2, <1>4, <2>1, <2>a, PutForms DEF Returns
  <2>3. x.step[s] = Rsp(v) /\ SameRest(y, x, s) /\ SameLists(y, x)
    BY <1>4, <2>1, PutFields, RecFacts
  <2>b. Rsp(v) \in Rec /\ Rsp(v).rsp = 1
    <3>1. Rsp(v) \in Rec
      BY Zenon, <1>4, RecFacts
    <3>2. Rsp(v).rsp = v.rsp + 1
      BY Zenon, <1>4, RspFields
    <3> QED BY <1>5, <3>1, <3>2
  <2>4. RecOK(Gone(Rsp(v)))
    BY Zenon, <2>b, GoneOK
  <2>5. SameRest(m, x, s) /\ SameLists(m, x)
    BY Zenon, <1>3, <1>7, <2>3, RestTrans, PlacementFrom
  <2> QED
    BY Zenon, <2>2, <2>3, <2>4, <2>5 DEF Emitted
<1> QED BY Zenon, <1>3, <1>6, <1>7

\* Emit of a write that is new.
LEMMA WriteEmitted ==
  ASSUME NEW m \in States, NEW s \in Steps, \A k \in Node : m.conn[k] # "closing",
         m.step[s].kind = "write", m.step[s].life = "live", m.step[s].reg = FALSE,
         m.step[s].rsp = 0, m.step[s].db = FALSE, NEW r \in WriteEmit(m, s)
  PROVE  Emitted(m, r, s)
<1>0. m.step[s] \in Rec /\ m.step[s].master \in Node \cup {NoNode}
  BY Zenon DEF States, Rec
<1>1. PICK q \in RegisterCallback(m, m.step[s].master, s) :
        r = IF q.ok THEN q ELSE Returns(Response(q.m, s), FALSE)
  BY Zenon DEF WriteEmit
<1>2. PICK y, v : y = q.m /\ v = y.step[s]
  BY Zenon
<1>3. /\ SameRest(m, y, s) /\ v \in {m.step[s], Reg(m.step[s])}
      /\ \/ q.ok = FALSE /\ SameLists(m, y)
         \/ q.ok = TRUE /\ v = Reg(m.step[s]) /\ Placement(m, y, s)
  BY Zenon, <1>0, <1>1, <1>2, RegisterFresh
<1>4. y \in States /\ v \in Rec
  BY Zenon, <1>2, <1>3 DEF SameRest, States
<1>5. /\ v.kind = "write" /\ v.life = "live" /\ v.rsp = 0 /\ v.db = FALSE
      /\ v = Reg(m.step[s]) => v.reg = TRUE
  BY Zenon, <1>0, <1>3, RegFields
<1>6. CASE q.ok = TRUE /\ v = Reg(m.step[s]) /\ Placement(m, y, s)
  <2>1. RecOK(v)
    BY <1>5, <1>6 DEF RecOK
  <2> QED
    BY Zenon, <1>1, <1>2, <1>3, <1>5, <1>6, <2>1 DEF Emitted
<1>7. CASE q.ok = FALSE /\ SameLists(m, y)
  <2>1. PICK x : x = Put(y, s, Rsp(v))
    BY Zenon
  <2>a. r = Returns(Response(y, s), FALSE)
    BY Zenon, <1>1, <1>2, <1>7
  <2>2. r.ok = FALSE /\ r.m = x
    BY Zenon, <1>2, <1>4, <2>1, <2>a, PutForms DEF Returns
  <2>3. x.step[s] = Rsp(v) /\ SameRest(y, x, s) /\ SameLists(y, x)
    BY <1>4, <2>1, PutFields, RecFacts
  <2>b. Rsp(v) \in Rec /\ Rsp(v).rsp = 1
    <3>1. Rsp(v) \in Rec
      BY Zenon, <1>4, RecFacts
    <3>2. Rsp(v).rsp = v.rsp + 1
      BY Zenon, <1>4, RspFields
    <3> QED BY <1>5, <3>1, <3>2
  <2>4. RecOK(Gone(Rsp(v)))
    BY Zenon, <2>b, GoneOK
  <2>5. SameRest(m, x, s) /\ SameLists(m, x)
    BY Zenon, <1>3, <1>7, <2>3, RestTrans, PlacementFrom
  <2> QED
    BY Zenon, <2>2, <2>3, <2>4, <2>5 DEF Emitted
<1> QED BY Zenon, <1>3, <1>6, <1>7

\* Emit of a step that answers nobody: EXPIRE, a ping with its command just built.
LEMMA SilentEmitted ==
  ASSUME NEW m \in States, NEW s \in Steps, \A k \in Node : m.conn[k] # "closing",
         m.step[s].life = "live", m.step[s].reg = FALSE, m.step[s].rsp = 0,
         m.step[s].db = FALSE,
         m.step[s].kind = "ttl" \/ (m.step[s].kind = "ping" /\ m.step[s].num = 1),
         NEW r \in RegisterCallback(m, m.step[s].master, s)
  PROVE  Emitted(m, r, s)
<1>0. m.step[s] \in Rec /\ m.step[s].master \in Node \cup {NoNode}
  BY Zenon DEF States, Rec
<1>2. PICK y, v : y = r.m /\ v = y.step[s]
  BY Zenon
<1>3. /\ SameRest(m, y, s) /\ v \in {m.step[s], Reg(m.step[s])}
      /\ \/ r.ok = FALSE /\ SameLists(m, y)
         \/ r.ok = TRUE /\ v = Reg(m.step[s]) /\ Placement(m, y, s)
  BY Zenon, <1>0, <1>2, RegisterFresh
<1>4. y \in States /\ v \in Rec
  BY Zenon, <1>2, <1>3 DEF SameRest, States
<1>5. /\ v.life = "live" /\ v.rsp = 0 /\ v.db = FALSE /\ (v.kind = "ttl" \/ (v.kind = "ping" /\ v.num = 1))
      /\ v = Reg(m.step[s]) => v.reg = TRUE
  BY Zenon, <1>0, <1>3, RegFields
<1>6. v = Reg(m.step[s]) => RecOK(v)
  BY Zenon, <1>5, LiveOK
<1>7. RecOK(Gone(v))
  BY Zenon, <1>4, <1>5, GoneOK
<1> QED
  BY Zenon, <1>2, <1>3, <1>5, <1>6, <1>7 DEF Emitted

\* A new step takes a free number.
LEMMA FreshFree ==
  ASSUME NEW m, Free(m) # {}
  PROVE  Fresh(m) \in Free(m) /\ Free(m) \subseteq Steps
<1>1. Free(m) \in SUBSET Nat /\ Free(m) \subseteq Steps
  BY DEF Free, Steps
<1>2. \E a \in Free(m) : \A y \in Free(m) : a =< y
  BY Zenon, <1>1, Least
<1> QED
  BY Zenon, <1>1, <1>2 DEF Fresh, Min

\* ExecStep lists a new step, or the step fails at once.
LEMMA ExecAdds ==
  ASSUME NEW m \in States, Free(m) # {}, \A k \in Node : m.conn[k] # "closing",
         NEW kind \in {"read", "write", "ttl", "ping"}, NEW a \in Node \cup {NoNode},
         NEW b \in Node \cup {NoNode}, NEW x \in ExecStep(m, NewStep(kind, a, b))
  PROVE  \E s \in Free(m) : Added(m, x, s)
<1>1. PICK s \in Steps : s = Fresh(m) /\ s \in Free(m)
  BY Zenon, FreshFree
<1>2. PICK rec : rec = NewStep(kind, a, b)
  BY Zenon
<1>3. /\ rec \in Rec /\ rec.kind = kind /\ rec.life = "live" /\ rec.reg = FALSE /\ rec.num = 0
      /\ rec.rsp = 0 /\ rec.db = FALSE /\ rec.master = a /\ rec.slave = b
  BY Zenon, <1>2 DEF NewStep, Rec
<1>4. PICK y : y = Put(m, s, rec)
  BY Zenon
<1>5. y \in States /\ y.step[s] = rec /\ SameRest(m, y, s) /\ SameLists(m, y)
  BY <1>3, <1>4, PutFields DEF SameRest
<1>6. PICK r \in Emit(y, s) : x = IF r.ok THEN r.m ELSE Delete(r.m, s)
  <2>1. [m EXCEPT !.step[s] = rec] = Put(m, s, rec)
    BY Zenon DEF Put, States
  <2>2. x \in {IF r.ok THEN r.m ELSE Delete(r.m, s) : r \in Emit([m EXCEPT !.step[s] = rec], s)}
    BY Zenon, <1>1, <1>2 DEF ExecStep
  <2>3. x \in {IF r.ok THEN r.m ELSE Delete(r.m, s) : r \in Emit(y, s)}
    BY Zenon, <1>4, <2>1, <2>2
  <2> QED BY Zenon, <2>3
<1>7. \A k \in Node : y.conn[k] # "closing"
  BY Zenon, <1>5 DEF SameLists
<1>8. Emitted(y, r, s)
  <2>1. CASE kind = "read"
    <3>1. r \in ReadEmit(y, s)
      BY Zenon, <1>3, <1>5, <1>6, <2>1 DEF Emit
    <3>2. /\ y.step[s].kind = "read" /\ y.step[s].life = "live" /\ y.step[s].reg = FALSE
          /\ y.step[s].num = 0 /\ y.step[s].rsp = 0 /\ y.step[s].db = FALSE
      BY Zenon, <1>3, <1>5, <2>1
    <3> QED BY Zenon, <1>5, <1>7, <3>1, <3>2, ReadEmitted
  <2>2. CASE kind = "write"
    <3>1. r \in WriteEmit(y, s)
      BY Zenon, <1>3, <1>5, <1>6, <2>2 DEF Emit
    <3>2. /\ y.step[s].kind = "write" /\ y.step[s].life = "live" /\ y.step[s].reg = FALSE
          /\ y.step[s].rsp = 0 /\ y.step[s].db = FALSE
      BY Zenon, <1>3, <1>5, <2>2
    <3> QED BY Zenon, <1>5, <1>7, <3>1, <3>2, WriteEmitted
  <2>3. CASE kind = "ttl"
    <3>1. r \in RegisterCallback(y, y.step[s].master, s)
      BY Zenon, <1>3, <1>5, <1>6, <2>3 DEF Emit, TtlEmit
    <3>2. /\ y.step[s].kind = "ttl" /\ y.step[s].life = "live" /\ y.step[s].reg = FALSE
          /\ y.step[s].rsp = 0 /\ y.step[s].db = FALSE
      BY Zenon, <1>3, <1>5, <2>3
    <3> QED BY Zenon, <1>5, <1>7, <3>1, <3>2, SilentEmitted
  <2>4. CASE kind = "ping"
    <3>1. PICK rec2 : rec2 = [rec EXCEPT !.num = 1, !.reg = FALSE]
      BY Zenon
    <3>2. /\ rec2 \in Rec /\ rec2.kind = "ping" /\ rec2.life = "live" /\ rec2.reg = FALSE
          /\ rec2.num = 1 /\ rec2.rsp = 0 /\ rec2.db = FALSE /\ rec2.master = rec.master
      BY Zenon, <1>3, <2>4, <3>1 DEF Rec
    <3>3. PICK z : z = Put(y, s, rec2)
      BY Zenon
    <3>4. z \in States /\ z.step[s] = rec2 /\ SameRest(y, z, s) /\ SameLists(y, z)
      BY <1>5, <3>2, <3>3, PutFields DEF SameRest
    <3>5. z = [y EXCEPT !.step[s].num = 1, !.step[s].reg = FALSE]
      BY Zenon, <1>5, <3>1, <3>3 DEF Put, States
    <3>6. r \in RegisterCallback(z, z.step[s].master, s)
      <4>1. r \in PingEmit(y, s)
        BY Zenon, <1>3, <1>5, <1>6, <2>4 DEF Emit
      <4>2. ~ (y.step[s].num > 0) /\ y.step[s].master = z.step[s].master
        BY <1>3, <1>5, <3>2, <3>4
      <4>3. r \in RegisterCallback([y EXCEPT !.step[s].num = 1, !.step[s].reg = FALSE],
                                   y.step[s].master, s)
        BY Zenon, <4>1, <4>2 DEF PingEmit
      <4> QED BY Zenon, <3>5, <4>2, <4>3
    <3>7. \A k \in Node : z.conn[k] # "closing"
      BY Zenon, <1>7, <3>4 DEF SameLists
    <3>8. /\ z.step[s].kind = "ping" /\ z.step[s].life = "live" /\ z.step[s].reg = FALSE
          /\ z.step[s].rsp = 0 /\ z.step[s].db = FALSE /\ z.step[s].num = 1
      BY Zenon, <3>2, <3>4
    <3>9. Emitted(z, r, s)
      BY Zenon, <3>4, <3>6, <3>7, <3>8, SilentEmitted
    <3> QED
      BY Zenon, <3>4, <3>9, RestTrans, PlacementFrom DEF Emitted
  <2> QED BY Zenon, <2>1, <2>2, <2>3, <2>4
<1>9. CASE r.ok = TRUE
  <2>1. x = r.m
    BY Zenon, <1>6, <1>9
  <2>2. /\ SameRest(y, x, s) /\ Placement(y, x, s) /\ x.step[s].life = "live" /\ RecOK(x.step[s])
    BY Zenon, <1>8, <1>9, <2>1 DEF Emitted
  <2>3. SameRest(m, x, s) /\ Placement(m, x, s)
    BY Zenon, <1>5, <2>2, RestTrans, PlacementFrom
  <2> QED BY Zenon, <1>1, <2>2, <2>3 DEF Added
<1>10. CASE r.ok = FALSE
  <2>0. PICK z : z = r.m
    BY Zenon
  <2>1. x = Delete(z, s)
    BY Zenon, <1>6, <1>10, <2>0
  <2>2. SameRest(y, z, s) /\ SameLists(y, z) /\ RecOK(Gone(z.step[s])) /\ z \in States
    BY Zenon, <1>8, <1>10, <2>0 DEF Emitted, SameRest
  <2>3. x = Put(z, s, Gone(z.step[s])) /\ z.step[s] \in Rec
    BY Zenon, <2>1, <2>2, PutForms
  <2>4. x.step[s] = Gone(z.step[s]) /\ SameRest(z, x, s) /\ SameLists(z, x)
    BY Zenon, <2>2, <2>3, RecFacts, PutFields
  <2>5. SameRest(m, x, s) /\ SameLists(m, x)
    BY Zenon, <1>5, <2>2, <2>4, RestTrans, PlacementFrom
  <2>6. x.step[s].life = "gone" /\ RecOK(x.step[s])
    BY Zenon, <2>2, <2>3, <2>4, GoneFields
  <2> QED BY Zenon, <1>1, <2>5, <2>6 DEF Added
<1> QED BY Zenon, <1>8, <1>9, <1>10 DEF Emitted

-----------------------------------------------------------------------------
(* The invariant. *)

\* The lists of one address: listData is what redis has to answer, all of it alive;
\* only the first of listWaitData, a read that fell back, may be deleted.
NodeOK(c, d, w, t, st) ==
  /\ d = t /\ c # "closing"
  /\ c # "up" => d = <<>>
  /\ c # "connecting" => w = <<>>
  /\ Once(d) /\ Once(w)
  /\ \A s \in Range(d) : st[s].life = "live"
  /\ \A i \in 1 .. Len(w) : st[w[i]].life = "live" \/ (i = 1 /\ Fell(st[w[i]]))

Held(m, n) == Range(m.data[n]) \cup Range(m.wait[n])

Apart(m) == \A n, k \in Node : n # k => Held(m, n) \cap Held(m, k) = {}
Owned(m) == \A s \in Steps : m.step[s].life = "live" => \E n \in Node : s \in Held(m, n)
ByFallBack(m) == m.crashed => \E n \in Node : \E s \in Range(m.wait[n]) : Fell(m.step[s])

PipeOK(m) ==
  /\ m \in States
  /\ \A n \in Node : NodeOK(m.conn[n], m.data[n], m.wait[n], m.sent[n], m.step)
  /\ \A s \in Steps : RecOK(m.step[s])
  /\ Apart(m) /\ Owned(m) /\ ByFallBack(m)

LEMMA StateTypes ==
  ASSUME NEW m \in States, NEW n \in Node
  PROVE  /\ m.data[n] \in Seq(Steps) /\ m.wait[n] \in Seq(Steps) /\ m.sent[n] \in Seq(Steps)
         /\ m.conn \in [Node -> {"none", "connecting", "up", "closing"}]
         /\ m.data \in [Node -> Seq(Steps)] /\ m.wait \in [Node -> Seq(Steps)]
         /\ m.sent \in [Node -> Seq(Steps)] /\ m.step \in [Steps -> Rec]
         /\ m.crashed \in BOOLEAN
BY Zenon DEF States, Lists

\* Steps of other addresses do not matter.
LEMMA NodeKeeps ==
  ASSUME NEW c, NEW d \in Seq(Steps), NEW w \in Seq(Steps), NEW t, NEW st, NEW st2,
         NodeOK(c, d, w, t, st), \A s \in Range(d) \cup Range(w) : st2[s] = st[s]
  PROVE  NodeOK(c, d, w, t, st2)
<1>1. \A i \in 1 .. Len(w) : w[i] \in Range(w)
  BY Zenon, ListFacts
<1> QED
  BY Zenon, <1>1 DEF NodeOK

LEMMA NodeOpens ==
  ASSUME NEW s \in Steps, NEW st, st[s].life = "live" \/ Fell(st[s])
  PROVE  NodeOK("connecting", <<>>, <<s>>, <<>>, st)
<1>1. Len(<<s>>) = 1 /\ <<s>>[1] = s
  BY Zenon
<1>2. \A i \in 1 .. 1 : i = 1
  OBVIOUS
<1> QED
  BY Zenon, <1>1, <1>2, ListFacts DEF NodeOK

LEMMA NodeJoins ==
  ASSUME NEW c, NEW d \in Seq(Steps), NEW w \in Seq(Steps), NEW t, NEW s \in Steps, NEW st,
         NodeOK(c, d, w, t, st), s \notin Range(d) \cup Range(w), st[s].life = "live"
  PROVE  /\ c = "up" => NodeOK(c, Append(d, s), w, Append(t, s), st)
         /\ c = "connecting" => NodeOK(c, d, Append(w, s), t, st)
<1>1. ASSUME c = "up" PROVE NodeOK(c, Append(d, s), w, Append(t, s), st)
  BY <1>1, Appended DEF NodeOK
<1>2. ASSUME c = "connecting" PROVE NodeOK(c, d, Append(w, s), t, st)
  <2>1. Once(Append(w, s))
    BY Zenon, Appended DEF NodeOK
  <2>2. \A i \in 1 .. Len(Append(w, s)) :
          (i \in 1 .. Len(w) /\ Append(w, s)[i] = w[i]) \/ Append(w, s)[i] = s
    OBVIOUS
  <2>3. \A i \in 1 .. Len(Append(w, s)) : st[Append(w, s)[i]].life = "live" \/ (i = 1 /\ Fell(st[Append(w, s)[i]]))
    BY Zenon, <2>2 DEF NodeOK
  <2> QED BY Zenon, <1>2, <2>1, <2>3 DEF NodeOK
<1> QED BY Zenon, <1>1, <1>2

\* A new step.
LEMMA AddedOK ==
  ASSUME NEW m, PipeOK(m), ~ m.crashed, NEW s \in Free(m), NEW x, Added(m, x, s)
  PROVE  /\ PipeOK(x) /\ ~ x.crashed
         /\ Free(m) \ {s} \subseteq Free(x)
<1>0. m \in States /\ x \in States /\ s \in Steps /\ x.crashed = m.crashed
      /\ \A t \in Steps : t # s => x.step[t] = m.step[t]
  BY Zenon DEF PipeOK, Added, SameRest, Free
<1>1. \A n \in Node : s \notin Held(m, n)
  BY Zenon DEF Free, Held
<1>2. ~ (m.step[s].life = "live")
  BY Zenon DEF Free
<1>3. \A n \in Node : Held(m, n) \subseteq Steps
  BY Zenon, <1>0, ListFacts, StateTypes DEF Held
<1>4. \A t \in Steps : RecOK(x.step[t])
  BY Zenon, <1>0 DEF PipeOK, Added
<1>5. ASSUME NEW n \in Node, x.conn[n] = m.conn[n], x.data[n] = m.data[n], x.wait[n] = m.wait[n],
             x.sent[n] = m.sent[n]
      PROVE  /\ NodeOK(x.conn[n], x.data[n], x.wait[n], x.sent[n], x.step)
             /\ Held(x, n) = Held(m, n)
  <2>1. NodeOK(m.conn[n], m.data[n], m.wait[n], m.sent[n], m.step)
    BY Zenon DEF PipeOK
  <2>2. \A t \in Range(m.data[n]) \cup Range(m.wait[n]) : x.step[t] = m.step[t]
    BY Zenon, <1>0, <1>1, <1>3 DEF Held
  <2>3. NodeOK(m.conn[n], m.data[n], m.wait[n], m.sent[n], x.step)
    BY Zenon, <1>0, <2>1, <2>2, NodeKeeps, StateTypes
  <2> QED BY Zenon, <1>5, <2>3 DEF Held
<1>6. CASE x.step[s].life = "gone" /\ SameLists(m, x)
  <2>1. \A n \in Node : /\ x.conn[n] = m.conn[n] /\ x.data[n] = m.data[n] /\ x.wait[n] = m.wait[n]
                        /\ x.sent[n] = m.sent[n]
    BY Zenon, <1>6 DEF SameLists
  <2>2. \A n \in Node : /\ NodeOK(x.conn[n], x.data[n], x.wait[n], x.sent[n], x.step)
                        /\ Held(x, n) = Held(m, n)
    BY Zenon, <1>5, <2>1
  <2>3. Apart(x)
    BY Zenon, <2>2 DEF PipeOK, Apart
  <2>4. Owned(x)
    <3> SUFFICES ASSUME NEW t \in Steps, x.step[t].life = "live"
                 PROVE  \E n \in Node : t \in Held(x, n)
      BY Zenon DEF Owned
    <3>1. t # s /\ m.step[t].life = "live"
      BY Zenon, <1>0, <1>6
    <3> QED BY Zenon, <2>2, <3>1 DEF PipeOK, Owned
  <2>5. Free(m) \ {s} \subseteq Free(x)
    BY Zenon, <1>0, <2>2 DEF Free, Held
  <2> QED BY Zenon, <1>0, <1>4, <2>2, <2>3, <2>4, <2>5 DEF PipeOK, ByFallBack
<1>7. CASE x.step[s].life = "live" /\ Placement(m, x, s)
  <2>1. PICK k \in Node : Opens(m, x, k, s) \/ Joins(m, x, k, s)
    BY Zenon, <1>7 DEF Placement
  <2>2. \A n \in Node : n # k => /\ x.conn[n] = m.conn[n] /\ x.data[n] = m.data[n]
                                 /\ x.wait[n] = m.wait[n] /\ x.sent[n] = m.sent[n]
    BY Zenon, <1>0, <2>1, StateTypes DEF Opens, Joins
  <2>3. \A n \in Node : n # k => /\ NodeOK(x.conn[n], x.data[n], x.wait[n], x.sent[n], x.step)
                                 /\ Held(x, n) = Held(m, n)
    BY Zenon, <1>5, <2>2
  <2>4. NodeOK(m.conn[k], m.data[k], m.wait[k], m.sent[k], m.step)
    BY Zenon DEF PipeOK
  <2>5. /\ NodeOK(x.conn[k], x.data[k], x.wait[k], x.sent[k], x.step)
        /\ Held(x, k) = Held(m, k) \cup {s}
    <3>1. PICK c, d, w, t : c = m.conn[k] /\ d = m.data[k] /\ w = m.wait[k] /\ t = m.sent[k]
      BY Zenon
    <3>2. d \in Seq(Steps) /\ w \in Seq(Steps) /\ s \notin Range(d) \cup Range(w)
      BY Zenon, <1>0, <1>1, <3>1, StateTypes DEF Held
    <3>3. CASE Opens(m, x, k, s)
      <4>1. /\ c = "none" /\ x.conn[k] = "connecting" /\ x.wait[k] = <<s>> /\ x.data[k] = d
            /\ x.sent[k] = t
        BY Zenon, <1>0, <3>1, <3>3, StateTypes DEF Opens
      <4>2. d = <<>> /\ t = <<>> /\ w = <<>>
        BY Zenon, <2>4, <3>1, <4>1 DEF NodeOK
      <4>3. NodeOK("connecting", <<>>, <<s>>, <<>>, x.step)
        BY Zenon, <1>0, <1>7, NodeOpens
      <4>4. Held(x, k) = {s} /\ Held(m, k) = {}
        BY Zenon, <1>0, <3>1, <4>1, <4>2, ListFacts DEF Held
      <4> QED BY Zenon, <4>1, <4>2, <4>3, <4>4
    <3>4. CASE Joins(m, x, k, s)
      <4>1. NodeOK(c, d, w, t, x.step)
        <5>1. \A u \in Range(d) \cup Range(w) : x.step[u] = m.step[u]
          BY Zenon, <1>0, <1>1, <1>3, <3>1 DEF Held
        <5> QED BY Zenon, <2>4, <3>1, <3>2, <5>1, NodeKeeps
      <4>2. \/ /\ c = "up" /\ x.conn[k] = c /\ x.data[k] = Append(d, s) /\ x.wait[k] = w
               /\ x.sent[k] = Append(t, s)
            \/ /\ c = "connecting" /\ x.conn[k] = c /\ x.data[k] = d /\ x.wait[k] = Append(w, s)
               /\ x.sent[k] = t
        BY Zenon, <1>0, <3>1, <3>4, StateTypes DEF Joins
      <4>3. /\ c = "up" => NodeOK(c, Append(d, s), w, Append(t, s), x.step)
            /\ c = "connecting" => NodeOK(c, d, Append(w, s), t, x.step)
        BY Zenon, <1>0, <1>7, <3>2, <4>1, NodeJoins
      <4>4. /\ Range(Append(d, s)) = Range(d) \cup {s}
            /\ Range(Append(w, s)) = Range(w) \cup {s}
        BY Zenon, <1>0, <3>2, Appended
      <4>5. Held(x, k) = Held(m, k) \cup {s}
        BY Zenon, <3>1, <4>2, <4>4 DEF Held
      <4> QED BY Zenon, <4>2, <4>3, <4>5
    <3> QED BY Zenon, <2>1, <3>3, <3>4
  <2>6. Apart(x)
    BY <1>1, <2>3, <2>5 DEF PipeOK, Apart
  <2>7. Owned(x)
    <3> SUFFICES ASSUME NEW t \in Steps, x.step[t].life = "live"
                 PROVE  \E n \in Node : t \in Held(x, n)
      BY Zenon DEF Owned
    <3>1. CASE t = s
      BY Zenon, <2>5, <3>1
    <3>2. CASE t # s
      <4>1. m.step[t].life = "live"
        BY Zenon, <1>0, <3>2
      <4> QED BY Zenon, <2>3, <2>5, <4>1 DEF PipeOK, Owned
    <3> QED BY Zenon, <3>1, <3>2
  <2>8. Free(m) \ {s} \subseteq Free(x)
    <3>1. \A n \in Node : Held(x, n) \subseteq Held(m, n) \cup {s}
      BY Zenon, <2>3, <2>5
    <3> QED BY Zenon, <1>0, <3>1 DEF Free, Held
  <2> QED BY Zenon, <1>0, <1>4, <2>3, <2>5, <2>6, <2>7, <2>8 DEF PipeOK, ByFallBack
<1> QED BY Zenon, <1>6, <1>7 DEF Added

-----------------------------------------------------------------------------
(* Failing the steps of a connection. *)

\* Step s has failed: it is deleted, and a read may have opened the context of its master.
Failed(m, x, s) ==
  /\ SameRest(m, x, s) /\ x.step[s].life = "gone" /\ RecOK(x.step[s])
  /\ \/ SameLists(m, x)
     \/ Fell(x.step[s]) /\ \E k \in Node : Opens(m, x, k, s)

LEMMA OpensTo ==
  ASSUME NEW m, NEW y, NEW x, NEW k, NEW s, Opens(m, y, k, s), SameLists(y, x)
  PROVE  Opens(m, x, k, s)
BY Zenon DEF Opens, SameLists

\* The record u of step s in y, which came from m, is replaced by v and the step deleted.
LEMMA DeleteFailed ==
  ASSUME NEW m, NEW y \in States, NEW s \in Steps, SameRest(m, y, s), NEW v \in Rec,
         RecOK(Gone(v)), NEW x, x = Delete(Put(y, s, v), s),
         SameLists(m, y) \/ (Fell(v) /\ \E k \in Node : Opens(m, y, k, s))
  PROVE  Failed(m, x, s)
<1>1. PICK z : z = Put(y, s, v)
  BY Zenon
<1>2. z \in States /\ z.step[s] = v /\ SameRest(y, z, s) /\ SameLists(y, z)
  BY <1>1, PutFields DEF SameRest
<1>3. x = Put(z, s, Gone(v))
  <2>1. Delete(z, s) = Put(z, s, Gone(z.step[s]))
    BY Zenon, <1>2, PutForms
  <2> QED BY Zenon, <1>1, <1>2, <2>1
<1>4. x.step[s] = Gone(v) /\ SameRest(z, x, s) /\ SameLists(z, x)
  BY <1>2, <1>3, PutFields, RecFacts
<1>5. SameRest(m, x, s)
  BY Zenon, <1>2, <1>4, RestTrans
<1>6. SameLists(y, x)
  BY Zenon, <1>2, <1>4 DEF SameLists
<1>7. Gone(v).life = "gone" /\ (Fell(v) => Fell(Gone(v)))
  BY Zenon, GoneFields DEF Fell
<1>8. SameLists(m, y) => SameLists(m, x)
  BY Zenon, <1>6 DEF SameLists
<1>9. \A k \in Node : Opens(m, y, k, s) => Opens(m, x, k, s)
  BY Zenon, <1>6, OpensTo
<1> QED
  BY Zenon, <1>4, <1>5, <1>7, <1>8, <1>9 DEF Failed

\* The record as it is.
LEMMA PutSame ==
  ASSUME NEW m \in States, NEW s \in Steps
  PROVE  Put(m, s, m.step[s]) = m
BY Zenon DEF Put, States

\* FailStep of a step that lives.
LEMMA FailLive ==
  ASSUME NEW m \in States, NEW s \in Steps, ~ m.crashed, m.step[s].life = "live",
         RecOK(m.step[s]), NEW x \in FailStep(m, s)
  PROVE  Failed(m, x, s)
<1>1. PICK r \in Callback(m, s, "broken") : x = Delete(r.m, s)
  BY Zenon DEF FailStep
<1>2. PICK v \in Rec : v = m.step[s]
  BY Zenon, PutForms
<1>3. SameRest(m, m, s) /\ SameLists(m, m) /\ Put(m, s, v) = m
  BY Zenon, <1>2, PutSame DEF SameRest, SameLists
<1>4. v.reg /\ v.rsp = 0 /\ (v.kind \in {"read", "ping"} => v.num = 1) /\ v.life = "live"
  BY Zenon, <1>2 DEF RecOK
<1>5. Rsp(v) \in Rec /\ Rsp(v).rsp = 1
  <2>1. Rsp(v) \in Rec
    BY Zenon, RecFacts
  <2>2. Rsp(v).rsp = v.rsp + 1
    BY Zenon, RspFields
  <2> QED BY <1>4, <2>1, <2>2
<1>6. CASE v.kind = "write" \/ (v.kind = "read" /\ r = Returns(Response(m, s), FALSE))
  <2>1. r = Returns(Response(m, s), FALSE)
    BY Zenon, <1>1, <1>2, <1>6 DEF Callback, WriteCallback
  <2>2. r.m = Put(m, s, Rsp(v))
    BY Zenon, <1>2, <2>1, PutForms DEF Returns
  <2>3. RecOK(Gone(Rsp(v)))
    BY Zenon, <1>5, GoneOK
  <2> QED BY Zenon, <1>1, <1>3, <1>5, <2>2, <2>3, DeleteFailed
<1>7. CASE v.kind \in {"ping", "ttl"}
  <2>1. r = Returns(m, FALSE)
    <3>1. CASE v.kind = "ttl"
      BY Zenon, <1>1, <1>2, <3>1 DEF Callback
    <3>2. CASE v.kind = "ping"
      <4>1. r \in PingCallback(m, s, "broken")
        BY Zenon, <1>1, <1>2, <3>2 DEF Callback
      <4>2. m.step[s].num = 1 /\ m.step[s].num > 0
        BY <1>2, <1>4, <3>2
      <4>3. r \in PingEmit(m, s)
        BY Zenon, <4>1, <4>2 DEF PingCallback
      <4> QED BY Zenon, <4>2, <4>3 DEF PingEmit
    <3> QED BY Zenon, <1>7, <3>1, <3>2
  <2>2. r.m = Put(m, s, v)
    BY Zenon, <1>3, <2>1 DEF Returns
  <2>3. RecOK(Gone(v))
    BY Zenon, <1>4, <1>7, GoneOK
  <2> QED BY Zenon, <1>1, <1>3, <2>2, <2>3, DeleteFailed
<1>8. CASE v.kind = "read" /\ r # Returns(Response(m, s), FALSE)
  <2>1. PICK q \in RegisterCallback(m, v.master, s) :
          r = IF q.ok THEN Returns([q.m EXCEPT !.step[s].num = @ + 1], TRUE)
                      ELSE Returns(Response(q.m, s), FALSE)
    <3>1. r \in ReadEmit(m, s)
      BY Zenon, <1>1, <1>2, <1>4, <1>8 DEF Callback, ReadCallback
    <3>2. m.step[s].num # 0
      BY <1>2, <1>4, <1>8
    <3> QED BY Zenon, <1>2, <3>1, <3>2 DEF ReadEmit
  <2>2. PICK y, u : y = q.m /\ u = y.step[s]
    BY Zenon
  <2>3. v.master \in Node \cup {NoNode} /\ m.step[s].reg
    BY Zenon, <1>2, <1>4 DEF Rec
  <2>4. /\ q.ok \in BOOLEAN
        /\ \/ y = m
           \/ /\ q.ok = TRUE /\ v.master \in Node /\ u = Reg(v)
              /\ SameRest(m, y, s) /\ Opens(m, y, v.master, s)
    <3>1. PICK n : n = v.master
      BY Zenon
    <3>2. n \in Node \cup {NoNode} /\ q \in RegisterCallback(m, n, s)
      BY Zenon, <2>1, <2>3, <3>1
    <3>3. /\ q.ok \in BOOLEAN
          /\ \/ q.m = m
             \/ /\ q.ok = TRUE /\ n \in Node /\ q.m.step[s] = Reg(m.step[s])
                /\ SameRest(m, q.m, s) /\ Opens(m, q.m, n, s)
      BY Zenon, <2>3, <3>2, RegisterAgain
    <3> QED BY Zenon, <1>2, <2>2, <3>1, <3>3
  <2>5. /\ y \in States /\ SameRest(m, y, s) /\ u \in Rec
        /\ SameLists(m, y) \/ \E k \in Node : Opens(m, y, k, s)
    <3>1. SameRest(m, y, s)
      BY Zenon, <1>3, <2>4
    <3>2. y \in States
      BY Zenon, <3>1 DEF SameRest
    <3>3. u \in Rec
      BY Zenon, <2>2, <3>2, PutForms
    <3>4. SameLists(m, y) \/ \E k \in Node : Opens(m, y, k, s)
      BY Zenon, <1>3, <2>4
    <3> QED BY Zenon, <3>1, <3>2, <3>3, <3>4
  <2>6. u.kind = "read" /\ u.num = 1 /\ u.rsp = 0
    BY Zenon, <1>2, <1>4, <1>8, <2>2, <2>4, RegFields
  <2>7. q.ok = TRUE
    <3> SUFFICES ASSUME q.ok = FALSE PROVE FALSE
      BY Zenon, <2>4
    <3>1. y = m
      BY Zenon, <2>4
    <3> QED BY Zenon, <1>8, <2>1, <2>2, <3>1
  <2>8. r.m = Put(y, s, Num(u))
    <3>1. [y EXCEPT !.step[s].num = @ + 1] = Put(y, s, Num(y.step[s]))
      BY Zenon, <2>5, PutForms
    <3>2. r = Returns([y EXCEPT !.step[s].num = @ + 1], TRUE)
      BY Zenon, <2>1, <2>2, <2>7
    <3> QED BY Zenon, <2>2, <3>1, <3>2 DEF Returns
  <2>9. Num(u) \in Rec /\ Num(u).kind = "read" /\ Num(u).num = 2 /\ Num(u).rsp = 0
    <3>1. Num(u) \in Rec
      BY Zenon, <2>5, RecFacts
    <3>2. Num(u).kind = u.kind /\ Num(u).num = u.num + 1 /\ Num(u).rsp = u.rsp
      BY Zenon, <2>5, NumFields
    <3> QED BY <2>6, <3>1, <3>2
  <2>10. RecOK(Gone(Num(u))) /\ Fell(Num(u))
    BY Zenon, <2>9, GoneOK DEF Fell
  <2> QED BY Zenon, <1>1, <2>5, <2>8, <2>9, <2>10, DeleteFailed
<1>9. v.kind \in {"read", "write", "ttl", "ping"}
  BY Zenon DEF Rec
<1> QED BY Zenon, <1>6, <1>7, <1>8, <1>9

\* The first i steps of the list L of address n have failed, from m on.
Lost(m, x, n, L, i) ==
  /\ x \in States /\ x.data = m.data /\ x.sent = m.sent
  /\ x.conn[n] = m.conn[n] /\ x.wait[n] = m.wait[n]
  /\ ~ x.crashed =>
       /\ \A t \in Steps : (\A j \in 1 .. i : t # L[j]) => x.step[t] = m.step[t]
       /\ \A j \in 1 .. i : x.step[L[j]].life = "gone" /\ RecOK(x.step[L[j]])
       /\ \A k \in Node : \/ x.conn[k] = m.conn[k] /\ x.wait[k] = m.wait[k]
                          \/ /\ m.conn[k] = "none" /\ x.conn[k] = "connecting"
                             /\ \E j \in 1 .. i : x.wait[k] = <<L[j]>> /\ Fell(x.step[L[j]])
  /\ x.crashed =>
       /\ i # 0 /\ Fell(m.step[L[1]]) /\ m.step[L[1]].life # "live"
       /\ \A t \in Steps : x.step[t] = m.step[t]
       /\ \A k \in Node : x.conn[k] = m.conn[k] /\ x.wait[k] = m.wait[k]

\* What may be failed: the first of the list may be a read that fell back.
Failable(m, n, L) ==
  /\ m \in States /\ ~ m.crashed /\ n \in Node /\ L \in Seq(Steps) /\ Once(L)
  /\ m.conn[n] # "none"
  /\ \A i \in 1 .. Len(L) : /\ RecOK(m.step[L[i]])
                            /\ m.step[L[i]].life = "live" \/ (i = 1 /\ Fell(m.step[L[i]]))

LEMMA LostNone ==
  ASSUME NEW m, NEW n, NEW L, Failable(m, n, L)
  PROVE  Lost(m, m, n, L, 0)
BY DEF Failable, Lost

LEMMA OpensFields ==
  ASSUME NEW m \in States, NEW x, NEW k \in Node, NEW s, Opens(m, x, k, s)
  PROVE  /\ m.conn[k] = "none" /\ x.conn[k] = "connecting" /\ x.wait[k] = <<s>>
         /\ x.data = m.data /\ x.sent = m.sent
         /\ \A l \in Node : l # k => x.conn[l] = m.conn[l] /\ x.wait[l] = m.wait[l]
BY Zenon DEF Opens, States, Lists

\* One more step fails.
LEMMA LostStep ==
  ASSUME NEW m, NEW n, NEW L, Failable(m, n, L), NEW i \in 1 .. Len(L), NEW x,
         Lost(m, x, n, L, i - 1), NEW y \in FailStep(x, L[i])
  PROVE  Lost(m, y, n, L, i)
<1>0. /\ m \in States /\ ~ m.crashed /\ n \in Node /\ L \in Seq(Steps) /\ Once(L)
      /\ m.conn[n] # "none" /\ Len(L) \in Nat /\ i \in Nat /\ i # 0
  BY DEF Failable
<1>1. PICK s \in Steps : s = L[i]
  BY <1>0
<1>2. RecOK(m.step[s]) /\ (m.step[s].life = "live" \/ (i = 1 /\ Fell(m.step[s])))
  BY Zenon, <1>1 DEF Failable
<1>3. \A j \in 1 .. (i - 1) : j \in 1 .. i /\ j \in 1 .. Len(L) /\ j # i
  BY <1>0
<1>4. \A j \in 1 .. i : j = i \/ j \in 1 .. (i - 1)
  BY <1>0
<1>5. \A j \in 1 .. (i - 1) : s # L[j] /\ L[j] \in Steps
  BY <1>0, <1>1, <1>3 DEF Once
<1>6. x \in States
  BY Zenon DEF Lost
<1>7. CASE x.crashed
  <2>1. y = x
    BY Zenon, <1>7 DEF FailStep
  <2> QED
    BY Zenon, <1>0, <1>7, <2>1 DEF Lost
<1>8. CASE ~ x.crashed /\ x.step[s].life # "live"
  <2>1. x.step[s] = m.step[s]
    BY Zenon, <1>5, <1>8 DEF Lost
  <2>2. i = 1 /\ Fell(m.step[s]) /\ m.step[s].life # "live"
    BY Zenon, <1>2, <1>8, <2>1
  <2>3. \A j \in 1 .. (i - 1) : FALSE
    BY <2>2
  <2>4. /\ \A t \in Steps : x.step[t] = m.step[t]
        /\ \A k \in Node : x.conn[k] = m.conn[k] /\ x.wait[k] = m.wait[k]
    BY Zenon, <1>8, <2>3 DEF Lost
  <2>5. y = [x EXCEPT !.crashed = TRUE]
    BY Zenon, <1>1, <1>8 DEF FailStep
  <2>6. /\ y \in States /\ y.crashed = TRUE /\ y.step = x.step /\ y.conn = x.conn
        /\ y.wait = x.wait /\ y.data = x.data /\ y.sent = x.sent
    BY Zenon, <1>6, <2>5 DEF States
  <2>7. x.data = m.data /\ x.sent = m.sent /\ x.conn[n] = m.conn[n] /\ x.wait[n] = m.wait[n]
    BY Zenon DEF Lost
  <2> QED
    BY <1>0, <1>1, <2>2, <2>4, <2>6, <2>7 DEF Lost
<1>9. CASE ~ x.crashed /\ x.step[s].life = "live"
  <2>1. x.step[s] = m.step[s] /\ RecOK(x.step[s])
    BY Zenon, <1>2, <1>5, <1>9 DEF Lost
  <2>2. Failed(x, y, s)
    BY Zenon, <1>1, <1>6, <1>9, <2>1, FailLive
  <2>3. /\ y \in States /\ ~ y.crashed /\ \A t \in Steps : t # s => y.step[t] = x.step[t]
    BY Zenon, <1>9, <2>2 DEF Failed, SameRest
  <2>4. y.step[s].life = "gone" /\ RecOK(y.step[s])
    BY Zenon, <2>2 DEF Failed
  <2>5. /\ x.data = m.data /\ x.sent = m.sent /\ x.conn[n] = m.conn[n] /\ x.wait[n] = m.wait[n]
        /\ \A t \in Steps : (\A j \in 1 .. (i - 1) : t # L[j]) => x.step[t] = m.step[t]
        /\ \A j \in 1 .. (i - 1) : x.step[L[j]].life = "gone" /\ RecOK(x.step[L[j]])
        /\ \A k \in Node : \/ x.conn[k] = m.conn[k] /\ x.wait[k] = m.wait[k]
                           \/ /\ m.conn[k] = "none" /\ x.conn[k] = "connecting"
                              /\ \E j \in 1 .. (i - 1) : x.wait[k] = <<L[j]>> /\ Fell(x.step[L[j]])
    BY Zenon, <1>9 DEF Lost
  <2>6. \A t \in Steps : (\A j \in 1 .. i : t # L[j]) => y.step[t] = m.step[t]
    BY <1>0, <1>1, <1>3, <2>3, <2>5
  <2>7. \A j \in 1 .. i : y.step[L[j]].life = "gone" /\ RecOK(y.step[L[j]])
    <3>1. \A j \in 1 .. (i - 1) : y.step[L[j]] = x.step[L[j]]
      BY Zenon, <1>5, <2>3
    <3>2. ASSUME NEW j \in 1 .. i PROVE y.step[L[j]].life = "gone" /\ RecOK(y.step[L[j]])
      <4>1. CASE j = i
        BY Zenon, <1>1, <2>4, <4>1
      <4>2. CASE j \in 1 .. (i - 1)
        BY <2>5, <3>1, <4>2
      <4> QED BY Zenon, <1>4, <4>1, <4>2
    <3> QED BY Zenon, <3>2
  <2>8. /\ y.data = m.data /\ y.sent = m.sent /\ y.conn[n] = m.conn[n] /\ y.wait[n] = m.wait[n]
        /\ \A k \in Node : \/ y.conn[k] = m.conn[k] /\ y.wait[k] = m.wait[k]
                           \/ /\ m.conn[k] = "none" /\ y.conn[k] = "connecting"
                              /\ \E j \in 1 .. i : y.wait[k] = <<L[j]>> /\ Fell(y.step[L[j]])
    <3>1. \A j \in 1 .. (i - 1) : y.step[L[j]] = x.step[L[j]] /\ j \in 1 .. i
      BY Zenon, <1>3, <1>5, <2>3
    <3>a. ASSUME NEW l \in Node, y.conn[l] = x.conn[l], y.wait[l] = x.wait[l]
          PROVE  \/ y.conn[l] = m.conn[l] /\ y.wait[l] = m.wait[l]
                 \/ /\ m.conn[l] = "none" /\ y.conn[l] = "connecting"
                    /\ \E j \in 1 .. i : y.wait[l] = <<L[j]>> /\ Fell(y.step[L[j]])
      <4>1. CASE x.conn[l] = m.conn[l] /\ x.wait[l] = m.wait[l]
        BY Zenon, <3>a, <4>1
      <4>2. ASSUME NEW j \in 1 .. (i - 1), m.conn[l] = "none", x.conn[l] = "connecting",
                   x.wait[l] = <<L[j]>>, Fell(x.step[L[j]])
            PROVE  /\ m.conn[l] = "none" /\ y.conn[l] = "connecting"
                   /\ j \in 1 .. i /\ y.wait[l] = <<L[j]>> /\ Fell(y.step[L[j]])
        BY Zenon, <3>a, <3>1, <4>2
      <4> QED BY Zenon, <2>5, <4>1, <4>2
    <3>2. CASE SameLists(x, y)
      <4>1. y.conn = x.conn /\ y.wait = x.wait /\ y.data = x.data /\ y.sent = x.sent
        BY Zenon, <3>2 DEF SameLists
      <4> QED BY Zenon, <1>0, <2>5, <3>a, <4>1
    <3>3. ASSUME NEW k \in Node, Opens(x, y, k, s), Fell(y.step[s])
          PROVE  /\ y.data = m.data /\ y.sent = m.sent /\ y.conn[n] = m.conn[n] /\ y.wait[n] = m.wait[n]
                 /\ \A l \in Node : \/ y.conn[l] = m.conn[l] /\ y.wait[l] = m.wait[l]
                                    \/ /\ m.conn[l] = "none" /\ y.conn[l] = "connecting"
                                       /\ \E j \in 1 .. i : y.wait[l] = <<L[j]>> /\ Fell(y.step[L[j]])
      <4>1. /\ x.conn[k] = "none" /\ y.conn[k] = "connecting" /\ y.wait[k] = <<s>>
            /\ y.data = x.data /\ y.sent = x.sent
            /\ \A l \in Node : l # k => y.conn[l] = x.conn[l] /\ y.wait[l] = x.wait[l]
        BY Zenon, <1>6, <3>3, OpensFields
      <4>2. k # n
        BY Zenon, <1>0, <2>5, <4>1
      <4>3. m.conn[k] = "none"
        BY Zenon, <2>5, <4>1
      <4>4. i \in 1 .. i
        BY <1>0
      <4>5. ASSUME NEW l \in Node
            PROVE \/ y.conn[l] = m.conn[l] /\ y.wait[l] = m.wait[l]
                  \/ /\ m.conn[l] = "none" /\ y.conn[l] = "connecting"
                     /\ \E j \in 1 .. i : y.wait[l] = <<L[j]>> /\ Fell(y.step[L[j]])
        <5>1. CASE l = k
          BY Zenon, <1>1, <3>3, <4>1, <4>3, <4>4, <5>1
        <5>2. CASE l # k
          BY Zenon, <3>a, <4>1, <5>2
        <5> QED BY Zenon, <5>1, <5>2
      <4> QED BY Zenon, <1>0, <2>5, <4>1, <4>2, <4>5
    <3> QED BY Zenon, <2>2, <3>2, <3>3 DEF Failed
  <2> QED
    BY Zenon, <2>3, <2>6, <2>7, <2>8 DEF Lost
<1> QED BY Zenon, <1>7, <1>8, <1>9

\* All the steps of a list have failed.
LEMMA FailedAll ==
  ASSUME NEW m, NEW n, NEW L, Failable(m, n, L), NEW x \in FailAll(m, L)
  PROVE  Lost(m, x, n, L, Len(L))
<1>0. L \in Seq(Steps) /\ Len(L) \in Nat
  BY DEF Failable
<1>1. PICK g : Failing(m, L, g) /\ FailAll(m, L) = g[Len(L)]
  BY Zenon, <1>0, FailAllDefined
<1>2. /\ g[0] = {m}
      /\ \A i \in 1 .. Len(L) : g[i] = UNION {FailStep(y, L[i]) : y \in g[i - 1]}
  <2>1. \A i \in 1 .. Len(L) : i \in 0 .. Len(L) /\ i # 0
    BY <1>0
  <2>2. 0 \in 0 .. Len(L)
    BY <1>0
  <2> QED BY Zenon, <1>1, <2>1, <2>2 DEF Failing
<1> DEFINE Bad == {i \in 0 .. Len(L) : \E y \in g[i] : ~ Lost(m, y, n, L, i)}
<1>3. Bad = {}
  <2> SUFFICES ASSUME Bad # {} PROVE FALSE
    BY Zenon
  <2>1. Bad \in SUBSET Nat
    BY <1>0
  <2>2. PICK k \in Bad : \A i \in Bad : k =< i
    <3> HIDE DEF Bad
    <3> QED BY Zenon, <2>1, Least
  <2>3. PICK y \in g[k] : ~ Lost(m, y, n, L, k)
    BY Zenon, <2>2
  <2>4. k # 0
    <3> SUFFICES ASSUME k = 0 PROVE FALSE
      BY Zenon
    <3>1. y = m
      BY Zenon, <1>2, <2>3
    <3> QED BY Zenon, <2>3, <3>1, LostNone
  <2>5. k \in 1 .. Len(L) /\ k - 1 \in 0 .. Len(L) /\ ~ (k =< k - 1)
    BY <1>0, <2>2, <2>4
  <2>6. k - 1 \notin Bad
    <3> HIDE DEF Bad
    <3> QED BY Zenon, <2>2, <2>5
  <2>7. PICK z \in g[k - 1] : y \in FailStep(z, L[k])
    BY <1>2, <2>3, <2>5
  <2>8. Lost(m, z, n, L, k - 1)
    BY Zenon, <2>5, <2>6, <2>7
  <2>9. Lost(m, y, n, L, k)
    BY Zenon, <2>5, <2>7, <2>8, LostStep
  <2> QED BY Zenon, <2>3, <2>9
<1>4. Len(L) \in 0 .. Len(L)
  BY <1>0
<1>5. \A y \in g[Len(L)] : Lost(m, y, n, L, Len(L))
  BY Zenon, <1>3, <1>4
<1> QED BY Zenon, <1>1, <1>5

\* DropContext of an address whose lists are empty.
LEMMA DropFields ==
  ASSUME NEW x \in States, NEW n \in Node, x.data[n] = <<>>, x.wait[n] = <<>>,
         NEW z, z = DropContext(x, n)
  PROVE  /\ z \in States /\ z.crashed = x.crashed /\ z.step = x.step
         /\ z.conn[n] = "none" /\ z.data[n] = <<>> /\ z.wait[n] = <<>> /\ z.sent[n] = <<>>
         /\ \A k \in Node : k # n => /\ z.conn[k] = x.conn[k] /\ z.data[k] = x.data[k]
                                     /\ z.wait[k] = x.wait[k] /\ z.sent[k] = x.sent[k]
<1>1. Range(x.data[n]) \cup Range(x.wait[n]) = {}
  BY Zenon, ListFacts
<1>2. PICK st : st = [s \in Steps |-> x.step[s]]
  BY Zenon
<1>3. st = x.step
  BY Zenon, <1>2 DEF States
<1>4. z = [x EXCEPT !.step = st, !.conn[n] = "none", !.data[n] = <<>>, !.wait[n] = <<>>, !.sent[n] = <<>>]
  <2>1. \A s \in Steps : (IF s \in {} THEN Gone(x.step[s]) ELSE x.step[s]) = x.step[s]
    BY Zenon
  <2>2. [s \in Steps |-> IF s \in {} THEN Gone(x.step[s]) ELSE x.step[s]] = st
    BY Zenon, <1>2
  <2> QED BY Zenon, <1>1, <2>2 DEF DropContext
<1>5. /\ z.step = x.step /\ z.conn = [x.conn EXCEPT ![n] = "none"]
      /\ z.data = [x.data EXCEPT ![n] = <<>>] /\ z.wait = [x.wait EXCEPT ![n] = <<>>]
      /\ z.sent = [x.sent EXCEPT ![n] = <<>>] /\ z.ping = x.ping /\ z.crashed = x.crashed
  BY Zenon, <1>3, <1>4 DEF States
<1>6. z = [step |-> z.step, conn |-> z.conn, data |-> z.data, wait |-> z.wait, sent |-> z.sent,
           ping |-> z.ping, crashed |-> z.crashed]
  BY Zenon, <1>4 DEF States
<1>7. z \in States
  <2>1. z.step \in [Steps -> Rec] /\ z.ping \in [Node -> BOOLEAN] /\ z.crashed \in BOOLEAN
    BY Zenon, <1>5 DEF States
  <2>2. z.conn \in [Node -> {"none", "connecting", "up", "closing"}]
    BY <1>5 DEF States
  <2>3. <<>> \in Seq(Steps)
    OBVIOUS
  <2>4. z.wait \in Lists /\ z.data \in Lists /\ z.sent \in Lists
    BY <1>5, <2>3 DEF States, Lists
  <2> QED
    BY Zenon, <1>6, <2>1, <2>2, <2>4 DEF States
<1> QED
  BY <1>5, <1>7 DEF States, Lists

\* m, but for the context of address n.
Closes(m, y, n) ==
  /\ y \in States /\ y.step = m.step /\ y.data = m.data /\ y.wait = m.wait /\ y.sent = m.sent
  /\ y.crashed = m.crashed /\ \A k \in Node : k # n => y.conn[k] = m.conn[k]

\* x without what belongs to address n.
Drops(x, z, n) ==
  /\ z \in States /\ z.crashed = x.crashed /\ z.step = x.step
  /\ z.conn[n] = "none" /\ z.data[n] = <<>> /\ z.wait[n] = <<>> /\ z.sent[n] = <<>>
  /\ \A k \in Node : k # n => /\ z.conn[k] = x.conn[k] /\ z.data[k] = x.data[k]
                              /\ z.wait[k] = x.wait[k] /\ z.sent[k] = x.sent[k]

\* A connection was given up with all its steps.
LEMMA DroppedOK ==
  ASSUME NEW m, PipeOK(m), ~ m.crashed, NEW n \in Node, NEW y, Closes(m, y, n),
         NEW L, Failable(y, n, L), Held(m, n) = Range(L), NEW x, Lost(y, x, n, L, Len(L)),
         ~ x.crashed, NEW z, Drops(x, z, n)
  PROVE  PipeOK(z) /\ ~ z.crashed
<1>0. m \in States /\ x \in States /\ z \in States /\ L \in Seq(Steps) /\ ~ z.crashed
  BY Zenon DEF PipeOK, Lost, Drops, Failable
<1>1. Range(L) = {L[j] : j \in 1 .. Len(L)}
  BY Zenon, <1>0, ListFacts
<1>2. \A t \in Steps : t \notin Range(L) => z.step[t] = m.step[t]
  <2>1. \A t \in Steps : (\A j \in 1 .. Len(L) : t # L[j]) => x.step[t] = y.step[t]
    BY Zenon DEF Lost
  <2> QED BY Zenon, <1>1, <2>1 DEF Closes, Drops
<1>3. \A t \in Range(L) : z.step[t].life = "gone" /\ RecOK(z.step[t])
  <2>1. \A j \in 1 .. Len(L) : x.step[L[j]].life = "gone" /\ RecOK(x.step[L[j]])
    BY Zenon DEF Lost
  <2> QED BY Zenon, <1>1, <2>1 DEF Drops
<1>4. \A t \in Steps : RecOK(z.step[t])
  BY Zenon, <1>2, <1>3 DEF PipeOK
<1>5. ASSUME NEW k \in Node, k # n
      PROVE  /\ NodeOK(z.conn[k], z.data[k], z.wait[k], z.sent[k], z.step)
             /\ Held(m, k) \subseteq Held(z, k)
  <2>1. z.data[k] = m.data[k] /\ z.sent[k] = m.sent[k]
    BY <1>5 DEF Drops, Lost, Closes
  <2>2. NodeOK(m.conn[k], m.data[k], m.wait[k], m.sent[k], m.step)
    BY Zenon DEF PipeOK
  <2>3. m.data[k] \in Seq(Steps) /\ m.wait[k] \in Seq(Steps)
    BY Zenon, <1>0, StateTypes
  <2>4. \/ z.conn[k] = m.conn[k] /\ z.wait[k] = m.wait[k]
        \/ /\ m.conn[k] = "none" /\ z.conn[k] = "connecting"
           /\ \E j \in 1 .. Len(L) : z.wait[k] = <<L[j]>> /\ Fell(z.step[L[j]])
    <3>1. \/ x.conn[k] = y.conn[k] /\ x.wait[k] = y.wait[k]
          \/ /\ y.conn[k] = "none" /\ x.conn[k] = "connecting"
             /\ \E j \in 1 .. Len(L) : x.wait[k] = <<L[j]>> /\ Fell(x.step[L[j]])
      BY Zenon DEF Lost
    <3>2. /\ z.conn[k] = x.conn[k] /\ z.wait[k] = x.wait[k] /\ z.step = x.step
          /\ y.conn[k] = m.conn[k] /\ y.wait[k] = m.wait[k]
      BY Zenon, <1>5 DEF Drops, Closes
    <3> QED BY Zenon, <3>1, <3>2
  <2>5. CASE z.conn[k] = m.conn[k] /\ z.wait[k] = m.wait[k]
    <3>1. Held(m, k) \cap Range(L) = {}
      BY Zenon, <1>5 DEF PipeOK, Apart
    <3>2. Held(m, k) \subseteq Steps
      BY Zenon, <2>3, ListFacts DEF Held
    <3>3. \A s \in Range(m.data[k]) \cup Range(m.wait[k]) : z.step[s] = m.step[s]
      BY Zenon, <1>2, <3>1, <3>2 DEF Held
    <3>4. NodeOK(m.conn[k], m.data[k], m.wait[k], m.sent[k], z.step)
      BY Zenon, <2>2, <2>3, <3>3, NodeKeeps
    <3> QED BY Zenon, <2>1, <2>5, <3>4 DEF Held
  <2>6. ASSUME NEW j \in 1 .. Len(L), m.conn[k] = "none", z.conn[k] = "connecting",
               z.wait[k] = <<L[j]>>, Fell(z.step[L[j]])
        PROVE  /\ NodeOK(z.conn[k], z.data[k], z.wait[k], z.sent[k], z.step)
               /\ Held(m, k) \subseteq Held(z, k)
    <3>1. L[j] \in Steps
      BY <1>0
    <3>2. NodeOK("connecting", <<>>, <<L[j]>>, <<>>, z.step)
      BY Zenon, <2>6, <3>1, NodeOpens
    <3>3. m.data[k] = <<>> /\ m.sent[k] = <<>> /\ m.wait[k] = <<>>
      BY Zenon, <2>2, <2>6 DEF NodeOK
    <3>4. Held(m, k) = {}
      BY Zenon, <3>3, ListFacts DEF Held
    <3> QED BY Zenon, <2>1, <2>6, <3>2, <3>3, <3>4
  <2> QED BY Zenon, <2>4, <2>5, <2>6
<1>6. NodeOK(z.conn[n], z.data[n], z.wait[n], z.sent[n], z.step) /\ Held(z, n) = {}
  <2>1. Len(<<>>) = 0 /\ 1 .. 0 = {}
    OBVIOUS
  <2> QED BY Zenon, <2>1, ListFacts DEF Drops, NodeOK, Held
<1>7. Apart(z)
  BY Zenon, <1>6 DEF Apart, Node
<1>8. Owned(z)
  <2> SUFFICES ASSUME NEW s \in Steps, z.step[s].life = "live"
               PROVE  \E k \in Node : s \in Held(z, k)
    BY Zenon DEF Owned
  <2>1. s \notin Range(L)
    BY Zenon, <1>3
  <2>2. PICK k \in Node : s \in Held(m, k)
    BY Zenon, <1>2, <2>1 DEF PipeOK, Owned
  <2> QED BY Zenon, <1>5, <2>1, <2>2
<1>9. ByFallBack(z)
  BY Zenon, <1>0 DEF ByFallBack
<1> QED
  BY Zenon, <1>0, <1>4, <1>5, <1>6, <1>7, <1>8, <1>9 DEF PipeOK

\* The state when a step is used after its deletion.
LEMMA CrashedOK ==
  ASSUME NEW m, PipeOK(m), ~ m.crashed, NEW x \in States, NEW n \in Node,
         NEW s \in Range(m.wait[n]), Fell(m.step[s]),
         \A t \in Steps : x.step[t] = m.step[t],
         \A k \in Node : /\ x.conn[k] = m.conn[k] /\ x.wait[k] = m.wait[k]
                         /\ x.data[k] = m.data[k] /\ x.sent[k] = m.sent[k]
  PROVE  PipeOK(x)
<1>0. m \in States
  BY Zenon DEF PipeOK
<1>1. \A k \in Node : Held(x, k) = Held(m, k) /\ Held(m, k) \subseteq Steps
  BY Zenon, <1>0, StateTypes, ListFacts DEF Held
<1>2. \A k \in Node : NodeOK(x.conn[k], x.data[k], x.wait[k], x.sent[k], x.step)
  <2> SUFFICES ASSUME NEW k \in Node
               PROVE  NodeOK(x.conn[k], x.data[k], x.wait[k], x.sent[k], x.step)
    BY Zenon
  <2>1. NodeOK(m.conn[k], m.data[k], m.wait[k], m.sent[k], m.step)
    BY Zenon DEF PipeOK
  <2>2. m.data[k] \in Seq(Steps) /\ m.wait[k] \in Seq(Steps)
    BY Zenon, <1>0, StateTypes
  <2>3. \A t \in Range(m.data[k]) \cup Range(m.wait[k]) : x.step[t] = m.step[t]
    BY Zenon, <1>1 DEF Held
  <2>4. NodeOK(m.conn[k], m.data[k], m.wait[k], m.sent[k], x.step)
    BY <2>1, <2>2, <2>3, NodeKeeps
  <2> QED BY Zenon, <2>4
<1>3. Apart(x)
  BY Zenon, <1>1 DEF PipeOK, Apart
<1>4. Owned(x) /\ \A t \in Steps : RecOK(x.step[t])
  BY Zenon, <1>1 DEF PipeOK, Owned
<1>5. ByFallBack(x)
  <2>1. s \in Steps /\ s \in Range(x.wait[n])
    BY Zenon, <1>1 DEF Held
  <2>2. Fell(x.step[s])
    BY Zenon, <2>1
  <2> QED BY Zenon, <2>1, <2>2 DEF ByFallBack
<1> QED
  BY Zenon, <1>2, <1>3, <1>4, <1>5 DEF PipeOK

LEMMA BecomeState ==
  ASSUME NEW x \in States, Become(x)
  PROVE  State' = x
<1>1. x = [step |-> x.step, conn |-> x.conn, data |-> x.data, wait |-> x.wait, sent |-> x.sent,
           ping |-> x.ping, crashed |-> x.crashed]
  BY Zenon DEF States
<1> QED
  BY Zenon, <1>1 DEF State, Become

LEMMA StateFields ==
  ASSUME NEW m, m = State
  PROVE  /\ m.step = step /\ m.conn = conn /\ m.data = data /\ m.wait = wait /\ m.sent = sent
         /\ m.ping = ping /\ m.crashed = crashed
BY Zenon DEF State

\* The lists of address n are emptied before its context goes.
Emptied(x, y, n) ==
  \/ y = [x EXCEPT !.wait[n] = <<>>] /\ x.data[n] = <<>>
  \/ y = [x EXCEPT !.data[n] = <<>>] /\ x.wait[n] = <<>>
  \/ y = [x EXCEPT !.data[n] = <<>>, !.wait[n] = <<>>]

LEMMA EmptyFields ==
  ASSUME NEW x \in States, NEW n \in Node, NEW y, Emptied(x, y, n)
  PROVE  /\ y \in States /\ y.crashed = x.crashed /\ y.step = x.step /\ y.conn = x.conn
         /\ y.sent = x.sent /\ y.data[n] = <<>> /\ y.wait[n] = <<>>
         /\ \A k \in Node : k # n => y.data[k] = x.data[k] /\ y.wait[k] = x.wait[k]
<1>1. <<>> \in Seq(Steps)
  OBVIOUS
<1>2. CASE y = [x EXCEPT !.wait[n] = <<>>] /\ x.data[n] = <<>>
  BY Zenon, <1>1, <1>2 DEF States, Lists
<1>3. CASE y = [x EXCEPT !.data[n] = <<>>] /\ x.wait[n] = <<>>
  BY Zenon, <1>1, <1>3 DEF States, Lists
<1>4. CASE y = [x EXCEPT !.data[n] = <<>>, !.wait[n] = <<>>]
  BY Zenon, <1>1, <1>4 DEF States, Lists
<1> QED BY Zenon, <1>2, <1>3, <1>4 DEF Emptied

LEMMA EmptyDrops ==
  ASSUME NEW x \in States, NEW n \in Node, NEW y, Emptied(x, y, n)
  PROVE  Drops(x, DropContext(y, n), n)
<1>1. /\ y \in States /\ y.crashed = x.crashed /\ y.step = x.step /\ y.conn = x.conn
      /\ y.sent = x.sent /\ y.data[n] = <<>> /\ y.wait[n] = <<>>
      /\ \A k \in Node : k # n => y.data[k] = x.data[k] /\ y.wait[k] = x.wait[k]
  BY EmptyFields
<1>2. PICK z : z = DropContext(y, n)
  BY Zenon
<1>3. /\ z \in States /\ z.crashed = y.crashed /\ z.step = y.step
      /\ z.conn[n] = "none" /\ z.data[n] = <<>> /\ z.wait[n] = <<>> /\ z.sent[n] = <<>>
      /\ \A k \in Node : k # n => /\ z.conn[k] = y.conn[k] /\ z.data[k] = y.data[k]
                                  /\ z.wait[k] = y.wait[k] /\ z.sent[k] = y.sent[k]
  BY <1>1, <1>2, DropFields
<1>4. Drops(x, z, n)
  BY Zenon, <1>1, <1>3 DEF Drops
<1> QED BY Zenon, <1>2, <1>4

\* What the invariant says of one address.
LEMMA NodeFacts ==
  ASSUME NEW m, PipeOK(m), NEW n \in Node
  PROVE  /\ m.data[n] \in Seq(Steps) /\ m.wait[n] \in Seq(Steps) /\ m.data[n] = m.sent[n]
         /\ m.conn[n] # "closing"
         /\ m.conn[n] # "up" => m.data[n] = <<>>
         /\ m.conn[n] # "connecting" => m.wait[n] = <<>>
         /\ Once(m.data[n]) /\ Once(m.wait[n])
         /\ \A s \in Range(m.data[n]) : m.step[s].life = "live"
         /\ \A i \in 1 .. Len(m.wait[n]) :
              m.step[m.wait[n][i]].life = "live" \/ (i = 1 /\ Fell(m.step[m.wait[n][i]]))
<1>1. m \in States /\ NodeOK(m.conn[n], m.data[n], m.wait[n], m.sent[n], m.step)
  BY Zenon DEF PipeOK
<1> QED BY Zenon, <1>1, StateTypes DEF NodeOK

\* OnRedisConnect with an error.
LEMMA ConnectFailOK ==
  ASSUME PipeOK(State), NEW n \in Node, ConnectFail(n)
  PROVE  PipeOK(State')
<1>1. PICK m : m = State
  BY Zenon
<1>2. PipeOK(m) /\ m \in States
  BY Zenon, <1>1 DEF PipeOK
<1>3. PICK L : L = m.wait[n]
  BY Zenon
<1>4. ~ m.crashed /\ m.conn[n] = "connecting" /\ wait[n] = L
  BY Zenon, <1>1, <1>3, StateFields DEF ConnectFail
<1>5. PICK x \in FailAll(m, L) :
        Become(IF x.crashed THEN x ELSE DropContext([x EXCEPT !.wait[n] = <<>>], n))
  BY Zenon, <1>1, <1>4 DEF ConnectFail
<1>6. L \in Seq(Steps) /\ Once(L) /\ m.data[n] = <<>>
      /\ \A i \in 1 .. Len(L) : m.step[L[i]].life = "live" \/ (i = 1 /\ Fell(m.step[L[i]]))
  BY SMTT(20), <1>2, <1>3, <1>4, NodeFacts
<1>7. Failable(m, n, L)
  <2>1. \A i \in 1 .. Len(L) : L[i] \in Steps
    BY <1>6
  <2>2. \A i \in 1 .. Len(L) : RecOK(m.step[L[i]])
    BY Zenon, <1>2, <2>1 DEF PipeOK
  <2> QED BY Zenon, <1>2, <1>4, <1>6, <2>2 DEF Failable
<1>8. Lost(m, x, n, L, Len(L))
  BY Zenon, <1>5, <1>7, FailedAll
<1>9. x \in States /\ x.data = m.data /\ x.sent = m.sent
  BY Zenon, <1>8 DEF Lost
<1>10. CASE x.crashed
  <2>1. /\ Len(L) # 0 /\ Fell(m.step[L[1]])
        /\ \A t \in Steps : x.step[t] = m.step[t]
        /\ \A k \in Node : x.conn[k] = m.conn[k] /\ x.wait[k] = m.wait[k]
    BY Zenon, <1>8, <1>10 DEF Lost
  <2>2. L[1] \in Range(m.wait[n])
    <3>1. 1 \in 1 .. Len(L)
      BY <1>6, <2>1
    <3> QED BY <1>3, <1>6, <3>1, ListFacts
  <2>3. PipeOK(x)
    BY Zenon, <1>2, <1>4, <1>9, <2>1, <2>2, CrashedOK
  <2>4. Become(x)
    BY Zenon, <1>5, <1>10
  <2>5. State' = x
    BY Zenon, <1>9, <2>4, BecomeState
  <2> QED BY Zenon, <2>3, <2>5
<1>11. CASE ~ x.crashed
  <2>1. PICK y : y = [x EXCEPT !.wait[n] = <<>>]
    BY Zenon
  <2>2. PICK z : z = DropContext(y, n)
    BY Zenon
  <2>3. x.data[n] = <<>>
    BY Zenon, <1>6, <1>9
  <2>4. Drops(x, z, n)
    BY Zenon, <1>9, <2>1, <2>2, <2>3, EmptyDrops DEF Emptied
  <2>5. Closes(m, m, n)
    BY Zenon, <1>2 DEF Closes
  <2>6. Held(m, n) = Range(L)
    BY Zenon, <1>3, <1>6, ListFacts DEF Held
  <2>7. PipeOK(z)
    BY Zenon, <1>2, <1>4, <1>7, <1>8, <1>11, <2>4, <2>5, <2>6, DroppedOK
  <2>8. Become(z)
    BY Zenon, <1>5, <1>11, <2>1, <2>2
  <2>9. State' = z
    BY Zenon, <2>7, <2>8, BecomeState DEF PipeOK
  <2> QED BY Zenon, <2>7, <2>9
<1> QED BY Zenon, <1>10, <1>11

\* The connection of address n breaks: its steps, all of them alive, fail.
LEMMA BreakOK ==
  ASSUME PipeOK(State), NEW n \in Node, ~ crashed, conn[n] = "up",
         NEW x \in FailAll([State EXCEPT !.conn[n] = "closing"], data[n]),
         NEW w, \/ w = [x EXCEPT !.data[n] = <<>>]
                \/ w = [x EXCEPT !.data[n] = <<>>, !.wait[n] = <<>>],
         Become(IF x.crashed THEN x ELSE DropContext(w, n))
  PROVE  PipeOK(State')
<1>1. PICK m : m = State
  BY Zenon
<1>2. PipeOK(m) /\ m \in States
  BY Zenon, <1>1 DEF PipeOK
<1>3. PICK L : L = m.data[n]
  BY Zenon
<1>4. ~ m.crashed /\ m.conn[n] = "up" /\ data[n] = L
  BY Zenon, <1>1, <1>3, StateFields
<1>5. PICK y : y = [m EXCEPT !.conn[n] = "closing"]
  BY Zenon
<1>6. Closes(m, y, n) /\ y.conn[n] = "closing"
  BY Zenon, <1>2, <1>5 DEF Closes, States
<1>7. x \in FailAll(y, L)
  BY Zenon, <1>1, <1>4, <1>5
<1>8. /\ L \in Seq(Steps) /\ Once(L) /\ m.wait[n] = <<>>
      /\ \A s \in Range(L) : m.step[s].life = "live"
  BY <1>2, <1>3, <1>4, NodeFacts
<1>9. \A i \in 1 .. Len(L) : y.step[L[i]].life = "live" /\ RecOK(y.step[L[i]])
  <2>1. \A i \in 1 .. Len(L) : L[i] \in Steps /\ L[i] \in Range(L)
    BY Zenon, <1>8, ListFacts
  <2> QED BY Zenon, <1>2, <1>6, <1>8, <2>1 DEF PipeOK, Closes
<1>10. Failable(y, n, L)
  BY Zenon, <1>4, <1>6, <1>8, <1>9 DEF Failable, Closes
<1>11. Lost(y, x, n, L, Len(L)) /\ x \in States
  <2>1. Lost(y, x, n, L, Len(L))
    BY Zenon, <1>7, <1>10, FailedAll
  <2> QED BY Zenon, <2>1 DEF Lost
<1>12. ~ x.crashed
  <2> SUFFICES ASSUME x.crashed PROVE FALSE
    BY Zenon
  <2>1. Len(L) # 0 /\ y.step[L[1]].life # "live"
    BY Zenon, <1>11 DEF Lost
  <2>2. 1 \in 1 .. Len(L)
    BY <1>8, <2>1
  <2> QED BY Zenon, <1>9, <2>1, <2>2
<1>13. Held(m, n) = Range(L)
  BY Zenon, <1>3, <1>8, ListFacts DEF Held
<1>14. PICK z : z = DropContext(w, n)
  BY Zenon
<1>15. Drops(x, z, n)
  <2>1. x.wait[n] = <<>>
    BY <1>6, <1>8, <1>11 DEF Lost, Closes
  <2>2. Emptied(x, w, n)
    BY Zenon, <2>1 DEF Emptied
  <2> QED BY Zenon, <1>11, <1>14, <2>2, EmptyDrops
<1>16. PipeOK(z)
  BY Zenon, <1>2, <1>4, <1>6, <1>10, <1>11, <1>12, <1>13, <1>15, DroppedOK
<1>17. Become(z)
  BY Zenon, <1>12, <1>14
<1>18. State' = z
  BY Zenon, <1>16, <1>17, BecomeState DEF PipeOK
<1> QED BY Zenon, <1>16, <1>18

\* OnRedisCmdResult with a NULL reply.
LEMMA ReplyNullOK ==
  ASSUME PipeOK(State), NEW n \in Node, ReplyNull(n)
  PROVE  PipeOK(State')
<1>1. ~ crashed /\ conn[n] = "up"
  BY Zenon DEF ReplyNull
<1>2. PICK x \in FailAll([State EXCEPT !.conn[n] = "closing"], data[n]) :
        Become(IF x.crashed THEN x ELSE DropContext([x EXCEPT !.data[n] = <<>>], n))
  BY Zenon DEF ReplyNull
<1>3. PICK w : w = [x EXCEPT !.data[n] = <<>>]
  BY Zenon
<1> QED BY Zenon, <1>1, <1>2, <1>3, BreakOK

\* OnRedisDisconnect.
LEMMA DisconnectOK ==
  ASSUME PipeOK(State), NEW n \in Node, Disconnect(n)
  PROVE  PipeOK(State')
<1>1. ~ crashed /\ conn[n] = "up" /\ sent[n] = <<>>
  BY Zenon DEF Disconnect
<1>2. Listed(n) = data[n]
  <2>1. PICK m : m = State
    BY Zenon
  <2>2. m.conn[n] = "up" /\ m.sent[n] = <<>> /\ data[n] = m.data[n] /\ wait[n] = m.wait[n]
    BY Zenon, <1>1, <2>1, StateFields
  <2>3. m.data[n] = <<>> /\ m.wait[n] = <<>>
    BY Zenon, <2>1, <2>2, NodeFacts
  <2> QED BY <2>2, <2>3 DEF Listed
<1>3. PICK x \in FailAll([State EXCEPT !.conn[n] = "closing"], data[n]) :
        Become(IF x.crashed THEN x
               ELSE DropContext([x EXCEPT !.data[n] = <<>>, !.wait[n] = <<>>], n))
  BY Zenon, <1>2 DEF Disconnect
<1>4. PICK w : w = [x EXCEPT !.data[n] = <<>>, !.wait[n] = <<>>]
  BY Zenon
<1> QED BY Zenon, <1>1, <1>3, <1>4, BreakOK

\* OnRedisConnect: what waited is sent.
LEMMA ConnectedOK ==
  ASSUME NEW m, PipeOK(m), ~ m.crashed, NEW n \in Node, m.conn[n] = "connecting",
         \A s \in Range(m.wait[n]) : m.step[s].life = "live",
         NEW x, x = [m EXCEPT !.conn[n] = "up", !.wait[n] = <<>>,
                              !.data[n] = @ \o m.wait[n], !.sent[n] = @ \o m.wait[n]]
  PROVE  PipeOK(x)
<1>0. m \in States
  BY Zenon DEF PipeOK
<1>1. PICK w \in Seq(Steps) : w = m.wait[n]
  BY Zenon, <1>0, StateTypes
<1>2. m.data[n] = <<>> /\ m.sent[n] = <<>> /\ Once(w)
  BY Zenon, <1>1, NodeFacts
<1>3. <<>> \o w = w
  OBVIOUS
<1>4. /\ x.step = m.step /\ x.conn = [m.conn EXCEPT ![n] = "up"] /\ x.wait = [m.wait EXCEPT ![n] = <<>>]
      /\ x.data = [m.data EXCEPT ![n] = w] /\ x.sent = [m.sent EXCEPT ![n] = w]
      /\ x.ping = m.ping /\ x.crashed = m.crashed
  BY Zenon, <1>0, <1>1, <1>2, <1>3 DEF States, Lists
<1>5. x = [step |-> x.step, conn |-> x.conn, data |-> x.data, wait |-> x.wait, sent |-> x.sent,
           ping |-> x.ping, crashed |-> x.crashed]
  BY Zenon, <1>0 DEF States
<1>6. x \in States
  <2>1. x.step \in [Steps -> Rec] /\ x.ping \in [Node -> BOOLEAN] /\ x.crashed \in BOOLEAN
    BY Zenon, <1>0, <1>4 DEF States
  <2>2. x.conn \in [Node -> {"none", "connecting", "up", "closing"}]
    BY Zenon, <1>0, <1>4 DEF States
  <2>3. <<>> \in Seq(Steps)
    OBVIOUS
  <2>4. x.wait \in Lists /\ x.data \in Lists /\ x.sent \in Lists
    BY <1>0, <1>4, <2>3 DEF States, Lists
  <2> QED
    BY Zenon, <1>5, <2>1, <2>2, <2>4 DEF States
<1>7. /\ x.conn[n] = "up" /\ x.data[n] = w /\ x.sent[n] = w /\ x.wait[n] = <<>>
      /\ \A k \in Node : k # n => /\ x.conn[k] = m.conn[k] /\ x.data[k] = m.data[k]
                                  /\ x.wait[k] = m.wait[k] /\ x.sent[k] = m.sent[k]
  BY Zenon, <1>0, <1>4 DEF States, Lists
<1>8. \A k \in Node : Held(x, k) = Held(m, k)
  <2>1. Held(x, n) = Range(w) /\ Held(m, n) = Range(w)
    BY Zenon, <1>1, <1>2, <1>7, ListFacts DEF Held
  <2> QED BY Zenon, <1>7, <2>1 DEF Held
<1>9. ASSUME NEW k \in Node
      PROVE  NodeOK(x.conn[k], x.data[k], x.wait[k], x.sent[k], x.step)
  <2>1. CASE k = n
    <3>1. Len(<<>>) = 0 /\ 1 .. 0 = {}
      OBVIOUS
    <3>2. NodeOK("up", w, <<>>, w, m.step)
      BY Zenon, <1>1, <1>2, <3>1, ListFacts DEF NodeOK
    <3> QED BY Zenon, <1>4, <1>7, <2>1, <3>2
  <2>2. CASE k # n
    <3>1. NodeOK(m.conn[k], m.data[k], m.wait[k], m.sent[k], m.step)
      BY Zenon DEF PipeOK
    <3> QED BY Zenon, <1>4, <1>7, <2>2, <3>1
  <2> QED BY Zenon, <2>1, <2>2
<1>10. Apart(x)
  BY Zenon, <1>8 DEF PipeOK, Apart
<1>11. Owned(x) /\ \A t \in Steps : RecOK(x.step[t])
  BY Zenon, <1>4, <1>8 DEF PipeOK, Owned
<1>12. ByFallBack(x)
  BY Zenon, <1>4 DEF ByFallBack
<1> QED
  BY Zenon, <1>6, <1>9, <1>10, <1>11, <1>12 DEF PipeOK

LEMMA ConnectOKOK ==
  ASSUME PipeOK(State), NEW n \in Node, ConnectOK(n)
  PROVE  PipeOK(State')
<1>1. PICK m : m = State
  BY Zenon
<1>2. PipeOK(m) /\ m \in States
  BY Zenon, <1>1 DEF PipeOK
<1>3. m.step = step /\ m.conn = conn /\ m.wait = wait /\ m.crashed = crashed
  BY Zenon, <1>1, StateFields
<1>4. ~ m.crashed /\ m.conn[n] = "connecting"
  BY Zenon, <1>3 DEF ConnectOK
<1>5. CASE \A s \in Range(wait[n]) : step[s].life = "live"
  <2>1. PICK x : x = [State EXCEPT !.conn[n] = "up", !.wait[n] = <<>>,
                               !.data[n] = @ \o wait[n], !.sent[n] = @ \o wait[n]]
    BY Zenon
  <2>2. Become(x)
    BY Zenon, <1>5, <2>1 DEF ConnectOK
  <2>3. x = [m EXCEPT !.conn[n] = "up", !.wait[n] = <<>>,
                      !.data[n] = @ \o m.wait[n], !.sent[n] = @ \o m.wait[n]]
    BY Zenon, <1>1, <1>3, <2>1
  <2>4. \A s \in Range(m.wait[n]) : m.step[s].life = "live"
    BY Zenon, <1>3, <1>5
  <2>5. PipeOK(x)
    BY Zenon, <1>2, <1>4, <2>3, <2>4, ConnectedOK
  <2>6. State' = x
    BY Zenon, <2>2, <2>5, BecomeState DEF PipeOK
  <2> QED BY Zenon, <2>5, <2>6
<1>6. ASSUME NEW s \in Range(wait[n]), step[s].life # "live"
      PROVE  PipeOK(State')
  <2>1. PICK x : x = [m EXCEPT !.crashed = TRUE]
    BY Zenon
  <2>2. Become(x)
    BY Zenon, <1>1, <1>6, <2>1 DEF ConnectOK
  <2>3. /\ x \in States /\ x.step = m.step /\ x.conn = m.conn /\ x.wait = m.wait
        /\ x.data = m.data /\ x.sent = m.sent
    BY Zenon, <1>2, <2>1 DEF States
  <2>4. PICK L \in Seq(Steps) : L = m.wait[n]
    BY Zenon, <1>2, StateTypes
  <2>5. PICK i \in 1 .. Len(L) : s = L[i]
    BY <1>3, <1>6, <2>4, ListFacts
  <2>6. Fell(m.step[s])
    <3>1. m.step[L[i]].life = "live" \/ (i = 1 /\ Fell(m.step[L[i]]))
      BY <1>2, <2>4, NodeFacts
    <3> QED BY Zenon, <1>3, <1>6, <2>5, <3>1
  <2>7. s \in Range(m.wait[n])
    BY Zenon, <1>3
  <2>8. PipeOK(x)
    BY Zenon, <1>2, <1>4, <2>3, <2>6, <2>7, CrashedOK
  <2>9. State' = x
    BY Zenon, <2>2, <2>3, BecomeState
  <2> QED BY Zenon, <2>8, <2>9
<1> QED BY Zenon, <1>5, <1>6

-----------------------------------------------------------------------------
(* New steps. *)

\* ExecStep keeps the invariant.
LEMMA ExecOK ==
  ASSUME NEW m, PipeOK(m), ~ m.crashed, Free(m) # {},
         NEW kind \in {"read", "write", "ttl", "ping"}, NEW a \in Node \cup {NoNode},
         NEW b \in Node \cup {NoNode}, NEW x \in ExecStep(m, NewStep(kind, a, b))
  PROVE  PipeOK(x) /\ ~ x.crashed /\ \E s \in Free(m) : Free(m) \ {s} \subseteq Free(x)
<1>1. m \in States /\ \A k \in Node : m.conn[k] # "closing"
  BY Zenon, NodeFacts DEF PipeOK
<1>2. PICK s \in Free(m) : Added(m, x, s)
  BY Zenon, <1>1, ExecAdds
<1> QED BY Zenon, <1>2, AddedOK

LEMMA RequestOK ==
  ASSUME PipeOK(State), NEW kind \in {"read", "write"}, Request(kind)
  PROVE  PipeOK(State')
<1>1. PICK m : m = State
  BY Zenon
<1>2. PipeOK(m) /\ ~ m.crashed /\ Free(m) # {}
  BY Zenon, <1>1, StateFields DEF Request
<1>3. PICK a, b : a = MasterNode /\ b = SlaveNode
  BY Zenon
<1>4. a \in Node \cup {NoNode} /\ b \in Node \cup {NoNode}
  BY Zenon, <1>3 DEF MasterNode, SlaveNode, Node
<1>5. PICK x \in ExecStep(m, NewStep(kind, a, b)) : Become(x)
  BY Zenon, <1>1, <1>3 DEF Request
<1>6. PipeOK(x)
  BY Zenon, <1>2, <1>4, <1>5, ExecOK
<1>7. State' = x
  BY Zenon, <1>5, <1>6, BecomeState DEF PipeOK
<1> QED BY Zenon, <1>6, <1>7

LEMMA PingOK ==
  ASSUME PipeOK(State), Ping
  PROVE  PipeOK(State')
<1>1. PICK m : m = State
  BY Zenon
<1>2. PipeOK(m) /\ ~ m.crashed /\ Cardinality(Free(m)) > 1
  BY Zenon, <1>1, StateFields DEF Ping
<1>3. Master \in Node \cup {NoNode} /\ Slave \in Node \cup {NoNode} /\ NoNode \in Node \cup {NoNode}
  BY Zenon DEF Node
<1>0. PICK x \in ExecStep(m, NewStep("ping", Master, NoNode)) :
        \E y \in ExecStep(x, NewStep("ping", Slave, NoNode)) : Become(y)
  BY Zenon, <1>1 DEF Ping
<1>4. PICK y \in ExecStep(x, NewStep("ping", Slave, NoNode)) : Become(y)
  BY Zenon, <1>0
<1>5. Free(m) # {}
  BY <1>2, FS_EmptySet
<1>6. PICK s \in Free(m) : PipeOK(x) /\ ~ x.crashed /\ Free(m) \ {s} \subseteq Free(x)
  BY Zenon, <1>0, <1>2, <1>3, <1>5, ExecOK
<1>7. Free(x) # {}
  <2> SUFFICES ASSUME Free(x) = {} PROVE FALSE
    BY Zenon
  <2>1. Free(m) = {s}
    BY Zenon, <1>6
  <2>2. Cardinality({s}) = 1
    BY Zenon, FS_Singleton
  <2> QED BY <1>2, <2>1, <2>2
<1>8. PipeOK(y)
  BY Zenon, <1>3, <1>4, <1>6, <1>7, ExecOK
<1>9. State' = y
  BY Zenon, <1>4, <1>8, BecomeState DEF PipeOK
<1> QED BY Zenon, <1>8, <1>9

-----------------------------------------------------------------------------
(* Replies. *)

\* The reply to step s, the first of address n, was taken and the step deleted.
Answered(m, x, n, s) ==
  /\ x \in States /\ x.crashed = m.crashed /\ x.conn = m.conn /\ x.wait = m.wait
  /\ x.data = [m.data EXCEPT ![n] = Tail(m.data[n])]
  /\ x.sent = [m.sent EXCEPT ![n] = Tail(m.sent[n])]
  /\ x.step[s].life = "gone" /\ RecOK(x.step[s])
  /\ \A t \in Steps : t # s => x.step[t] = m.step[t]

LEMMA AnsweredOK ==
  ASSUME NEW m, PipeOK(m), ~ m.crashed, NEW n \in Node, m.conn[n] = "up",
         m.data[n] # <<>>, NEW s, s = Head(m.data[n]), NEW x, Answered(m, x, n, s)
  PROVE  PipeOK(x) /\ ~ x.crashed /\ Free(m) \subseteq Free(x)
<1>0. m \in States /\ x \in States /\ ~ x.crashed
  BY Zenon DEF PipeOK, Answered
<1>1. PICK d : d = m.data[n]
  BY Zenon
<1>2. /\ d \in Seq(Steps) /\ m.sent[n] = d /\ m.wait[n] = <<>> /\ Once(d)
      /\ \A t \in Range(d) : m.step[t].life = "live"
  BY Zenon, <1>1, NodeFacts
<1>3. /\ Tail(d) \in Seq(Steps) /\ s \in Steps /\ s \in Range(d) /\ Range(Tail(d)) \subseteq Range(d)
      /\ Range(d) \subseteq Range(Tail(d)) \cup {s} /\ Once(Tail(d)) /\ s \notin Range(Tail(d))
  BY Zenon, <1>1, <1>2, Behead
<1>4. /\ x.conn = m.conn /\ x.wait = m.wait /\ x.data[n] = Tail(d) /\ x.sent[n] = Tail(d)
      /\ \A k \in Node : k # n => x.data[k] = m.data[k] /\ x.sent[k] = m.sent[k]
  BY <1>0, <1>1, <1>2 DEF Answered, States, Lists
<1>5. \A t \in Steps : t # s => x.step[t] = m.step[t]
  BY Zenon DEF Answered
<1>6. \A k \in Node : Held(m, k) \subseteq Steps
  BY Zenon, <1>0, StateTypes, ListFacts DEF Held
<1>7. s \in Held(m, n) /\ Held(m, n) = Range(d) /\ Held(x, n) = Range(Tail(d))
  BY Zenon, <1>1, <1>2, <1>3, <1>4, ListFacts DEF Held
<1>8. \A k \in Node : k # n => Held(x, k) = Held(m, k) /\ s \notin Held(m, k)
  <2>1. \A k \in Node : k # n => Held(m, k) \cap Held(m, n) = {}
    BY Zenon DEF PipeOK, Apart
  <2> QED BY Zenon, <1>4, <1>7, <2>1 DEF Held
<1>9. ASSUME NEW k \in Node
      PROVE  NodeOK(x.conn[k], x.data[k], x.wait[k], x.sent[k], x.step)
  <2>1. CASE k = n
    <3>1. Len(<<>>) = 0 /\ 1 .. 0 = {}
      OBVIOUS
    <3>2. \A t \in Range(Tail(d)) : x.step[t].life = "live"
      BY Zenon, <1>2, <1>3, <1>5, <1>6, <1>7
    <3>3. NodeOK("up", Tail(d), <<>>, Tail(d), x.step)
      BY Zenon, <1>3, <3>1, <3>2, ListFacts DEF NodeOK
    <3> QED BY Zenon, <1>2, <1>4, <2>1, <3>3
  <2>2. CASE k # n
    <3>1. NodeOK(m.conn[k], m.data[k], m.wait[k], m.sent[k], m.step)
      BY Zenon DEF PipeOK
    <3>2. m.data[k] \in Seq(Steps) /\ m.wait[k] \in Seq(Steps)
      BY Zenon, <1>0, StateTypes
    <3>3. \A t \in Range(m.data[k]) \cup Range(m.wait[k]) : x.step[t] = m.step[t]
      BY Zenon, <1>5, <1>6, <1>8, <2>2 DEF Held
    <3>4. NodeOK(m.conn[k], m.data[k], m.wait[k], m.sent[k], x.step)
      BY Zenon, <3>1, <3>2, <3>3, NodeKeeps
    <3> QED BY Zenon, <1>4, <2>2, <3>4
  <2> QED BY Zenon, <2>1, <2>2
<1>10. \A k \in Node : Held(x, k) \subseteq Held(m, k)
  BY Zenon, <1>3, <1>7, <1>8
<1>11. Apart(x)
  BY Zenon, <1>10 DEF PipeOK, Apart
<1>12. Owned(x)
  <2> SUFFICES ASSUME NEW t \in Steps, x.step[t].life = "live"
               PROVE  \E k \in Node : t \in Held(x, k)
    BY Zenon DEF Owned
  <2>1. t # s
    BY Zenon DEF Answered
  <2>2. PICK k \in Node : t \in Held(m, k)
    BY Zenon, <1>5, <2>1 DEF PipeOK, Owned
  <2> QED BY Zenon, <1>3, <1>7, <1>8, <2>1, <2>2
<1>13. \A t \in Steps : RecOK(x.step[t])
  BY Zenon, <1>5 DEF PipeOK, Answered
<1>14. ByFallBack(x)
  BY Zenon, <1>0 DEF ByFallBack
<1>15. Free(m) \subseteq Free(x)
  <2> SUFFICES ASSUME NEW t \in Free(m) PROVE t \in Free(x)
    BY Zenon
  <2>1. t \in Steps /\ m.step[t].life # "live" /\ \A k \in Node : t \notin Held(m, k)
    BY Zenon DEF Free, Held
  <2>2. t # s
    BY Zenon, <1>7, <2>1
  <2>3. x.step[t].life # "live" /\ \A k \in Node : t \notin Held(x, k)
    BY Zenon, <1>5, <1>10, <2>1, <2>2
  <2> QED BY Zenon, <2>1, <2>3 DEF Free, Held
<1> QED
  BY Zenon, <1>0, <1>9, <1>11, <1>12, <1>13, <1>14, <1>15 DEF PipeOK

\* The head of listData goes.
Shift(z, n) == [z EXCEPT !.data[n] = Tail(@)]
Shifted(y, x, n) ==
  /\ x \in States /\ x.data = [y.data EXCEPT ![n] = Tail(y.data[n])]
  /\ x.conn = y.conn /\ x.wait = y.wait /\ x.sent = y.sent
  /\ x.ping = y.ping /\ x.crashed = y.crashed

LEMMA ShiftFields ==
  ASSUME NEW z \in States, NEW n \in Node, z.data[n] # <<>>, NEW x, x = Shift(z, n)
  PROVE  Shifted(z, x, n) /\ x.step = z.step
<1>1. z.data[n] \in Seq(Steps) /\ Tail(z.data[n]) \in Seq(Steps)
  BY Zenon, Behead, StateTypes
<1> QED
  BY Zenon, <1>1 DEF States, Lists, Shift, Shifted

\* So does its step.
LEMMA DeletedTail ==
  ASSUME NEW y \in States, NEW n \in Node, NEW s \in Steps, y.data[n] # <<>>,
         NEW x, x = Shift(Delete(y, s), n)
  PROVE  /\ Shifted(y, x, n) /\ x.step[s] = Gone(y.step[s])
         /\ \A t \in Steps : t # s => x.step[t] = y.step[t]
<1>1. PICK v \in Rec, g \in Rec : v = y.step[s] /\ g = Gone(v)
  BY Zenon, PutForms, RecFacts
<1>2. PICK z : z = Delete(y, s)
  BY Zenon
<1>3. z.step[s] = g /\ SameRest(y, z, s) /\ SameLists(y, z)
  <2>1. Delete(y, s) = Put(y, s, Gone(y.step[s]))
    BY Zenon, PutForms
  <2>2. z = Put(y, s, g)
    BY Zenon, <1>1, <1>2, <2>1
  <2> QED BY Zenon, <2>2, PutFields
<1>4. /\ z \in States /\ z.data = y.data /\ z.conn = y.conn /\ z.wait = y.wait
      /\ z.sent = y.sent /\ z.ping = y.ping /\ z.crashed = y.crashed
      /\ \A t \in Steps : t # s => z.step[t] = y.step[t]
  BY Zenon, <1>3 DEF SameRest, SameLists
<1>5. Shifted(z, x, n) /\ x.step = z.step
  <2>1. x = Shift(z, n) /\ z.data[n] # <<>>
    BY Zenon, <1>2, <1>4
  <2> QED BY Zenon, <1>4, <2>1, ShiftFields
<1>6. Shifted(y, x, n)
  BY Zenon, <1>4, <1>5 DEF Shifted
<1> QED
  BY Zenon, <1>1, <1>3, <1>4, <1>5, <1>6

\* The state after the reply, when the Callback leads from m to y.
LEMMA AnswerFields ==
  ASSUME NEW m \in States, NEW n \in Node, NEW s \in Steps, m.data[n] # <<>>, NEW y \in States,
         y.conn = m.conn, y.wait = m.wait, y.data = m.data, y.crashed = m.crashed,
         y.sent = [m.sent EXCEPT ![n] = Tail(m.sent[n])],
         \A t \in Steps : t # s => y.step[t] = m.step[t], RecOK(Gone(y.step[s])),
         NEW x, x = Shift(Delete(y, s), n)
  PROVE  Answered(m, x, n, s)
<1>1. y.step[s] \in Rec
  BY Zenon, PutForms
<1>2. Gone(y.step[s]).life = "gone"
  BY Zenon, <1>1, GoneFields
<1>3. y.data[n] # <<>>
  BY Zenon
<1>4. /\ Shifted(y, x, n) /\ x.step[s] = Gone(y.step[s])
      /\ \A t \in Steps : t # s => x.step[t] = y.step[t]
  BY <1>3, DeletedTail
<1>5. \A t \in Steps : t # s => x.step[t] = m.step[t]
  BY Zenon, <1>4
<1> QED
  BY Zenon, <1>2, <1>4, <1>5 DEF Answered, Shifted

\* To append and to drop the head commute.
Grown(f, k, t) == [f EXCEPT ![k] = Append(f[k], t)]
Dropped(f, n) == [f EXCEPT ![n] = Tail(f[n])]

LEMMA ShiftAppend ==
  ASSUME NEW D \in [Node -> Seq(Steps)], NEW n \in Node, NEW k \in Node, D[n] # <<>>,
         NEW t \in Steps
  PROVE  /\ Dropped(Grown(D, k, t), n) = Grown(Dropped(D, n), k, t)
         /\ Grown(D, k, t)[n] # <<>>
<1>a. PICK Y, A : Y = [D EXCEPT ![k] = Append(D[k], t)] /\ A = [D EXCEPT ![n] = Tail(D[n])]
  BY Zenon
<1>b. PICK X : X = [Y EXCEPT ![n] = Tail(Y[n])]
  BY Zenon
<1>1. PICK d \in Seq(Steps) : d = D[n]
  BY Zenon
<1>2. /\ Append(d, t) # <<>> /\ Append(d, t) \in Seq(Steps) /\ d # <<>>
      /\ Tail(Append(d, t)) = Append(Tail(d), t) /\ Tail(d) \in Seq(Steps)
  BY Zenon, <1>1, Behead, Appended
<1>3. PICK Z : Z = [A EXCEPT ![k] = Append(A[k], t)]
  BY Zenon
<1>4. /\ X = [j \in Node |-> X[j]] /\ Z = [j \in Node |-> Z[j]]
  BY Zenon, <1>a, <1>b, <1>3
<1>c. X = Z /\ Y[n] # <<>> => /\ Dropped(Grown(D, k, t), n) = Grown(Dropped(D, n), k, t)
                             /\ Grown(D, k, t)[n] # <<>>
  BY Zenon, <1>a, <1>b, <1>3 DEF Grown, Dropped
<1>5. CASE k = n
  <2>1. X[n] = Tail(Append(d, t)) /\ Y[n] = Append(d, t) /\ Z[n] = Append(Tail(d), t)
    BY Zenon, <1>a, <1>b, <1>1, <1>3, <1>5
  <2>2. \A j \in Node : j # n => X[j] = Z[j]
    BY Zenon, <1>a, <1>b, <1>3, <1>5
  <2>3. \A j \in Node : X[j] = Z[j]
    BY Zenon, <1>2, <2>1, <2>2
  <2>4. X = Z
    BY Zenon, <1>4, <2>3
  <2> QED BY Zenon, <1>2, <1>c, <2>1, <2>4
<1>6. CASE k # n
  <2>1. Y[n] = d /\ X[n] = Tail(d) /\ Z[n] = Tail(d)
    BY Zenon, <1>a, <1>b, <1>1, <1>3, <1>6
  <2>2. X[k] = Append(D[k], t) /\ Z[k] = Append(D[k], t)
    BY Zenon, <1>a, <1>b, <1>3, <1>6
  <2>3. \A j \in Node : j # n /\ j # k => X[j] = D[j] /\ Z[j] = D[j]
    BY Zenon, <1>a, <1>b, <1>3, <1>6
  <2>4. X = Z
    BY Zenon, <1>4, <2>1, <2>2, <2>3
  <2> QED BY Zenon, <1>1, <1>c, <2>1, <2>4
<1> QED BY Zenon, <1>5, <1>6

\* A step that was added behind the one that goes.
LEMMA AddedBehind ==
  ASSUME NEW m \in States, NEW s \in Steps, NEW t \in Steps, t # s, NEW y, Added(m, y, t),
         NEW n \in Node, m.data[n] # <<>>,
         NEW a, a = Shift(Delete(m, s), n), NEW x, x = Shift(Delete(y, s), n)
  PROVE  Added(a, x, t)
<1>1. /\ y \in States /\ y.ping = m.ping /\ y.crashed = m.crashed /\ RecOK(y.step[t])
      /\ \A u \in Steps : u # t => y.step[u] = m.step[u]
  BY Zenon DEF Added, SameRest
<1>2. PICK g, h : g = Gone(m.step[s]) /\ h = Gone(y.step[s])
  BY Zenon
<1>3. g = h
  BY Zenon, <1>1, <1>2
<1>4. /\ a \in States /\ a.data = [m.data EXCEPT ![n] = Tail(m.data[n])]
      /\ a.conn = m.conn /\ a.wait = m.wait /\ a.sent = m.sent
      /\ a.ping = m.ping /\ a.crashed = m.crashed /\ a.step[s] = g
      /\ \A u \in Steps : u # s => a.step[u] = m.step[u]
  <2>1. Shifted(m, a, n) /\ a.step[s] = g /\ \A u \in Steps : u # s => a.step[u] = m.step[u]
    BY <1>2, DeletedTail
  <2> QED BY Zenon, <2>1 DEF Shifted
<1>5. ASSUME y.data[n] # <<>>
      PROVE  /\ x \in States /\ x.data = [y.data EXCEPT ![n] = Tail(y.data[n])]
             /\ x.conn = y.conn /\ x.wait = y.wait /\ x.sent = y.sent
             /\ x.ping = y.ping /\ x.crashed = y.crashed /\ x.step[s] = g
             /\ \A u \in Steps : u # s => x.step[u] = y.step[u]
  <2>1. Shifted(y, x, n) /\ x.step[s] = h /\ \A u \in Steps : u # s => x.step[u] = y.step[u]
    BY <1>1, <1>2, <1>5, DeletedTail
  <2> QED BY Zenon, <1>3, <2>1 DEF Shifted
<1>6. ASSUME y.data[n] # <<>>
      PROVE  SameRest(a, x, t) /\ x.step[t] = y.step[t]
  <2>1. \A u \in Steps : u # t => x.step[u] = a.step[u]
    <3> SUFFICES ASSUME NEW u \in Steps, u # t PROVE x.step[u] = a.step[u]
      BY Zenon
    <3>1. CASE u = s
      BY Zenon, <1>1, <1>4, <1>5, <1>6, <3>1
    <3>2. CASE u # s
      BY Zenon, <1>1, <1>4, <1>5, <1>6, <3>2
    <3> QED BY Zenon, <3>1, <3>2
  <2> QED
    BY Zenon, <1>1, <1>4, <1>5, <1>6, <2>1 DEF SameRest
<1>7. CASE y.step[t].life = "gone" /\ SameLists(m, y)
  <2>1. y.conn = m.conn /\ y.data = m.data /\ y.wait = m.wait /\ y.sent = m.sent
    BY Zenon, <1>7 DEF SameLists
  <2>2. SameLists(a, x)
    BY Zenon, <1>4, <1>5, <2>1 DEF SameLists
  <2> QED
    BY Zenon, <1>1, <1>6, <1>7, <2>1, <2>2 DEF Added
<1>8. ASSUME y.step[t].life = "live", NEW k \in Node, Opens(m, y, k, t)
      PROVE  Added(a, x, t)
  <2>1. y.data = m.data
    BY Zenon, <1>8 DEF Opens
  <2>2. Opens(a, x, k, t)
    BY <1>4, <1>5, <1>8, <2>1 DEF Opens
  <2> QED
    BY Zenon, <1>1, <1>6, <1>8, <2>1, <2>2 DEF Added, Placement
<1>9. ASSUME y.step[t].life = "live", NEW k \in Node, m.conn[k] = "connecting", y.conn = m.conn,
             y.data = m.data, y.sent = m.sent, y.wait = [m.wait EXCEPT ![k] = Append(@, t)]
      PROVE  Added(a, x, t)
  <2>1. y.data[n] # <<>>
    BY Zenon, <1>9
  <2>2. a.conn[k] = "connecting" /\ x.conn = a.conn /\ x.data = a.data /\ x.sent = a.sent
    <3>1. x.conn = y.conn /\ x.sent = y.sent /\ x.data = [y.data EXCEPT ![n] = Tail(y.data[n])]
      BY Zenon, <1>5, <2>1
    <3>2. a.conn = m.conn /\ a.sent = m.sent /\ a.data = [m.data EXCEPT ![n] = Tail(m.data[n])]
      BY Zenon, <1>4
    <3>3. y.conn = m.conn /\ y.sent = m.sent /\ y.data = m.data /\ m.conn[k] = "connecting"
      BY Zenon, <1>9
    <3> QED BY Zenon, <3>1, <3>2, <3>3
  <2>3. x.wait = [a.wait EXCEPT ![k] = Append(@, t)]
    <3>1. x.wait = y.wait
      BY Zenon, <1>5, <2>1
    <3>2. a.wait = m.wait
      BY Zenon, <1>4
    <3> QED BY Zenon, <1>9, <3>1, <3>2
  <2>4. Joins(a, x, k, t)
    BY Zenon, <2>2, <2>3 DEF Joins
  <2> QED
    BY Zenon, <1>1, <1>6, <1>9, <2>1, <2>4 DEF Added, Placement
<1>10. ASSUME y.step[t].life = "live", NEW k \in Node, m.conn[k] = "up", y.conn = m.conn,
              y.wait = m.wait, y.data = [m.data EXCEPT ![k] = Append(@, t)],
              y.sent = [m.sent EXCEPT ![k] = Append(@, t)]
       PROVE  Added(a, x, t)
  <2>0. m.data \in [Node -> Seq(Steps)]
    BY Zenon, StateTypes
  <2>a. y.data = Grown(m.data, k, t) /\ a.data = Dropped(m.data, n)
    BY Zenon, <1>4, <1>10 DEF Grown, Dropped
  <2>b. PICK D : D = m.data
    BY Zenon
  <2>c. Dropped(Grown(D, k, t), n) = Grown(Dropped(D, n), k, t) /\ Grown(D, k, t)[n] # <<>>
    BY Zenon, <2>0, <2>b, ShiftAppend
  <2>1. y.data[n] # <<>>
    BY Zenon, <2>a, <2>b, <2>c
  <2>d. x.data = Dropped(y.data, n)
    BY Zenon, <1>5, <2>1 DEF Dropped
  <2>2. x.data = [a.data EXCEPT ![k] = Append(@, t)]
    <3>1. x.data = Grown(a.data, k, t)
      BY Zenon, <2>a, <2>b, <2>c, <2>d
    <3> QED BY Zenon, <3>1 DEF Grown
  <2>3. Joins(a, x, k, t)
    BY Zenon, <1>4, <1>5, <1>10, <2>1, <2>2 DEF Joins
  <2> QED
    BY Zenon, <1>1, <1>6, <1>10, <2>1, <2>3 DEF Added, Placement
<1> QED
  BY Zenon, <1>7, <1>8, <1>9, <1>10 DEF Added, Placement, Joins

\* What the Callback of a step that lives does with a reply: the step is to be deleted,
\* and a write may have started the step that sets the expiry.
RepliedTo(m, r, s, what) ==
  /\ r.ok = FALSE
  /\ \/ /\ r.m \in States /\ SameLists(m, r.m) /\ r.m.crashed = m.crashed
        /\ RecOK(Gone(r.m.step[s])) /\ \A t \in Steps : t # s => r.m.step[t] = m.step[t]
     \/ /\ what = "ttl"
        /\ \E z \in Rec, a \in Node \cup {NoNode} :
             /\ z.life = "live" /\ RecOK(Gone(z))
             /\ r.m \in ExecStep(Put(m, s, z), NewStep("ttl", a, NoNode))

LEMMA CallbackReplied ==
  ASSUME NEW m \in States, NEW s \in Steps, m.step[s].life = "live", RecOK(m.step[s]),
         NEW what \in {"error", "reply", "ttl"}, what = "ttl" => m.step[s].kind = "write",
         NEW r \in Callback(m, s, what)
  PROVE  RepliedTo(m, r, s, what)
<1>1. PICK v \in Rec : v = m.step[s]
  BY Zenon, PutForms
<1>2. v.rsp = 0 /\ v.kind \in {"read", "write", "ttl", "ping"}
  BY Zenon, <1>1 DEF RecOK, Rec
<1>3. Rsp(v) \in Rec /\ Rsp(v).rsp = 1 /\ Rsp(v).life = "live"
  <2>1. Rsp(v) \in Rec /\ Rsp(v).rsp = v.rsp + 1 /\ Rsp(v).life = v.life
    BY Zenon, RecFacts, RspFields
  <2> QED BY <1>1, <1>2, <2>1
<1>4. ASSUME NEW z \in Rec,
             \/ z \in {Rsp(v), Run(Rsp(v))}
             \/ v.kind = "read" /\ z = Run(v)
      PROVE  z.life = "live" /\ RecOK(Gone(z))
  <2>1. CASE z = Rsp(v)
    BY Zenon, <1>3, <2>1, GoneOK
  <2>2. CASE z = Run(Rsp(v))
    <3>1. z.rsp = 1 /\ z.life = "live"
      BY Zenon, <1>3, <2>2, RunFields
    <3> QED BY Zenon, <3>1, GoneOK
  <2>3. CASE v.kind = "read" /\ z = Run(v)
    <3>1. z.kind = "read" /\ z.rsp = 0 /\ z.db = TRUE /\ z.life = "live"
      BY Zenon, <1>1, <1>2, <2>3, RunFields
    <3> QED BY Zenon, <3>1, GoneOK
  <2> QED BY Zenon, <1>4, <2>1, <2>2, <2>3
<1>5. /\ Response(m, s) = Put(m, s, Rsp(v)) /\ NextStep(m, s) = Put(m, s, Run(v))
      /\ NextStep(Response(m, s), s) = Put(m, s, Run(Rsp(v)))
  <2>1. PICK y : y = Put(m, s, Rsp(v))
    BY Zenon
  <2>2. y \in States /\ y.step[s] = Rsp(v)
    BY <1>3, <2>1, PutFields DEF SameRest
  <2>3. NextStep(y, s) = Put(y, s, Run(Rsp(v)))
    BY Zenon, <2>2, PutForms
  <2>4. Put(y, s, Run(Rsp(v))) = Put(m, s, Run(Rsp(v)))
    BY Zenon, <2>1 DEF Put, States
  <2> QED BY Zenon, <1>1, <2>1, <2>3, <2>4, PutForms
<1>6. Rsp(v) \in Rec /\ Run(v) \in Rec /\ Run(Rsp(v)) \in Rec
  BY Zenon, <1>3, RecFacts
<1>8. ASSUME NEW z \in Rec, RecOK(Gone(z)), r = Returns(Put(m, s, z), FALSE)
      PROVE  /\ r.ok = FALSE
             /\ r.m \in States /\ SameLists(m, r.m) /\ r.m.crashed = m.crashed
             /\ RecOK(Gone(r.m.step[s])) /\ \A t \in Steps : t # s => r.m.step[t] = m.step[t]
  <2>1. r.ok = FALSE /\ r.m = Put(m, s, z)
    BY Zenon, <1>8 DEF Returns
  <2>2. Put(m, s, z).step[s] = z /\ SameRest(m, Put(m, s, z), s) /\ SameLists(m, Put(m, s, z))
    BY Zenon, <1>8, PutFields
  <2> QED BY Zenon, <1>8, <2>1, <2>2 DEF SameRest
<1>9. CASE v.kind = "read"
  <2>1. r \in ReadCallback(m, s, what)
    BY Zenon, <1>1, <1>9 DEF Callback
  <2>2. \E x \in {Response(m, s), NextStep(m, s), NextStep(Response(m, s), s)} : r = Returns(x, FALSE)
    BY Zenon, <2>1 DEF ReadCallback, ReadReply
  <2>3. \E z \in {Rsp(v), Run(v), Run(Rsp(v))} : r = Returns(Put(m, s, z), FALSE)
    BY Zenon, <1>5, <2>2
  <2> QED BY Zenon, <1>4, <1>6, <1>8, <1>9, <2>3 DEF RepliedTo
<1>10. CASE v.kind = "write" /\ what # "ttl"
  <2>1. r \in WriteCallback(m, s, what)
    BY Zenon, <1>1, <1>10 DEF Callback
  <2>2. \E x \in {Response(m, s), NextStep(Response(m, s), s)} : r = Returns(x, FALSE)
    BY Zenon, <1>10, <2>1 DEF WriteCallback, WriteReply
  <2>3. \E z \in {Rsp(v), Run(Rsp(v))} : r = Returns(Put(m, s, z), FALSE)
    BY Zenon, <1>5, <2>2
  <2> QED BY Zenon, <1>4, <1>6, <1>8, <2>3 DEF RepliedTo
<1>11. CASE v.kind = "write" /\ what = "ttl"
  <2>1. r \in WriteCallback(m, s, what)
    BY Zenon, <1>1, <1>11 DEF Callback
  <2>2. PICK y \in {Response(m, s), NextStep(Response(m, s), s)} : r \in SetTtl(y, s)
    BY Zenon, <1>11, <2>1 DEF WriteCallback, WriteReply
  <2>3. PICK z \in {Rsp(v), Run(Rsp(v))} : y = Put(m, s, z)
    BY Zenon, <1>5, <2>2
  <2>4. z \in Rec /\ z.life = "live" /\ RecOK(Gone(z))
    BY Zenon, <1>4, <1>6, <2>3
  <2>5. PICK a : a = y.step[s].master
    BY Zenon
  <2>6. a \in Node \cup {NoNode}
    <3>1. y.step[s] = z
      BY Zenon, <2>3, <2>4, PutFields
    <3> QED BY Zenon, <2>4, <2>5, <3>1 DEF Rec
  <2>7. PICK x \in ExecStep(y, NewStep("ttl", a, NoNode)) : r = Returns(x, FALSE)
    BY Zenon, <2>2, <2>5 DEF SetTtl
  <2>8. r.ok = FALSE /\ r.m = x
    BY Zenon, <2>7 DEF Returns
  <2> QED BY Zenon, <1>11, <2>3, <2>4, <2>6, <2>7, <2>8 DEF RepliedTo
<1>12. RecOK(Gone(v)) \/ v.kind \in {"read", "write"}
  BY Zenon, <1>2, GoneOK
<1>13. CASE v.kind = "ttl"
  <2>1. r = Returns(m, FALSE)
    BY Zenon, <1>1, <1>13 DEF Callback
  <2>2. r.ok = FALSE /\ r.m = m
    BY Zenon, <2>1 DEF Returns
  <2>3. RecOK(Gone(m.step[s]))
    BY Zenon, <1>1, <1>12, <1>13
  <2> QED BY Zenon, <2>2, <2>3 DEF SameLists, RepliedTo
<1>14. CASE v.kind = "ping"
  <2>1. r \in PingCallback(m, s, what)
    BY Zenon, <1>1, <1>14 DEF Callback
  <2>2. PICK p, b : p = m.step[s].master /\ b = (what \in {"reply", "ttl"})
    BY Zenon
  <2>3. PICK x : x = [m EXCEPT !.ping[p] = b]
    BY Zenon
  <2>4. r = Returns(x, FALSE)
    BY Zenon, <2>1, <2>2, <2>3 DEF PingCallback
  <2>5. r.ok = FALSE /\ r.m = x
    BY Zenon, <2>4 DEF Returns
  <2>6. b \in BOOLEAN
    BY <2>2
  <2>7. [m.ping EXCEPT ![p] = b] \in [Node -> BOOLEAN]
    BY Zenon, <2>6 DEF States
  <2>8. x \in States /\ x.step = m.step /\ SameLists(m, x) /\ x.crashed = m.crashed
    BY Zenon, <2>3, <2>7 DEF States, SameLists
  <2>9. RecOK(Gone(m.step[s]))
    BY Zenon, <1>1, <1>12, <1>14
  <2> QED BY Zenon, <2>5, <2>8, <2>9 DEF RepliedTo
<1> QED BY Zenon, <1>2, <1>9, <1>10, <1>11, <1>13, <1>14

\* OnRedisCmdResult with a reply.
LEMMA ReplyOK ==
  ASSUME PipeOK(State), NEW n \in Node, NEW what \in Outcomes, Reply(n, what)
  PROVE  PipeOK(State')
<1>1. PICK m : m = State
  BY Zenon
<1>2. PipeOK(m) /\ m \in States
  BY Zenon, <1>1 DEF PipeOK
<1>3. PICK s : s = Head(m.data[n])
  BY Zenon
<1>4. /\ m.step = step /\ m.conn = conn /\ m.data = data /\ m.sent = sent /\ m.crashed = crashed
  BY Zenon, <1>1, StateFields
<1>5. /\ ~ m.crashed /\ m.conn[n] = "up" /\ m.sent[n] # <<>> /\ what \in {"error", "reply", "ttl"}
      /\ what = "ttl" => Free(m) # {} /\ m.step[s].kind = "write"
  BY Zenon, <1>1, <1>3, <1>4 DEF Reply, Outcomes
<1>6. PICK m1 : m1 = [m EXCEPT !.sent[n] = Tail(@)]
  BY Zenon
<1>7. PICK r \in Callback(m1, s, what) :
        Become(Shift(IF r.ok THEN r.m ELSE Delete(r.m, s), n))
  BY ZenonT(30), <1>1, <1>3, <1>4, <1>6 DEF Reply, Shift
<1>8. /\ m.data[n] \in Seq(Steps) /\ m.data[n] = m.sent[n]
      /\ \A t \in Range(m.data[n]) : m.step[t].life = "live"
  BY Zenon, <1>2, NodeFacts
<1>9. s \in Steps /\ m.step[s].life = "live" /\ RecOK(m.step[s]) /\ Tail(m.sent[n]) \in Seq(Steps)
      /\ m.data[n] # <<>>
  BY Zenon, <1>2, <1>3, <1>5, <1>8, Behead DEF PipeOK
<1>10. /\ m1 \in States /\ m1.step = m.step /\ m1.conn = m.conn /\ m1.wait = m.wait
       /\ m1.data = m.data /\ m1.crashed = m.crashed
       /\ m1.sent = [m.sent EXCEPT ![n] = Tail(m.sent[n])]
  BY Zenon, <1>2, <1>6, <1>9 DEF States, Lists
<1>a. RepliedTo(m1, r, s, what)
  <2>1. m1.step[s].life = "live" /\ RecOK(m1.step[s]) /\ (what = "ttl" => m1.step[s].kind = "write")
    BY Zenon, <1>5, <1>9, <1>10
  <2> QED BY Zenon, <1>5, <1>7, <1>9, <1>10, <2>1, CallbackReplied
<1>11. r.ok = FALSE
  BY Zenon, <1>a DEF RepliedTo
<1>12. PICK x : x = Shift(Delete(r.m, s), n)
  BY Zenon
<1>13. Become(x)
  BY Zenon, <1>7, <1>11, <1>12
<1>14. ASSUME PipeOK(x) PROVE PipeOK(State')
  <2>1. State' = x
    BY Zenon, <1>13, <1>14, BecomeState DEF PipeOK
  <2> QED BY Zenon, <1>14, <2>1
<1>15. CASE /\ r.m \in States /\ SameLists(m1, r.m) /\ r.m.crashed = m1.crashed
            /\ RecOK(Gone(r.m.step[s])) /\ \A t \in Steps : t # s => r.m.step[t] = m1.step[t]
  <2>1. PICK y : y = r.m
    BY Zenon
  <2>2. /\ y \in States /\ y.conn = m.conn /\ y.wait = m.wait /\ y.data = m.data
        /\ y.crashed = m.crashed /\ y.sent = [m.sent EXCEPT ![n] = Tail(m.sent[n])]
        /\ RecOK(Gone(y.step[s])) /\ \A t \in Steps : t # s => y.step[t] = m.step[t]
    BY Zenon, <1>10, <1>15, <2>1 DEF SameLists
  <2>3. x = Shift(Delete(y, s), n)
    BY Zenon, <1>12, <2>1
  <2>4. Answered(m, x, n, s)
    BY Zenon, <1>2, <1>9, <2>2, <2>3, AnswerFields
  <2>5. PipeOK(x)
    BY Zenon, <1>2, <1>3, <1>5, <1>9, <2>4, AnsweredOK
  <2> QED BY Zenon, <1>14, <2>5
<1>16. ASSUME what = "ttl", NEW v \in Rec, NEW b \in Node \cup {NoNode}, v.life = "live",
              RecOK(Gone(v)), r.m \in ExecStep(Put(m1, s, v), NewStep("ttl", b, NoNode))
       PROVE  PipeOK(State')
  <2>1. PICK m2, y : m2 = Put(m1, s, v) /\ y = r.m
    BY Zenon
  <2>2. v \in Rec /\ v.life = "live" /\ RecOK(Gone(v))
    BY Zenon, <1>16
  <2>3. m2.step[s] = v /\ SameRest(m1, m2, s) /\ SameLists(m1, m2)
    BY Zenon, <1>9, <1>10, <2>1, <2>2, PutFields
  <2>4. /\ m2 \in States /\ m2.conn = m.conn /\ m2.wait = m.wait /\ m2.data = m.data
        /\ m2.crashed = m.crashed /\ m2.sent = [m.sent EXCEPT ![n] = Tail(m.sent[n])]
        /\ RecOK(Gone(m2.step[s])) /\ \A t \in Steps : t # s => m2.step[t] = m.step[t]
    BY Zenon, <1>10, <2>2, <2>3 DEF SameRest, SameLists
  <2>5. y \in ExecStep(m2, NewStep("ttl", b, NoNode))
    BY Zenon, <1>10, <1>16, <2>1
  <2>6. Free(m2) = Free(m)
    <3>1. \A t \in Steps : m2.step[t].life # "live" <=> m.step[t].life # "live"
      BY Zenon, <1>9, <2>2, <2>3, <2>4
    <3> QED BY Zenon, <2>4, <3>1 DEF Free
  <2>7. PICK t \in Free(m2) : Added(m2, y, t)
    <3>1. Free(m2) # {}
      BY Zenon, <1>5, <1>16, <2>6
    <3>2. \A k \in Node : m2.conn[k] # "closing"
      BY <1>2, <2>4, NodeFacts
    <3>3. NoNode \in Node \cup {NoNode} /\ "ttl" \in {"read", "write", "ttl", "ping"}
      BY Zenon
    <3> QED BY Zenon, <2>4, <2>5, <3>1, <3>2, <3>3, ExecAdds
  <2>8. t \in Steps /\ t # s
    BY Zenon, <2>2, <2>3 DEF Free
  <2>9. PICK a : a = Shift(Delete(m2, s), n)
    BY Zenon
  <2>10. Answered(m, a, n, s)
    BY Zenon, <1>2, <1>9, <2>4, <2>9, AnswerFields
  <2>11. PipeOK(a) /\ ~ a.crashed /\ t \in Free(a)
    BY <1>2, <1>3, <1>5, <1>9, <2>6, <2>10, AnsweredOK
  <2>12. x = Shift(Delete(y, s), n) /\ m2.data[n] # <<>>
    BY Zenon, <1>9, <1>12, <2>1, <2>4
  <2>13. Added(a, x, t)
    BY Zenon, <1>9, <2>4, <2>7, <2>8, <2>9, <2>12, AddedBehind
  <2>14. PipeOK(x)
    BY Zenon, <2>11, <2>13, AddedOK
  <2> QED BY Zenon, <1>14, <2>14
<1> QED BY Zenon, <1>a, <1>15, <1>16 DEF RepliedTo

-----------------------------------------------------------------------------
(* The specification. *)

\* A Worker that starts.
LEMMA StartedOK == PipeOK(Started)
<1>1. PICK r : r = [NewStep("ping", NoNode, NoNode) EXCEPT !.life = "none"]
  BY Zenon
<1>2. r \in Rec /\ r.life = "none" /\ r.rsp = 0 /\ r.db = FALSE
  BY Zenon, <1>1 DEF NewStep, Rec
<1>3. RecOK(r)
  BY <1>2 DEF RecOK
<1>4. PICK m : m = Started
  BY Zenon
<1>5. /\ m.step = [s \in Steps |-> r] /\ m.conn = [n \in Node |-> "none"]
      /\ m.data = [n \in Node |-> <<>>] /\ m.wait = [n \in Node |-> <<>>]
      /\ m.sent = [n \in Node |-> <<>>] /\ m.ping = [n \in Node |-> FALSE] /\ m.crashed = FALSE
  BY Zenon, <1>1, <1>4 DEF Started
<1>6. m = [step |-> m.step, conn |-> m.conn, data |-> m.data, wait |-> m.wait, sent |-> m.sent,
           ping |-> m.ping, crashed |-> m.crashed]
  BY Zenon, <1>4 DEF Started
<1>7. m \in States
  <2>1. m.step \in [Steps -> Rec]
    BY Zenon, <1>2, <1>5
  <2>2. /\ m.conn \in [Node -> {"none", "connecting", "up", "closing"}]
        /\ m.ping \in [Node -> BOOLEAN] /\ m.crashed \in BOOLEAN
    BY Zenon, <1>5
  <2>3. <<>> \in Seq(Steps)
    OBVIOUS
  <2>4. m.data \in Lists /\ m.wait \in Lists /\ m.sent \in Lists
    BY Zenon, <1>5, <2>3 DEF Lists
  <2> QED
    BY Zenon, <1>6, <2>1, <2>2, <2>4 DEF States
<1>8. /\ \A s \in Steps : m.step[s] = r
      /\ \A n \in Node : /\ m.conn[n] = "none" /\ m.data[n] = <<>> /\ m.wait[n] = <<>>
                         /\ m.sent[n] = <<>>
  BY Zenon, <1>5
<1>9. \A n \in Node : NodeOK(m.conn[n], m.data[n], m.wait[n], m.sent[n], m.step) /\ Held(m, n) = {}
  <2>1. Len(<<>>) = 0 /\ 1 .. 0 = {}
    OBVIOUS
  <2> QED
    BY Zenon, <1>8, <2>1, ListFacts DEF NodeOK, Held
<1>10. Apart(m) /\ Owned(m) /\ ByFallBack(m)
  BY Zenon, <1>2, <1>5, <1>8, <1>9 DEF Apart, Owned, ByFallBack
<1>11. PipeOK(m)
  BY Zenon, <1>3, <1>7, <1>8, <1>9, <1>10 DEF PipeOK
<1> QED
  BY Zenon, <1>4, <1>11

LEMMA InitPipe == Init => PipeOK(State)
<1> SUFFICES ASSUME Init PROVE PipeOK(State)
  BY Zenon
<1>1. State = Started
  BY Zenon DEF Init, State, Started
<1> QED
  BY Zenon, <1>1, StartedOK

LEMMA NextPipe == PipeOK(State) /\ [Next]_vars => PipeOK(State')
<1> SUFFICES ASSUME PipeOK(State), [Next]_vars PROVE PipeOK(State')
  BY Zenon
<1>1. ASSUME NEW n \in Node, ConnectEnds(n) \/ CommandEnds(n) \/ Disconnect(n)
      PROVE  PipeOK(State')
  BY Zenon, <1>1, ConnectOKOK, ConnectFailOK, ReplyNullOK, ReplyOK, DisconnectOK
     DEF ConnectEnds, CommandEnds
<1>2. ASSUME NEW kind \in {"read", "write"}, Request(kind) PROVE PipeOK(State')
  BY Zenon, <1>2, RequestOK
<1>3. CASE Ping
  BY Zenon, <1>3, PingOK
<1>4. CASE Restart
  <2>1. Become(Started) /\ Started \in States
    BY Zenon, <1>4, StartedOK DEF Restart, PipeOK
  <2>2. State' = Started
    BY Zenon, <2>1, BecomeState
  <2> QED BY Zenon, <2>2, StartedOK
<1>5. CASE UNCHANGED vars
  <2>1. State' = State
    BY Zenon, <1>5 DEF vars, State
  <2> QED BY Zenon, <2>1
<1> QED
  BY Zenon, <1>1, <1>2, <1>3, <1>4, <1>5 DEF Next

\* The invariant of the lists holds in every state.
THEOREM PipeInvariance == Spec => []PipeOK(State)
<1>1. Init => PipeOK(State)
  BY Zenon, InitPipe
<1>2. PipeOK(State) /\ [Next]_vars => PipeOK(State)'
  BY Zenon, NextPipe
<1> QED
  BY <1>1, <1>2, PTL DEF Spec

\* A reply reaches the step that asked, whatever connected, broke and failed before, for
\* every number of steps.
THEOREM RepliesToAsker == Spec => []RepliesMatch
<1>1. PipeOK(State) => RepliesMatch
  <2> SUFFICES ASSUME PipeOK(State) PROVE RepliesMatch
    BY Zenon
  <2>1. PICK m : m = State
    BY Zenon
  <2>2. m.data = data /\ m.sent = sent /\ m.conn = conn /\ m.wait = wait
    BY Zenon, <2>1, StateFields
  <2> QED
    BY Zenon, <2>1, <2>2, NodeFacts DEF RepliesMatch
<1> QED
  BY <1>1, PipeInvariance, PTL

\* A step answers once at most and only at its end, and a request that is over was
\* answered or handed on to the DB step, unless its read fell back, for every number of
\* steps.
THEOREM RequestsEndAnswered == Spec => []NeverSilent
<1>1. PipeOK(State) => NeverSilent
  <2> SUFFICES ASSUME PipeOK(State) PROVE NeverSilent
    BY Zenon
  <2>1. PICK m : m = State
    BY Zenon
  <2>2. m.step = step /\ \A s \in Steps : RecOK(m.step[s])
    BY Zenon, <2>1, StateFields DEF PipeOK
  <2> QED
    BY Zenon, <2>2 DEF NeverSilent, RecOK, Fell, FellBack
<1> QED
  BY <1>1, PipeInvariance, PTL

\* A list without a step twice is no longer than there are steps.
LEMMA Short ==
  ASSUME NEW q \in Seq(Steps), Once(q)
  PROVE  \A i \in 1 .. Len(q) : i \in Steps
<1>1. Len(q) \in Nat /\ MaxStep \in Nat /\ q \in [1 .. Len(q) -> Steps]
  BY MaxStepAssumption
<1>2. IsFiniteSet(1 .. Len(q)) /\ Cardinality(1 .. Len(q)) = Len(q)
  BY <1>1, FS_Interval
<1>3. IsFiniteSet(Steps) /\ Cardinality(Steps) = MaxStep
  BY <1>1, MaxStepAssumption, FS_Interval DEF Steps
<1>4. ~ (MaxStep < Len(q))
  <2> SUFFICES ASSUME MaxStep < Len(q) PROVE FALSE
    BY Zenon
  <2>1. \E i, j \in 1 .. Len(q) : i # j /\ q[i] = q[j]
    BY Zenon, <1>1, <1>2, <1>3, FS_PigeonHole
  <2> QED BY Zenon, <2>1 DEF Once
<1> QED
  BY <1>1, <1>4 DEF Steps

\* The lists of an address as one.
LEMMA ListedFacts ==
  ASSUME NEW m, m = State, PipeOK(m), NEW n \in Node
  PROVE  /\ Listed(n) \in Seq(Steps) /\ Once(Listed(n)) /\ Range(Listed(n)) = Held(m, n)
         /\ Listed(n) = m.data[n] \/ Listed(n) = m.wait[n]
<1>1. Listed(n) = m.data[n] \o m.wait[n]
  BY Zenon, StateFields DEF Listed
<1>2. PICK d, w : d = m.data[n] /\ w = m.wait[n]
  BY Zenon
<1>3. d \in Seq(Steps) /\ w \in Seq(Steps) /\ Once(d) /\ Once(w) /\ (d = <<>> \/ w = <<>>)
  BY Zenon, <1>2, NodeFacts
<1>4. d = <<>> => d \o w = w /\ Held(m, n) = Range(w)
  BY <1>2, <1>3, ListFacts DEF Held
<1>5. w = <<>> => d \o w = d /\ Held(m, n) = Range(d)
  BY <1>2, <1>3, ListFacts DEF Held
<1> QED
  BY Zenon, <1>1, <1>2, <1>3, <1>4, <1>5

LEMMA Pair ==
  ASSUME NEW A, NEW B, NEW p \in A \X B
  PROVE  p = <<p[1], p[2]>>
OBVIOUS

\* Every step that lives is in one list, once, and only a read that fell back is used
\* after its deletion.
THEOREM StepsOwned == Spec => []OwnedOnce
<1>1. PipeOK(State) => OwnedOnce
  <2> SUFFICES ASSUME PipeOK(State) PROVE OwnedOnce
    BY Zenon
  <2>1. PICK m : m = State
    BY Zenon
  <2>2. m \in States /\ m.step = step /\ m.wait = wait /\ m.crashed = crashed
    BY Zenon, <2>1, StateFields DEF PipeOK
  <2>3. \A n \in Node : /\ Listed(n) \in Seq(Steps) /\ Once(Listed(n)) /\ Range(Listed(n)) = Held(m, n)
                        /\ Listed(n) = m.data[n] \/ Listed(n) = m.wait[n]
    BY Zenon, <2>1, ListedFacts
  <2>4. ASSUME NEW s \in Steps, step[s].life = "live"
        PROVE  Cardinality({p \in Node \X Steps :
                      p[2] \in DOMAIN Listed(p[1]) /\ Listed(p[1])[p[2]] = s}) = 1
    <3> DEFINE P == {p \in Node \X Steps : p[2] \in DOMAIN Listed(p[1]) /\ Listed(p[1])[p[2]] = s}
    <3>1. PICK n \in Node : s \in Held(m, n)
      BY Zenon, <2>1, <2>2, <2>4 DEF PipeOK, Owned
    <3>2. \A k \in Node : k # n => s \notin Held(m, k)
      BY Zenon, <2>1, <3>1 DEF PipeOK, Apart
    <3>3. PICK L : L = Listed(n)
      BY Zenon
    <3>4. L \in Seq(Steps) /\ Once(L) /\ s \in Range(L)
      BY Zenon, <2>3, <3>1, <3>3
    <3>5. PICK i \in 1 .. Len(L) : L[i] = s
      BY <3>4, ListFacts
    <3>6. i \in Steps /\ \A j \in 1 .. Len(L) : L[j] = s => j = i
      BY Zenon, <3>4, <3>5, Short DEF Once
    <3>7. <<n, i>> \in P
      BY <3>3, <3>4, <3>5, <3>6
    <3>8. ASSUME NEW p \in P PROVE p = <<n, i>>
      <4>1. /\ p \in Node \X Steps /\ p[1] \in Node /\ p[2] \in DOMAIN Listed(p[1])
            /\ Listed(p[1])[p[2]] = s
        BY Zenon
      <4>2. PICK k, j : k = p[1] /\ j = p[2] /\ k \in Node
        BY Zenon, <4>1
      <4>3. PICK q \in Seq(Steps) : q = Listed(k) /\ Range(q) = Held(m, k)
        BY Zenon, <2>3, <4>2
      <4>4. j \in 1 .. Len(q) /\ q[j] = s
        BY <4>1, <4>2, <4>3
      <4>5. s \in Held(m, k)
        BY <4>3, <4>4, ListFacts
      <4>6. k = n
        BY Zenon, <3>2, <4>2, <4>5
      <4>7. j = i
        BY Zenon, <3>3, <3>6, <4>3, <4>4, <4>6
      <4> QED BY Zenon, <4>1, <4>2, <4>6, <4>7, Pair
    <3>9. P = {<<n, i>>}
      BY Zenon, <3>7, <3>8
    <3> HIDE DEF P
    <3>10. Cardinality(P) = 1
      BY Zenon, <3>9, FS_Singleton
    <3> QED BY Zenon, <3>10 DEF P
  <2>5. ASSUME NEW n \in Node, NEW s \in Range(Listed(n))
        PROVE  step[s].life = "live" \/ FellBack(s)
    <3>1. m.step[s].life = "live" \/ Fell(m.step[s])
      <4>1. CASE Listed(n) = m.data[n]
        BY <2>1, <2>5, <4>1, NodeFacts
      <4>2. CASE Listed(n) = m.wait[n]
        <5>1. PICK w \in Seq(Steps) : w = m.wait[n]
          BY Zenon, <2>2, StateTypes
        <5>2. PICK i \in 1 .. Len(w) : s = w[i]
          BY SMTT(20), <2>5, <4>2, <5>1, ListFacts
        <5>3. m.step[w[i]].life = "live" \/ (i = 1 /\ Fell(m.step[w[i]]))
          BY <2>1, <5>1, NodeFacts
        <5> QED BY Zenon, <5>2, <5>3
      <4> QED BY Zenon, <2>3, <4>1, <4>2
    <3> QED BY Zenon, <2>2, <3>1 DEF Fell, FellBack
  <2>6. crashed => \E n \in Node : \E s \in Range(wait[n]) : FellBack(s)
    BY Zenon, <2>1, <2>2 DEF PipeOK, ByFallBack, Fell, FellBack
  <2> QED
    BY Zenon, <2>4, <2>5, <2>6 DEF OwnedOnce
<1> QED
  BY <1>1, PipeInvariance, PTL
=============================================================================
