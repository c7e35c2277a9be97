---------------------------- MODULE CenterProofs ----------------------------
(***************************************************************************)
(* The safety invariants of Center hold for every set of nodes and every    *)
(* number of connections, losses and events: ids are unique, and a          *)
(* registered node can be removed. What each of the Center's operations on  *)
(* its tables does, what each step of the Center and of the Managers keeps, *)
(* and the theorems.                                                        *)
(***************************************************************************)
EXTENDS Center, FiniteSetTheorems, TLAPS

-----------------------------------------------------------------------------
(* The types. *)

Cmd == {"register", "report", "tell", "connected", "ok", "notice"}
ToCenter == {"register", "report", "tell", "ok"}
Message == [cmd : Cmd, seq : Nat, reg : SUBSET Nodes, exit : SUBSET Nodes, again : BOOLEAN]
Inbound == {q \in Seq(Message) : \A i \in 1 .. Len(q) : q[i].cmd \in ToCenter}
Link == [node : Nodes, mine : BOOLEAN, at : {"none", "manager", "worker", "closed"},
         ident : BOOLEAN, toC : Inbound, toN : Seq(Message)]
Entry == [id : Nat, suspend : BOOLEAN]
Key == {{}} \cup {{n} : n \in Nodes}
StepNode == [key : Key, to : 0 .. MaxLink, reg : SUBSET Nodes, exit : SUBSET Nodes, tries : Nat]

Tables == [Nodes -> Entry]
Shells == [Nodes -> 0 .. MaxLink]
States == [table : Tables, shell : Shells, link : [Links -> Link], notice : Seq(StepNode)]

Unique(t) == \A n, k \in Nodes : t[n].id > 0 /\ t[k].id > 0 /\ n # k => t[n].id # t[k].id

\* The connection c is to n, and its end will remove n.
Serves(x, n) == x.node = n /\ x.at = "worker" /\ x.ident

\* Connections remain free for every node that has none.
Unreached(s) == {n \in Nodes : s[n] = 0}
Slack(m) == Cardinality(FreeLinks(m.link)) > Cardinality(Unreached(m.shell))

\* What a notice leaves alone: the table, and whatever connections there are.
SameLink(x, y) ==
  /\ y.node = x.node /\ y.mine = x.mine /\ y.at = x.at /\ y.ident = x.ident
  /\ Len(y.toC) = Len(x.toC)
Kept(m, x) ==
  /\ x \in States /\ Slack(x) /\ x.table = m.table
  /\ \A c \in Links : m.link[c].at # "none" => SameLink(m.link[c], x.link[c])

-----------------------------------------------------------------------------
(* Numbers and finite sets. *)

\* A set of numbers that is not empty has a least one.
LEMMA Least ==
  ASSUME NEW S \in SUBSET Nat, S # {}
  PROVE  \E k \in S : \A y \in S : k =< y
<1>1. PICK k \in S : \A y \in S : ~ (<<y, k>> \in OpToRel(<, Nat))
  BY Zenon, NatLessThanWellFounded, WFMin
<1>2. \A y \in S : k =< y
  <2>1. SUFFICES ASSUME NEW y \in S, y < k PROVE FALSE
    OBVIOUS
  <2>2. OpToRel(<, Nat) = {p \in Nat \X Nat : p[1] < p[2]}
    BY Zenon DEF OpToRel
  <2>3. <<y, k>> \in {p \in Nat \X Nat : p[1] < p[2]}
    BY Zenon, <2>1
  <2> QED BY Zenon, <1>1, <2>2, <2>3
<1> QED BY Zenon, <1>2

\* A finite set of numbers has an upper bound.
LEMMA Bounded ==
  ASSUME NEW S \in SUBSET Nat, IsFiniteSet(S)
  PROVE  \E b \in Nat : \A y \in S : y =< b
<1> DEFINE Bad == {k \in Nat : \E T \in SUBSET S : Cardinality(T) = k /\ ~ \E b \in Nat : \A y \in T : y =< b}
<1>1. Bad = {}
  <2> SUFFICES ASSUME Bad # {} PROVE FALSE
    BY Zenon
  <2>1. PICK k \in Bad : \A y \in Bad : k =< y
    <3>1. Bad \in SUBSET Nat
      BY Zenon
    <3> HIDE DEF Bad
    <3> QED BY Zenon, <3>1, Least
  <2>2. PICK T \in SUBSET S : Cardinality(T) = k /\ ~ \E b \in Nat : \A y \in T : y =< b
    BY Zenon, <2>1
  <2>3. IsFiniteSet(T) /\ k \in Nat
    BY Zenon, <2>1, FS_Subset
  <2>4. PICK z \in T : z \in Nat
    BY <2>2
  <2>5. T \ {z} \in SUBSET S /\ Cardinality(T \ {z}) = k - 1
    BY Zenon, <2>2, <2>3, <2>4, FS_RemoveElement
  <2>6. k - 1 \in Nat /\ ~ (k =< k - 1)
    <3>1. Cardinality(T \ {z}) \in Nat
      BY Zenon, <2>3, FS_RemoveElement, FS_CardinalityType
    <3> QED BY <3>1, <2>3, <2>5
  <2>7. k - 1 \notin Bad
    <3> HIDE DEF Bad
    <3> QED BY Zenon, <2>1, <2>6
  <2>8. PICK b \in Nat : \A y \in T \ {z} : y =< b
    BY Zenon, <2>5, <2>6, <2>7
  <2>9. \A y \in T : y =< b + z
    <3>1. \A y \in T : y \in Nat
      BY Zenon
    <3> QED BY <2>4, <2>8, <3>1
  <2>10. b + z \in Nat
    BY <2>4
  <2> QED BY Zenon, <2>2, <2>9, <2>10
<1>2. Cardinality(S) \in Nat /\ S \in SUBSET S
  BY Zenon, FS_CardinalityType
<1> QED BY Zenon, <1>1, <1>2

\* Max of FiniteSetsExt.
LEMMA MaxFacts ==
  ASSUME NEW S \in SUBSET Nat, IsFiniteSet(S), S # {}
  PROVE  Max(S) \in S /\ \A y \in S : Max(S) >= y
<1> DEFINE U == {b \in Nat : \A y \in S : y =< b}
<1>1. U \in SUBSET Nat /\ U # {}
  BY Zenon, Bounded
<1>2. PICK b \in U : \A y \in U : b =< y
  <2> HIDE DEF U
  <2> QED BY Zenon, <1>1, Least
<1>3. b \in S
  <2> SUFFICES ASSUME b \notin S PROVE FALSE
    BY Zenon
  <2>1. PICK z \in S : z \in Nat
    BY Zenon
  <2>2. \A y \in S : y \in Nat /\ y =< b /\ y # b
    BY Zenon, <1>2
  <2>3. b \in Nat
    BY Zenon
  <2>4. b - 1 \in Nat /\ \A y \in S : y =< b - 1
    BY <2>1, <2>2, <2>3
  <2> QED BY <1>2, <2>3, <2>4
<1>4. \A y \in S : b >= y
  BY <1>2
<1>5. \E x \in S : \A y \in S : x >= y
  BY Zenon, <1>3, <1>4
<1> QED BY Zenon, <1>5 DEF Max

\* Min of FiniteSetsExt.
LEMMA MinFacts ==
  ASSUME NEW S \in SUBSET Nat, S # {}
  PROVE  Min(S) \in S
BY Zenon, Least DEF Min

-----------------------------------------------------------------------------
(* Messages and connections. *)

\* Messages are well formed.
LEMMA MsgFacts ==
  ASSUME NEW cmd \in Cmd
  PROVE  Msg(cmd) \in Message /\ Msg(cmd).cmd = cmd
BY DEF Msg, Message

\* The empty queue.
LEMMA EmptySeq == ASSUME NEW S PROVE <<>> \in Seq(S)
OBVIOUS

\* A connection number that is not in use.
LEMMA FreeFacts ==
  /\ Free \in Link /\ Free.at = "none" /\ Free.mine = FALSE /\ Free.ident = FALSE
  /\ Free.toC = <<>>
<1>1. (CHOOSE n \in Nodes : TRUE) \in Nodes
  BY Zenon, CenterAssumption
<1>2. <<>> \in Inbound /\ <<>> \in Seq(Message)
  BY DEF Inbound
<1> QED BY <1>1, <1>2 DEF Free, Link

\* The connections, by their fields.
LEMMA LinkFacts ==
  ASSUME NEW x \in Link
  PROVE  /\ x.node \in Nodes /\ x.mine \in BOOLEAN /\ x.ident \in BOOLEAN
         /\ x.at \in {"none", "manager", "worker", "closed"}
         /\ x.toC \in Inbound /\ x.toC \in Seq(Message) /\ x.toN \in Seq(Message)
BY DEF Link, Inbound

\* The parts of a handler's record.
LEMMA StateFacts ==
  ASSUME NEW m \in States
  PROVE  /\ m.table \in [Nodes -> Entry] /\ m.shell \in [Nodes -> 0 .. MaxLink]
         /\ m.link \in [Links -> Link] /\ m.notice \in Seq(StepNode)
         /\ \A n \in Nodes : m.table[n] \in Entry /\ m.shell[n] \in 0 .. MaxLink
         /\ \A c \in Links : m.link[c] \in Link
BY DEF States, Tables, Shells

\* A notice that is gone shifts the numbers of the others, and changes nothing else of the
\* messages that carry them.
LEMMA RenumberFacts ==
  ASSUME NEW q \in Seq(Message), NEW i \in Nat, NEW j \in Nat
  PROVE  /\ Renumber(q, i, j) \in Seq(Message) /\ Len(Renumber(q, i, j)) = Len(q)
         /\ \A k \in 1 .. Len(q) : Renumber(q, i, j)[k].cmd = q[k].cmd
<1> DEFINE R(k) == [q[k] EXCEPT !.seq = IF @ = i THEN j ELSE IF @ > i THEN @ - 1 ELSE @]
<1>1. DOMAIN q = 1 .. Len(q) /\ Len(q) \in Nat /\ \A k \in 1 .. Len(q) : q[k] \in Message
  OBVIOUS
<1>2. \A k \in 1 .. Len(q) : R(k) \in Message /\ R(k).cmd = q[k].cmd
  <2> SUFFICES ASSUME NEW k \in 1 .. Len(q), NEW v \in Message, v = q[k]
               PROVE  /\ [v EXCEPT !.seq = IF @ = i THEN j ELSE IF @ > i THEN @ - 1 ELSE @] \in Message
                      /\ [v EXCEPT !.seq = IF @ = i THEN j ELSE IF @ > i THEN @ - 1 ELSE @].cmd = v.cmd
    BY Zenon, <1>1
  <2> DEFINE w == IF v.seq = i THEN j ELSE IF v.seq > i THEN v.seq - 1 ELSE v.seq
  <2>1. w \in Nat
    BY DEF Message
  <2> HIDE DEF w
  <2>2. [v EXCEPT !.seq = w] \in Message /\ [v EXCEPT !.seq = w].cmd = v.cmd
    BY Zenon, <2>1 DEF Message
  <2> QED BY Zenon, <2>2 DEF w
<1>3. Renumber(q, i, j) = [k \in 1 .. Len(q) |-> R(k)]
  BY Zenon, <1>1 DEF Renumber
<1> HIDE DEF R
<1> QED BY <1>1, <1>2, <1>3

\* The same for all connections.
LEMMA MoveFacts ==
  ASSUME NEW l \in [Links -> Link], NEW i \in Nat, NEW j \in Nat
  PROVE  /\ Move(l, i, j) \in [Links -> Link]
         /\ \A c \in Links : SameLink(l[c], Move(l, i, j)[c])
<1> DEFINE M(x) == [x EXCEPT !.toC = Renumber(@, i, j), !.toN = Renumber(@, i, j)]
<1>1. ASSUME NEW x \in Link
      PROVE  M(x) \in Link /\ SameLink(x, M(x))
  <2>1. PICK a, b : a = Renumber(x.toC, i, j) /\ b = Renumber(x.toN, i, j)
    BY Zenon
  <2>2. a \in Seq(Message) /\ b \in Seq(Message) /\ Len(a) = Len(x.toC)
    BY Zenon, <2>1, LinkFacts, RenumberFacts
  <2>3. a \in Inbound
    <3>1. \A k \in 1 .. Len(a) : a[k].cmd \in ToCenter
      <4>1. \A k \in 1 .. Len(x.toC) : x.toC[k].cmd \in ToCenter
        BY Zenon, LinkFacts DEF Inbound
      <4>2. \A k \in 1 .. Len(x.toC) : a[k].cmd = x.toC[k].cmd
        BY Zenon, <2>1, LinkFacts, RenumberFacts
      <4> QED BY Zenon, <2>2, <4>1, <4>2
    <3> QED BY Zenon, <2>2, <3>1 DEF Inbound
  <2>4. M(x) = [x EXCEPT !.toC = a, !.toN = b]
    BY <2>1 DEF Link
  <2> HIDE DEF M
  <2>5. M(x) \in Link /\ M(x).toC = a
    BY Zenon, <2>2, <2>3, <2>4 DEF Link
  <2>6. M(x).node = x.node /\ M(x).mine = x.mine /\ M(x).at = x.at /\ M(x).ident = x.ident
    BY <2>4 DEF Link
  <2> QED BY Zenon, <2>2, <2>5, <2>6 DEF SameLink
<1>2. Move(l, i, j) = [c \in Links |-> M(l[c])]
  BY Zenon DEF Move
<1> HIDE DEF M
<1> QED BY Zenon, <1>1, <1>2

\* Finitely many connections, and nodes.
LEMMA Counted ==
  /\ IsFiniteSet(Links)
  /\ \A l : IsFiniteSet(FreeLinks(l)) /\ Cardinality(FreeLinks(l)) \in Nat
  /\ \A s : IsFiniteSet(Unreached(s)) /\ Cardinality(Unreached(s)) \in Nat
            /\ Cardinality(Unreached(s)) =< Cardinality(Nodes)
  /\ Cardinality(Nodes) \in Nat
<1>1. IsFiniteSet(Links)
  <2>1. MaxLink \in Nat /\ MaxLink \in Int /\ 1 \in Int
    BY CenterAssumption
  <2> QED BY Zenon, <2>1, FS_Interval DEF Links
<1>2. \A l : FreeLinks(l) \in SUBSET Links
  BY Zenon DEF FreeLinks
<1>3. \A s : Unreached(s) \in SUBSET Nodes
  BY Zenon DEF Unreached
<1> QED BY Zenon, <1>1, <1>2, <1>3, CenterAssumption, FS_Subset, FS_CardinalityType

\* A new connection gets a number that is free.
LEMMA FreeLinkFacts ==
  ASSUME NEW l, FreeLinks(l) # {}
  PROVE  FreeLink(l) \in FreeLinks(l) /\ FreeLink(l) \in Links /\ FreeLink(l) # 0
<1>1. FreeLinks(l) \in SUBSET Nat /\ FreeLinks(l) \subseteq Links
  BY CenterAssumption DEF FreeLinks, Links
<1>2. FreeLink(l) \in FreeLinks(l)
  BY Zenon, <1>1, MinFacts DEF FreeLink
<1>3. 0 \notin Links
  BY CenterAssumption DEF Links
<1> QED BY Zenon, <1>1, <1>2, <1>3

-----------------------------------------------------------------------------
(* Notices. *)

\* A change that nothing but messages and StepNodes is in.
Quietly(m, x) ==
  /\ x \in States /\ x.table = m.table /\ x.shell = m.shell
  /\ \A c \in Links : SameLink(m.link[c], x.link[c])

\* What opens no connection leaves as many free.
LEMMA QuietlyKept ==
  ASSUME NEW m \in States, NEW x, Quietly(m, x), Slack(m)
  PROVE  Kept(m, x)
<1>1. FreeLinks(x.link) = FreeLinks(m.link)
  BY Zenon DEF FreeLinks, Quietly, SameLink
<1> QED BY Zenon, <1>1 DEF Quietly, Kept, Slack

\* Quietly is reflexive.
LEMMA QuietlyRefl ==
  ASSUME NEW m \in States
  PROVE  Quietly(m, m)
BY Zenon DEF Quietly, SameLink

\* Quietly is transitive.
LEMMA QuietlyTrans ==
  ASSUME NEW m, NEW x, NEW y, Quietly(m, x), Quietly(x, y)
  PROVE  Quietly(m, y)
BY Zenon DEF Quietly, SameLink

\* Kept is transitive.
LEMMA KeptTrans ==
  ASSUME NEW m, NEW x, NEW y, Kept(m, x), Kept(x, y)
  PROVE  Kept(m, y)
<1>1. ASSUME NEW c \in Links, m.link[c].at # "none"
      PROVE  SameLink(m.link[c], y.link[c])
  <2>1. SameLink(m.link[c], x.link[c])
    BY Zenon, <1>1 DEF Kept
  <2>2. SameLink(x.link[c], y.link[c])
    BY Zenon, <1>1, <2>1 DEF Kept, SameLink
  <2> QED BY Zenon, <2>1, <2>2 DEF SameLink
<1> QED BY Zenon, <1>1 DEF Kept

\* One field of the state replaced.
LEMMA SetLink ==
  ASSUME NEW m \in States, NEW l \in [Links -> Link], NEW x, x = [m EXCEPT !.link = l]
  PROVE  x \in States /\ x.table = m.table /\ x.shell = m.shell /\ x.notice = m.notice /\ x.link = l
BY DEF States

\* A change of the registered notices only.
LEMMA SetNotice ==
  ASSUME NEW m \in States, NEW q \in Seq(StepNode), NEW x, x = [m EXCEPT !.notice = q]
  PROVE  /\ x \in States /\ x.table = m.table /\ x.shell = m.shell /\ x.notice = q
         /\ x.link = m.link /\ Quietly(m, x)
<1>1. x \in States
  BY DEF States
<1>2. x.table = m.table /\ x.shell = m.shell /\ x.link = m.link /\ x.notice = q
  BY DEF States
<1> QED BY Zenon, <1>1, <1>2 DEF Quietly, SameLink

\* SendTo appends to what is on its way to a node.
LEMMA SendToFacts ==
  ASSUME NEW m \in States, NEW c \in Links, NEW msg \in Message
  PROVE  Quietly(m, SendTo(m, c, msg)) /\ SendTo(m, c, msg).notice = m.notice
<1> DEFINE x == [m.link[c] EXCEPT !.toN = Append(@, msg)]
           l == [m.link EXCEPT ![c] = x]
<1>1. CASE SendTo(m, c, msg) = m
  BY Zenon, <1>1, QuietlyRefl
<1>2. CASE SendTo(m, c, msg) = [m EXCEPT !.link[c].toN = Append(@, msg)]
  <2>1. m.link[c] \in Link /\ m.link \in [Links -> Link]
    BY Zenon, StateFacts
  <2>2. x \in Link /\ SameLink(m.link[c], x)
    <3>1. PICK v \in Link : v = m.link[c]
      BY Zenon, <2>1
    <3>2. PICK q : q = Append(v.toN, msg)
      BY Zenon
    <3>3. q \in Seq(Message)
      BY <3>2, LinkFacts
    <3>4. x = [v EXCEPT !.toN = q]
      BY Zenon, <3>1, <3>2
    <3> HIDE DEF x
    <3>5. x \in Link
      BY SMTT(20), <3>3, <3>4 DEF Link
    <3>6. x.node = v.node /\ x.mine = v.mine /\ x.at = v.at /\ x.ident = v.ident /\ x.toC = v.toC
      BY <3>4 DEF Link
    <3> QED BY Zenon, <3>1, <3>5, <3>6 DEF SameLink
  <2>3. [m EXCEPT !.link[c].toN = Append(@, msg)] = [m EXCEPT !.link = l]
    BY DEF States
  <2> HIDE DEF x
  <2>4. l \in [Links -> Link] /\ \A d \in Links : l[d] = IF d = c THEN x ELSE m.link[d]
    BY Zenon, <2>1, <2>2
  <2> HIDE DEF l
  <2>5. \A d \in Links : SameLink(m.link[d], l[d])
    BY Zenon, <2>2, <2>4 DEF SameLink
  <2>6. PICK y : y = [m EXCEPT !.link = l]
    BY Zenon
  <2>7. y \in States /\ y.table = m.table /\ y.shell = m.shell /\ y.notice = m.notice /\ y.link = l
    BY <2>4, <2>6, SetLink
  <2>8. Quietly(m, y)
    BY Zenon, <2>5, <2>7 DEF Quietly
  <2> QED BY Zenon, <1>2, <2>3, <2>6, <2>7, <2>8
<1> QED BY Zenon, <1>1, <1>2 DEF SendTo

\* AutoSend takes a free connection, for a node that has none.
LEMMA AutoSendFacts ==
  ASSUME NEW m \in States, NEW n \in Nodes, m.shell[n] = 0, Slack(m)
  PROVE  Kept(m, AutoSend(m, n)) /\ AutoSend(m, n).notice = m.notice
<1>1. PICK c : c = FreeLink(m.link)
  BY Zenon
<1>2. FreeLinks(m.link) # {}
  <2> SUFFICES ASSUME FreeLinks(m.link) = {} PROVE FALSE
    BY Zenon
  <2>1. Cardinality(FreeLinks(m.link)) = 0
    BY Zenon, FS_EmptySet
  <2> QED BY <2>1, Counted DEF Slack
<1>3. c \in FreeLinks(m.link) /\ c \in Links /\ c # 0 /\ c \in 0 .. MaxLink
  <2>1. c \in FreeLinks(m.link) /\ c \in Links /\ c # 0
    BY Zenon, <1>1, <1>2, FreeLinkFacts
  <2>2. Links \subseteq 0 .. MaxLink
    BY CenterAssumption DEF Links
  <2> QED BY Zenon, <2>1, <2>2
<1>4. PICK v : v = [Free EXCEPT !.node = n, !.at = "worker", !.ident = TRUE]
  BY Zenon
<1>5. v \in Link /\ v.at = "worker" /\ v.mine = FALSE
  BY Zenon, <1>4, FreeFacts DEF Link
<1>6. PICK l, s : l = [m.link EXCEPT ![c] = v] /\ s = [m.shell EXCEPT ![n] = c]
  BY Zenon
<1>7. l \in [Links -> Link] /\ \A d \in Links : l[d] = IF d = c THEN v ELSE m.link[d]
  BY Zenon, <1>3, <1>5, <1>6, StateFacts
<1>8. s \in Shells /\ \A k \in Nodes : s[k] = IF k = n THEN c ELSE m.shell[k]
  BY Zenon, <1>3, <1>6, StateFacts DEF Shells
<1>9. PICK x : x = AutoSend(m, n)
  BY Zenon
<1>10. x = [m EXCEPT !.link = l, !.shell = s]
  <2>1. x = [m EXCEPT !.link[c] = v, !.shell[n] = c]
    BY Zenon, <1>1, <1>4, <1>9 DEF AutoSend
  <2> QED BY <1>6, <2>1 DEF States
<1>11. x \in States /\ x.table = m.table /\ x.notice = m.notice /\ x.link = l /\ x.shell = s
  BY Zenon, <1>7, <1>8, <1>10 DEF States
<1>12. FreeLinks(l) = FreeLinks(m.link) \ {c}
  BY Zenon, <1>3, <1>5, <1>7 DEF FreeLinks
<1>13. Unreached(s) = Unreached(m.shell) \ {n} /\ n \in Unreached(m.shell)
  BY Zenon, <1>3, <1>8 DEF Unreached
<1>14. Slack(x)
  <2>1. Cardinality(FreeLinks(l)) = Cardinality(FreeLinks(m.link)) - 1
    <3>1. IsFiniteSet(FreeLinks(m.link))
      BY Zenon, Counted
    <3> QED BY Zenon, <1>3, <1>12, <3>1, FS_RemoveElement
  <2>2. Cardinality(Unreached(s)) = Cardinality(Unreached(m.shell)) - 1
    <3>1. IsFiniteSet(Unreached(m.shell))
      BY Zenon, Counted
    <3> QED BY Zenon, <1>13, <3>1, FS_RemoveElement
  <2> QED BY <1>11, <2>1, <2>2, Counted DEF Slack
<1>15. \A d \in Links : m.link[d].at # "none" => SameLink(m.link[d], x.link[d])
  BY Zenon, <1>3, <1>7, <1>11 DEF FreeLinks, SameLink
<1> QED BY Zenon, <1>9, <1>11, <1>14, <1>15 DEF Kept

\* A StepNode sends its notice, or cannot.
LEMMA EmitFacts ==
  ASSUME NEW m \in States, NEW x \in StepNode, NEW i \in Nat, Slack(m)
  PROVE  Kept(m, Emit(m, x, i).m) /\ Emit(m, x, i).m.notice = m.notice
<1> DEFINE k == CHOOSE n \in x.key : TRUE
           c == IF x.key = {} THEN x.to ELSE m.shell[k]
           msg == [Msg("notice") EXCEPT !.seq = i, !.reg = x.reg, !.exit = x.exit, !.again = x.tries > 0]
<1>1. x.key # {} => k \in Nodes
  BY Zenon DEF StepNode, Key
<1>2. c \in 0 .. MaxLink
  BY Zenon, <1>1, StateFacts DEF StepNode
<1>3. c # 0 => c \in Links
  <2> HIDE DEF c
  <2> QED BY <1>2, CenterAssumption DEF Links
<1>4. msg \in Message
  <2>1. Msg("notice") \in Message
    BY Zenon, MsgFacts DEF Cmd
  <2>2. x.reg \in SUBSET Nodes /\ x.exit \in SUBSET Nodes /\ (x.tries > 0) \in BOOLEAN
    BY DEF StepNode
  <2> QED BY Zenon, <2>1, <2>2 DEF Message
<1>5. Kept(m, m)
  BY Zenon, QuietlyRefl, QuietlyKept
<1>6. PICK e : e = Emit(m, x, i)
  BY Zenon
<1>7. CASE c # 0
  <2>1. e = [m |-> SendTo(m, c, msg), ok |-> TRUE]
    BY Zenon, <1>6, <1>7 DEF Emit
  <2>2. e.m = SendTo(m, c, msg)
    <3> HIDE DEF c, msg
    <3> QED BY Zenon, <2>1
  <2> HIDE DEF c, msg
  <2>3. Quietly(m, SendTo(m, c, msg)) /\ SendTo(m, c, msg).notice = m.notice
    BY Zenon, <1>3, <1>4, <1>7, SendToFacts
  <2> QED BY Zenon, <1>6, <2>2, <2>3, QuietlyKept
<1>8. CASE c = 0 /\ x.key # {} /\ x.key \subseteq Dialable
  <2>1. e = [m |-> AutoSend(m, k), ok |-> TRUE]
    BY Zenon, <1>6, <1>8 DEF Emit
  <2> HIDE DEF k
  <2>2. m.shell[k] = 0 /\ k \in Nodes
    BY <1>1, <1>8
  <2>3. e.m = AutoSend(m, k)
    BY <2>1
  <2> QED BY Zenon, <1>6, <2>2, <2>3, AutoSendFacts
<1>9. CASE c = 0 /\ ~ (x.key # {} /\ x.key \subseteq Dialable)
  <2>1. e = [m |-> m, ok |-> FALSE]
    BY <1>6, <1>9 DEF Emit
  <2>2. e.m = m
    BY <2>1
  <2> QED BY Zenon, <1>5, <1>6, <2>2
<1> QED BY Zenon, <1>7, <1>8, <1>9

\* DeleteCallback drops a notice.
LEMMA DeleteCallbackFacts ==
  ASSUME NEW m \in States, NEW i \in Nat
  PROVE  Quietly(m, DeleteCallback(m, i))
<1>1. CASE i = 0
  BY Zenon, <1>1, QuietlyRefl DEF DeleteCallback
<1>2. CASE i # 0
  <2>1. PICK q, l, r : /\ q = m.notice /\ l = Move(m.link, i, 0)
                       /\ r = [k \in 1 .. Len(q) - 1 |-> IF k < i THEN q[k] ELSE q[k + 1]]
    BY Zenon
  <2>2. q \in Seq(StepNode)
    BY Zenon, <2>1, StateFacts
  <2>3. r \in Seq(StepNode)
    <3>1. CASE Len(q) = 0
      <4>1. r = <<>>
        BY <2>1, <3>1
      <4> QED BY <4>1
    <3>2. CASE Len(q) # 0
      <4>1. Len(q) - 1 \in Nat
        BY <2>2, <3>2
      <4>2. \A k \in 1 .. Len(q) - 1 : q[k] \in StepNode /\ q[k + 1] \in StepNode
        BY <2>2, <4>1
      <4>3. \A k \in 1 .. Len(q) - 1 : r[k] \in StepNode
        BY Zenon, <2>1, <4>2
      <4>4. PICK N \in Nat : N = Len(q) - 1
        BY Zenon, <4>1
      <4>5. r \in [1 .. N -> StepNode]
        BY Zenon, <2>1, <4>3, <4>4
      <4> QED BY <4>5
    <3> QED BY Zenon, <3>1, <3>2
  <2>4. l \in [Links -> Link] /\ \A c \in Links : SameLink(m.link[c], l[c])
    <3>1. 0 \in Nat /\ m.link \in [Links -> Link]
      BY Zenon, StateFacts
    <3> QED BY Zenon, <2>1, <3>1, MoveFacts
  <2>5. PICK y : y = DeleteCallback(m, i)
    BY Zenon
  <2>6. y = [m EXCEPT !.notice = r, !.link = l]
    BY Zenon, <1>2, <2>1, <2>5 DEF DeleteCallback
  <2>7. y \in States /\ y.table = m.table /\ y.shell = m.shell /\ y.link = l
    BY Zenon, <2>3, <2>4, <2>6 DEF States
  <2> QED BY Zenon, <2>4, <2>5, <2>7 DEF Quietly
<1> QED BY Zenon, <1>1, <1>2

\* SendToCallback registers a notice and emits it, over a new connection if the node has
\* none.
LEMMA SendToCallbackFacts ==
  ASSUME NEW m \in States, Slack(m), NEW key \in Key, NEW to \in 0 .. MaxLink,
         NEW reg \in SUBSET Nodes, NEW exit \in SUBSET Nodes
  PROVE  Kept(m, SendToCallback(m, key, to, reg, exit))
<1>1. PICK x : x = [key |-> key, to |-> to, reg |-> reg, exit |-> exit, tries |-> 0]
  BY Zenon
<1>2. x \in StepNode
  BY <1>1 DEF StepNode
<1>3. Len(m.notice) + 1 \in Nat /\ m.notice \in Seq(StepNode)
  BY StateFacts
<1>4. PICK e, y, z : e = Emit(m, x, Len(m.notice) + 1) /\ y = e.m /\ z = [y EXCEPT !.notice = Append(@, x)]
  BY Zenon
<1>5. Kept(m, y) /\ y.notice = m.notice
  BY Zenon, <1>2, <1>3, <1>4, EmitFacts
<1>6. Kept(m, m)
  BY Zenon, QuietlyRefl, QuietlyKept
<1>7. SendToCallback(m, key, to, reg, exit) = IF e.ok THEN z ELSE m
  BY Zenon, <1>1, <1>4 DEF SendToCallback
<1>8. Kept(m, z)
  <2>1. PICK q : q = Append(y.notice, x)
    BY Zenon
  <2>2. y \in States /\ Slack(y)
    BY Zenon, <1>5 DEF Kept
  <2>3. z = [y EXCEPT !.notice = q]
    BY Zenon, <1>4, <2>1
  <2>5. q \in Seq(StepNode)
    BY <1>2, <1>3, <1>5, <2>1
  <2>4. Quietly(y, z)
    BY <2>2, <2>3, <2>5, SetNotice
  <2> QED BY Zenon, <1>5, <2>2, <2>4, QuietlyKept, KeptTrans
<1> QED BY Zenon, <1>6, <1>7, <1>8

-----------------------------------------------------------------------------
(* The loops: over the nodes to be told, and over what has come. *)

\* One turn of a loop: ToOthers, CenterRecv, ManagerRecv.
Turn(w, x, i) ==
  CASE w.loop = "tell" -> SendToCallback(x, {w.order[i]}, 0, w.reg, w.exit)
    [] w.loop = "read" -> Dispose(x, w.c)
    [] w.loop = "hear" -> DisposeDataFromCenter(x, w.q[i])

\* g is what the first turns lead to.
Turns(w, b, N, g) == g = [i \in 0 .. N |-> IF i = 0 THEN b ELSE Turn(w, g[i - 1], i)]

\* A loop has a value.
LEMMA LoopDefined ==
  ASSUME NEW w, NEW b, NEW N \in Nat
  PROVE  \E g : Turns(w, b, N, g)
<1> DEFINE Bad == {k \in Nat : ~ \E g : Turns(w, b, k, g)}
<1>1. Bad = {}
  <2> SUFFICES ASSUME Bad # {} PROVE FALSE
    BY Zenon
  <2>1. PICK k \in Bad : \A y \in Bad : k =< y
    <3>1. Bad \in SUBSET Nat
      BY Zenon
    <3> HIDE DEF Bad
    <3> QED BY Zenon, <3>1, Least
  <2>2. CASE k = 0
    <3>1. PICK g : g = [i \in 0 .. k |-> b]
      BY Zenon
    <3> DEFINE R(i) == IF i = 0 THEN b ELSE Turn(w, g[i - 1], i)
    <3>2. \A i \in 0 .. k : R(i) = b
      BY <2>2
    <3> HIDE DEF R
    <3>3. g = [i \in 0 .. k |-> R(i)]
      BY Zenon, <3>1, <3>2
    <3>4. Turns(w, b, k, g)
      BY Zenon, <3>3 DEF R, Turns
    <3> QED BY Zenon, <2>1, <3>4
  <2>3. CASE k # 0
    <3>1. k - 1 \in Nat /\ k - 1 \notin Bad
      <4>1. k \in Nat
        BY Zenon
      <4> HIDE DEF Bad
      <4> QED BY <4>1, <2>1, <2>3
    <3>2. PICK g : g = [i \in 0 .. (k - 1) |-> IF i = 0 THEN b ELSE Turn(w, g[i - 1], i)]
      BY Zenon, <3>1 DEF Turns
    <3> DEFINE h == [i \in 0 .. k |-> IF i = k THEN Turn(w, g[k - 1], k) ELSE g[i]]
    <3>3. Turns(w, b, k, h)
      <4>1. k \in Nat
        BY Zenon, <2>1
      <4>2. \A i \in 0 .. k : h[i] = IF i = 0 THEN b ELSE Turn(w, h[i - 1], i)
        <5> SUFFICES ASSUME NEW i \in 0 .. k
                     PROVE  h[i] = IF i = 0 THEN b ELSE Turn(w, h[i - 1], i)
          BY Zenon
        <5>1. CASE i = k
          <6>1. h[i - 1] = g[i - 1]
            BY <5>1, <4>1, <2>3
          <6> QED BY Zenon, <5>1, <6>1, <2>3
        <5>2. CASE i # k /\ i # 0
          <6>1. h[i - 1] = g[i - 1] /\ h[i] = g[i]
            BY <5>2, <4>1
          <6>2. g[i] = Turn(w, g[i - 1], i)
            BY <3>2, <5>2, <4>1
          <6> QED BY Zenon, <5>2, <6>1, <6>2
        <5>3. CASE i # k /\ i = 0
          <6>1. g[0] = b
            BY <3>2, <3>1
          <6> QED BY Zenon, <5>3, <6>1
        <5> QED BY Zenon, <5>1, <5>2, <5>3
      <4> QED BY Zenon, <4>2 DEF Turns
    <3> QED BY Zenon, <2>1, <3>3
  <2> QED BY Zenon, <2>2, <2>3
<1> QED BY Zenon, <1>1

\* The loop over the nodes that are told keeps the table and the connections there are.
LEMMA ToOthersFacts ==
  ASSUME NEW m \in States, Slack(m), NEW n \in Nodes, NEW reg \in SUBSET Nodes, NEW exit \in SUBSET Nodes
  PROVE  Kept(m, ToOthers(m, n, reg, exit))
<1> DEFINE others == {k \in Registered(m.table) : n \in NeededBy(k)}
           N == Cardinality(others)
           order == CHOOSE f \in Bijection(1 .. N, others) : TRUE
           Told(f) == f = [i \in 0 .. N |-> IF i = 0 THEN m ELSE SendToCallback(f[i - 1], {order[i]}, 0, reg, exit)]
           g == CHOOSE f : Told(f)
<1>1. ToOthers(m, n, reg, exit) = g[N]
  BY Zenon DEF ToOthers
<1> HIDE DEF g, Told, order, N, others
<1>2. others \in SUBSET Nodes /\ IsFiniteSet(others) /\ N \in Nat
  <2>1. others \in SUBSET Nodes
    BY Zenon DEF others, Registered
  <2> QED BY Zenon, <2>1, CenterAssumption, FS_Subset, FS_CardinalityType DEF N
<1>3. \A i \in 1 .. N : {order[i]} \in Key
  <2>1. Bijection(1 .. N, others) # {}
    BY Zenon, <1>2, FS_CardinalityType DEF ExistsBijection, N
  <2>2. order \in Bijection(1 .. N, others)
    BY Zenon, <2>1 DEF order
  <2>3. order \in [1 .. N -> others]
    BY Zenon, <2>2 DEF Bijection, Injection
  <2> QED BY Zenon, <1>2, <2>3 DEF Key
<1>4. Told(g)
  <2>1. PICK w : w = [loop |-> "tell", order |-> order, reg |-> reg, exit |-> exit]
    BY Zenon
  <2>2. \A x, i : Turn(w, x, i) = SendToCallback(x, {order[i]}, 0, reg, exit)
    BY <2>1 DEF Turn
  <2>3. PICK f : Turns(w, m, N, f)
    BY Zenon, <1>2, LoopDefined
  <2>4. Told(f)
    BY Zenon, <2>2, <2>3 DEF Turns, Told
  <2> QED BY Zenon, <2>4 DEF g
<1>5. g[0] = m /\ \A i \in 1 .. N : g[i] = SendToCallback(g[i - 1], {order[i]}, 0, reg, exit)
  <2>1. 0 \in 0 .. N /\ \A i \in 1 .. N : i \in 0 .. N /\ i # 0
    BY <1>2
  <2> QED BY Zenon, <1>4, <2>1 DEF Told
<1> DEFINE Bad == {i \in 0 .. N : ~ Kept(m, g[i])}
<1>6. Bad = {}
  <2> SUFFICES ASSUME Bad # {} PROVE FALSE
    BY Zenon
  <2>1. Bad \in SUBSET Nat
    BY <1>2
  <2>2. PICK k \in Bad : \A i \in Bad : k =< i
    <3> HIDE DEF Bad
    <3> QED BY Zenon, <2>1, Least
  <2>3. k # 0
    BY Zenon, <1>5, <2>2, QuietlyRefl, QuietlyKept
  <2>4. k \in 1 .. N /\ k - 1 \in 0 .. N /\ ~ (k =< k - 1)
    BY <1>2, <2>2, <2>3
  <2>5. Kept(m, g[k - 1])
    <3>1. k - 1 \notin Bad
      <4> HIDE DEF Bad
      <4> QED BY Zenon, <2>2, <2>4
    <3> QED BY Zenon, <2>4, <3>1
  <2>6. Kept(g[k - 1], g[k])
    <3>1. g[k - 1] \in States /\ Slack(g[k - 1]) /\ 0 \in 0 .. MaxLink
      BY <2>5, CenterAssumption DEF Kept
    <3>2. {order[k]} \in Key
      BY Zenon, <1>3, <2>4
    <3>3. Kept(g[k - 1], SendToCallback(g[k - 1], {order[k]}, 0, reg, exit))
      BY Zenon, <3>1, <3>2, SendToCallbackFacts
    <3> QED BY Zenon, <1>5, <2>4, <3>3
  <2> QED BY Zenon, <2>2, <2>5, <2>6, KeptTrans
<1>7. N \in 0 .. N
  BY <1>2
<1> QED BY Zenon, <1>1, <1>6, <1>7

\* SendRegToOthers and SendUnregToOthers do.
LEMMA SendRegFacts ==
  ASSUME NEW m \in States, Slack(m), NEW n \in Nodes
  PROVE  Kept(m, SendRegToOthers(m, n)) /\ Kept(m, SendUnregToOthers(m, n))
<1>1. {n} \in SUBSET Nodes /\ {} \in SUBSET Nodes
  BY Zenon
<1>2. Kept(m, m)
  BY Zenon, QuietlyRefl, QuietlyKept
<1> QED BY Zenon, <1>1, <1>2, ToOthersFacts DEF SendRegToOthers, SendUnregToOthers

-----------------------------------------------------------------------------
(* Registration. *)

\* The table with one entry replaced.
Enter(m, n, e) == [m EXCEPT !.table[n] = e]

Entered(m, x, n, e) ==
  /\ x \in States /\ x.shell = m.shell /\ x.link = m.link /\ x.notice = m.notice
  /\ x.table[n] = e /\ \A k \in Nodes : k # n => x.table[k] = m.table[k]

\* A change of one entry of the table.
LEMMA SetEntry ==
  ASSUME NEW m \in States, NEW n \in Nodes, NEW e \in Entry
  PROVE  Entered(m, Enter(m, n, e), n, e)
<1>0. PICK x : x = Enter(m, n, e)
  BY Zenon
<1>1. PICK t : t = [m.table EXCEPT ![n] = e]
  BY Zenon
<1>2. t \in Tables /\ \A k \in Nodes : t[k] = IF k = n THEN e ELSE m.table[k]
  BY Zenon, <1>1, StateFacts DEF Tables
<1>3. x = [m EXCEPT !.table = t]
  BY <1>0, <1>1 DEF States, Enter
<1>4. x \in States /\ x.shell = m.shell /\ x.link = m.link /\ x.notice = m.notice /\ x.table = t
  BY <1>2, <1>3 DEF States
<1> QED BY Zenon, <1>0, <1>2, <1>4 DEF Entered

\* The new id is above all that are in the table.
LEMMA NewIdFacts ==
  ASSUME NEW t \in Tables
  PROVE  GetNewNodeID(t) \in Nat /\ \A k \in Nodes : GetNewNodeID(t) > t[k].id
<1> DEFINE f == [k \in Nodes |-> t[k].id]
           ids == {t[k].id : k \in Nodes}
<1>1. \A k \in Nodes : t[k].id \in Nat
  BY Zenon DEF Tables, Entry
<1>2. f \in Surjection(Nodes, ids)
  BY Zenon DEF Surjection
<1>3. ids \in SUBSET Nat /\ ids # {}
  BY ZenonT(30), <1>1, CenterAssumption
<1>4. \A k \in Nodes : t[k].id \in ids
  BY Zenon
<1>5. GetNewNodeID(t) = Max(ids) + 1
  BY Zenon DEF GetNewNodeID
<1> HIDE DEF f, ids
<1>6. IsFiniteSet(ids)
  BY Zenon, <1>2, CenterAssumption, FS_Surjection
<1>7. Max(ids) \in Nat /\ \A y \in ids : Max(ids) >= y
  BY Zenon, <1>3, <1>6, MaxFacts
<1> QED BY <1>1, <1>4, <1>5, <1>7

\* x is m but for the entry of n, which is kept if there was one.
Added(m, x, n) ==
  /\ x \in States /\ x.shell = m.shell /\ x.link = m.link /\ Unique(x.table)
  /\ \A k \in Nodes : k # n => x.table[k] = m.table[k]
  /\ m.table[n].id > 0 => x.table[n] = m.table[n]

\* AddNodeInfo gives a node that has none an id no other node has.
LEMMA AddNodeInfoFacts ==
  ASSUME NEW m \in States, NEW n \in Nodes, Unique(m.table)
  PROVE  Added(m, AddNodeInfo(m, n), n)
<1>0. PICK x : x = AddNodeInfo(m, n)
  BY Zenon
<1>1. PICK v : v = GetNewNodeID(m.table)
  BY Zenon
<1>2. v \in Nat /\ \A k \in Nodes : v > m.table[k].id
  BY Zenon, <1>1, NewIdFacts, StateFacts DEF Tables
<1>3. PICK e : e = IF m.table[n].id > 0 THEN m.table[n] ELSE [NoNode EXCEPT !.id = v]
  BY Zenon
<1>4. e \in Entry
  <2>1. [NoNode EXCEPT !.id = v] \in Entry
    BY Zenon, <1>2 DEF NoNode, Entry
  <2> QED BY Zenon, <1>3, <2>1, StateFacts
<1>5. x = Enter(m, n, e)
  <2>1. x = [m EXCEPT !.table[n] = IF @.id > 0 THEN @ ELSE [NoNode EXCEPT !.id = v]]
    BY Zenon, <1>0, <1>1 DEF AddNodeInfo
  <2> QED BY <1>3, <2>1 DEF States, Enter
<1>6. /\ x \in States /\ x.shell = m.shell /\ x.link = m.link
      /\ x.table[n] = e /\ \A k \in Nodes : k # n => x.table[k] = m.table[k]
  <2>1. Entered(m, Enter(m, n, e), n, e)
    BY Zenon, <1>4, SetEntry
  <2> QED BY Zenon, <1>5, <2>1 DEF Entered
<1>7. m.table[n].id > 0 => e = m.table[n]
  BY Zenon, <1>3
<1>8. ~ (m.table[n].id > 0) => e.id = v
  BY <1>3 DEF NoNode
<1>9. Unique(x.table)
  <2> SUFFICES ASSUME NEW a \in Nodes, NEW b \in Nodes, x.table[a].id > 0, x.table[b].id > 0, a # b
               PROVE  x.table[a].id # x.table[b].id
    BY Zenon DEF Unique
  <2>1. \A k \in Nodes : m.table[k].id \in Nat /\ m.table[k].id # v
    BY <1>2, StateFacts DEF Entry
  <2>2. CASE m.table[n].id > 0
    <3>1. \A k \in Nodes : x.table[k] = m.table[k]
      BY Zenon, <1>6, <1>7, <2>2
    <3> QED BY Zenon, <3>1 DEF Unique
  <2>3. CASE ~ (m.table[n].id > 0)
    BY Zenon, <1>6, <1>8, <2>1, <2>3 DEF Unique
  <2> QED BY Zenon, <2>2, <2>3
<1> QED BY Zenon, <1>0, <1>6, <1>7, <1>9 DEF Added

\* A handler of a message of connection c: whatever connections there are stay, but c may
\* learn its name, and nobody but the node n of c may come into the table.
Handled(m, x, c, n) ==
  /\ x \in States /\ Slack(x) /\ Unique(x.table)
  /\ \A k \in Nodes : k # n \/ m.table[k].id > 0 => x.table[k] = m.table[k]
  /\ \A d \in Links : m.link[d].at # "none" =>
       /\ x.link[d].node = m.link[d].node /\ x.link[d].at = m.link[d].at
       /\ m.link[d].ident => x.link[d].ident
       /\ d # c => x.link[d].ident = m.link[d].ident
       /\ d # c => Len(x.link[d].toC) = Len(m.link[d].toC)

\* A notice is within what the handling of a message may do.
LEMMA KeptHandled ==
  ASSUME NEW m, NEW x, NEW c, NEW n, Kept(m, x), Unique(m.table)
  PROVE  Handled(m, x, c, n)
BY Zenon DEF Kept, Handled, SameLink

\* One message after another.
LEMMA HandledTrans ==
  ASSUME NEW m, NEW x, NEW y, NEW c, NEW n, Handled(m, x, c, n), Handled(x, y, c, n)
  PROVE  Handled(m, y, c, n)
<1>1. ASSUME NEW k \in Nodes, k # n \/ m.table[k].id > 0
      PROVE  y.table[k] = m.table[k]
  BY Zenon, <1>1 DEF Handled
<1>2. ASSUME NEW d \in Links, m.link[d].at # "none"
      PROVE  /\ y.link[d].node = m.link[d].node /\ y.link[d].at = m.link[d].at
             /\ m.link[d].ident => y.link[d].ident
             /\ d # c => y.link[d].ident = m.link[d].ident
             /\ d # c => Len(y.link[d].toC) = Len(m.link[d].toC)
  <2>1. /\ x.link[d].node = m.link[d].node /\ x.link[d].at = m.link[d].at
        /\ m.link[d].ident => x.link[d].ident
        /\ d # c => x.link[d].ident = m.link[d].ident
        /\ d # c => Len(x.link[d].toC) = Len(m.link[d].toC)
    BY Zenon, <1>2 DEF Handled
  <2>2. /\ y.link[d].node = x.link[d].node /\ y.link[d].at = x.link[d].at
        /\ x.link[d].ident => y.link[d].ident
        /\ d # c => y.link[d].ident = x.link[d].ident
        /\ d # c => Len(y.link[d].toC) = Len(x.link[d].toC)
    BY Zenon, <1>2, <2>1 DEF Handled
  <2> QED BY Zenon, <2>1, <2>2
<1> QED BY Zenon, <1>1, <1>2 DEF Handled

\* A node registers over connection c.
LEMMA RegNodeRouteFacts ==
  ASSUME NEW m \in States, Slack(m), Unique(m.table), NEW c \in Links, m.link[c].at # "none",
         NEW n \in Nodes
  PROVE  /\ Handled(m, RegNodeRoute(m, n, c), c, n)
         /\ Len(RegNodeRoute(m, n, c).link[c].toC) = Len(m.link[c].toC)
<1>1. PICK r : r = AddNodeInfo(m, n)
  BY Zenon
<1>2. Added(m, r, n)
  BY Zenon, <1>1, AddNodeInfoFacts
<1>3. r \in States /\ Slack(r) /\ Unique(r.table)
  BY Zenon, <1>2 DEF Added, Slack
<1>4. Handled(m, r, c, n) /\ r.link = m.link
  BY Zenon, <1>2, <1>3 DEF Added, Handled
<1>5. PICK s : s = GetNeededNodesStatus(r.table, n)
  BY Zenon
<1>6. s \in SUBSET Nodes /\ {} \in SUBSET Nodes /\ {} \in Key
  BY Zenon, <1>5 DEF GetNeededNodesStatus, Registered, Key
<1>7. c \in 0 .. MaxLink
  BY CenterAssumption DEF Links
<1>8. PICK x : x = SendToCallback(r, {}, c, s, {})
  BY Zenon
<1>9. Kept(r, x)
  BY Zenon, <1>3, <1>6, <1>7, <1>8, SendToCallbackFacts
<1>10. PICK y : y = SendRegToOthers(x, n)
  BY Zenon
<1>11. Kept(x, y)
  <2>1. x \in States /\ Slack(x)
    BY Zenon, <1>9 DEF Kept
  <2> QED BY Zenon, <1>10, <2>1, SendRegFacts
<1>12. Kept(r, y)
  BY Zenon, <1>9, <1>11, KeptTrans
<1>13. Handled(r, y, c, n) /\ Len(y.link[c].toC) = Len(r.link[c].toC)
  <2>1. Handled(r, y, c, n)
    BY Zenon, <1>3, <1>12, KeptHandled
  <2>2. SameLink(r.link[c], y.link[c])
    BY Zenon, <1>4, <1>12 DEF Kept
  <2> QED BY Zenon, <2>1, <2>2 DEF SameLink
<1>14. Handled(m, y, c, n)
  BY Zenon, <1>4, <1>13, HandledTrans
<1>15. RegNodeRoute(m, n, c) = y
  BY Zenon, <1>1, <1>5, <1>8, <1>10 DEF RegNodeRoute
<1> QED BY Zenon, <1>4, <1>13, <1>14, <1>15

\* A node leaves the table.
LEMMA DelNodeFacts ==
  ASSUME NEW m \in States, Slack(m), Unique(m.table), NEW n \in Nodes, NEW x, x = DelNode(m, n)
  PROVE  /\ x \in States /\ Unique(x.table) /\ ~ (x.table[n].id > 0)
         /\ \A k \in Nodes : k # n => x.table[k] = m.table[k]
         /\ \A d \in Links : m.link[d].at # "none" => SameLink(m.link[d], x.link[d])
<1>1. m.table[n].id \in Nat
  BY Zenon, StateFacts DEF Entry
<1>2. CASE m.table[n].id = 0
  <2>1. x = m
    BY Zenon, <1>2 DEF DelNode
  <2>2. ~ (x.table[n].id > 0)
    BY <1>2, <2>1
  <2> QED BY Zenon, <2>1, <2>2 DEF SameLink
<1>3. CASE m.table[n].id # 0
  <2>1. NoNode \in Entry /\ ~ (NoNode.id > 0)
    BY DEF NoNode, Entry
  <2>2. PICK y : y = Enter(m, n, NoNode)
    BY Zenon
  <2>3. Entered(m, y, n, NoNode)
    BY Zenon, <2>1, <2>2, SetEntry
  <2>4. y \in States /\ Slack(y) /\ y.link = m.link
    BY Zenon, <2>3 DEF Entered, Slack
  <2>5. x = SendUnregToOthers(y, n)
    BY Zenon, <1>3, <2>2 DEF DelNode, Enter
  <2>6. Kept(y, x)
    BY Zenon, <2>4, <2>5, SendRegFacts
  <2>7. x \in States /\ x.table = y.table
    BY Zenon, <2>6 DEF Kept
  <2>8. ~ (x.table[n].id > 0) /\ \A k \in Nodes : k # n => x.table[k] = m.table[k]
    BY Zenon, <2>1, <2>3, <2>7 DEF Entered
  <2>9. Unique(x.table)
    BY Zenon, <2>8 DEF Unique
  <2> QED BY Zenon, <2>4, <2>6, <2>7, <2>8, <2>9 DEF Kept
<1> QED BY Zenon, <1>2, <1>3

\* A connection replaced.
Relink(m, c, v) == [m EXCEPT !.link[c] = v]
Relinked(m, x, c, v) ==
  /\ x \in States /\ x.shell = m.shell /\ x.table = m.table /\ x.notice = m.notice
  /\ x.link[c] = v /\ \A d \in Links : d # c => x.link[d] = m.link[d]

\* A change of one connection.
LEMMA RelinkFacts ==
  ASSUME NEW m \in States, NEW c \in Links, NEW v \in Link
  PROVE  Relinked(m, Relink(m, c, v), c, v)
<1>0. PICK x : x = Relink(m, c, v)
  BY Zenon
<1>1. PICK l : l = [m.link EXCEPT ![c] = v]
  BY Zenon
<1>2. l \in [Links -> Link] /\ l[c] = v /\ \A d \in Links : d # c => l[d] = m.link[d]
  BY Zenon, <1>1, StateFacts
<1>3. x = [m EXCEPT !.link = l]
  BY <1>0, <1>1 DEF States, Relink
<1>4. /\ x \in States /\ x.shell = m.shell /\ x.table = m.table /\ x.notice = m.notice /\ x.link = l
  BY <1>2, <1>3 DEF States
<1> QED BY Zenon, <1>0, <1>2, <1>4 DEF Relinked

\* One message is taken from connection c and handled.
LEMMA DisposeFacts ==
  ASSUME NEW m \in States, Slack(m), Unique(m.table), NEW c \in Links, m.link[c].at # "none",
         Len(m.link[c].toC) > 0
  PROVE  /\ Handled(m, Dispose(m, c), c, m.link[c].node)
         /\ Len(Dispose(m, c).link[c].toC) = Len(m.link[c].toC) - 1
<1>1. PICK u, q, n : u = m.link[c] /\ q = u.toC /\ n = u.node
  BY Zenon
<1>2. u \in Link /\ q \in Seq(Message) /\ q \in Inbound /\ n \in Nodes /\ Len(q) > 0
  BY Zenon, <1>1, StateFacts, LinkFacts
<1>3. /\ Tail(q) \in Inbound /\ Len(Tail(q)) = Len(q) - 1
      /\ Head(q).cmd \in ToCenter /\ Head(q).seq \in Nat
  <2>1. Head(q) = q[1] /\ 1 \in 1 .. Len(q) /\ q[1] \in Message
    BY <1>2
  <2>2. Tail(q) \in Seq(Message) /\ Len(Tail(q)) = Len(q) - 1
    BY <1>2
  <2>3. \A i \in 1 .. Len(Tail(q)) : Tail(q)[i] = q[i + 1] /\ i + 1 \in 1 .. Len(q)
    BY <1>2
  <2>4. \A i \in 1 .. Len(q) : q[i].cmd \in ToCenter
    BY Zenon, <1>2 DEF Inbound
  <2>5. Tail(q) \in Inbound
    BY Zenon, <2>2, <2>3, <2>4 DEF Inbound
  <2>6. q[1].seq \in Nat
    BY Zenon, <2>1 DEF Message
  <2> QED BY Zenon, <2>1, <2>2, <2>4, <2>5, <2>6
<1>4. PICK v : v = [u EXCEPT !.toC = Tail(q)]
  BY Zenon
<1>5. /\ v \in Link /\ v.node = u.node /\ v.mine = u.mine /\ v.at = u.at /\ v.ident = u.ident
      /\ v.toC = Tail(q)
  BY Zenon, <1>2, <1>3, <1>4 DEF Link
<1>6. PICK d, msg : d = Relink(m, c, v) /\ msg = Head(q)
  BY Zenon
<1>7. Relinked(m, d, c, v)
  BY Zenon, <1>5, <1>6, RelinkFacts
<1>8. FreeLinks(d.link) = FreeLinks(m.link)
  BY Zenon, <1>1, <1>5, <1>7 DEF FreeLinks, Relinked
<1>9. /\ d \in States /\ Slack(d) /\ Unique(d.table) /\ d.link[c].at # "none"
      /\ Len(d.link[c].toC) = Len(q) - 1
  BY Zenon, <1>1, <1>3, <1>5, <1>7, <1>8 DEF Relinked, Slack
<1>10. Handled(m, d, c, n)
  BY Zenon, <1>1, <1>5, <1>7, <1>9 DEF Relinked, Handled
<1>11. d = [m EXCEPT !.link[c].toC = Tail(@)]
  BY <1>1, <1>4, <1>6 DEF States, Relink
<1>12. Dispose(m, c) = CASE msg.cmd = "tell"     -> [d EXCEPT !.shell[n] = c, !.link[c].ident = TRUE]
                         [] msg.cmd = "register" -> RegNodeRoute(d, n, c)
                         [] msg.cmd = "report"   -> UpdateNode(d, n, c)
                         [] msg.cmd = "ok"       -> DeleteCallback(d, msg.seq)
  <2>1. d.link[c].node = n
    BY Zenon, <1>1, <1>5, <1>7 DEF Relinked
  <2>2. Dispose(m, c) = CASE msg.cmd = "tell"     -> CmdToldWorker(d, c)
                          [] msg.cmd = "register" -> CmdNodeRegister(d, c)
                          [] msg.cmd = "report"   -> CmdNodeReport(d, c)
                          [] msg.cmd = "ok"       -> Callback(d, msg.seq)
    BY Zenon, <1>1, <1>6, <1>11 DEF Dispose
  <2>3. /\ CmdToldWorker(d, c) = [d EXCEPT !.shell[n] = c, !.link[c].ident = TRUE]
        /\ CmdNodeRegister(d, c) = RegNodeRoute(d, n, c)
        /\ CmdNodeReport(d, c) = UpdateNode(d, n, c)
        /\ Callback(d, msg.seq) = DeleteCallback(d, msg.seq)
    BY Zenon, <2>1 DEF CmdToldWorker, CmdNodeRegister, CmdNodeReport, Callback
  <2> QED BY Zenon, <2>2, <2>3
<1>13. SUFFICES ASSUME NEW y, y = Dispose(m, c)
                PROVE  Handled(d, y, c, n) /\ Len(y.link[c].toC) = Len(d.link[c].toC)
  BY Zenon, <1>1, <1>9, <1>10, HandledTrans
<1>14. ASSUME y = RegNodeRoute(d, n, c)
       PROVE  Handled(d, y, c, n) /\ Len(y.link[c].toC) = Len(d.link[c].toC)
  BY Zenon, <1>2, <1>9, <1>14, RegNodeRouteFacts
<1>15. ASSUME NEW i \in Nat, y = DeleteCallback(d, i)
       PROVE  Handled(d, y, c, n) /\ Len(y.link[c].toC) = Len(d.link[c].toC)
  <2>1. Quietly(d, y)
    BY Zenon, <1>9, <1>15, DeleteCallbackFacts
  <2>2. Kept(d, y)
    BY Zenon, <1>9, <2>1, QuietlyKept
  <2>3. Handled(d, y, c, n)
    BY Zenon, <1>9, <2>2, KeptHandled
  <2> QED BY Zenon, <2>1, <2>3 DEF Quietly, SameLink
<1>16. CASE msg.cmd = "tell"
  <2>1. PICK e, s, l : /\ e = [v EXCEPT !.ident = TRUE] /\ s = [d.shell EXCEPT ![n] = c]
                       /\ l = [d.link EXCEPT ![c] = e]
    BY Zenon
  <2>2. /\ e \in Link /\ e.node = v.node /\ e.mine = v.mine /\ e.at = v.at /\ e.ident = TRUE
        /\ e.toC = v.toC
    BY Zenon, <1>5, <2>1 DEF Link
  <2>3. l \in [Links -> Link] /\ l[c] = e /\ \A k \in Links : k # c => l[k] = d.link[k]
    BY Zenon, <1>9, <2>1, <2>2, StateFacts
  <2>4. c \in 0 .. MaxLink /\ c # 0
    BY CenterAssumption DEF Links
  <2>5. s \in Shells /\ s[n] = c /\ \A k \in Nodes : k # n => s[k] = d.shell[k]
    BY Zenon, <1>2, <1>9, <2>1, <2>4, StateFacts DEF Shells
  <2>6. y = [d EXCEPT !.shell = s, !.link = l]
    <3>1. y = [d EXCEPT !.shell[n] = c, !.link[c].ident = TRUE]
      BY <1>12, <1>13, <1>16
    <3>2. d.link[c] = v
      BY Zenon, <1>7 DEF Relinked
    <3> QED BY Zenon, <1>9, <2>1, <3>1, <3>2 DEF States
  <2>7. y \in States /\ y.table = d.table /\ y.shell = s /\ y.link = l
    BY Zenon, <1>9, <2>3, <2>5, <2>6 DEF States
  <2>8. d.link[c] = v
    BY Zenon, <1>7 DEF Relinked
  <2>9. FreeLinks(l) = FreeLinks(d.link)
    BY Zenon, <2>2, <2>3, <2>8 DEF FreeLinks
  <2>10. Slack(y)
    <3>1. Unreached(s) \in SUBSET Unreached(d.shell)
      BY Zenon, <2>4, <2>5 DEF Unreached
    <3>2. Cardinality(Unreached(s)) =< Cardinality(Unreached(d.shell))
      BY Zenon, <3>1, Counted, FS_Subset
    <3> QED BY <1>9, <2>7, <2>9, <3>2, Counted DEF Slack
  <2>11. Handled(d, y, c, n)
    BY Zenon, <1>9, <2>2, <2>3, <2>7, <2>8, <2>10 DEF Handled
  <2> QED BY Zenon, <2>2, <2>3, <2>7, <2>8, <2>11
<1>17. CASE msg.cmd = "register"
  BY <1>12, <1>13, <1>14, <1>17
<1>18. CASE msg.cmd = "report"
  <2>1. y = UpdateNode(d, n, c)
    BY <1>12, <1>13, <1>18
  <2>2. CASE y = d
    <3>1. Kept(d, d)
      BY Zenon, <1>9, QuietlyRefl, QuietlyKept
    <3> QED BY Zenon, <1>9, <2>2, <3>1, KeptHandled
  <2> QED BY Zenon, <1>14, <2>1, <2>2 DEF UpdateNode
<1>19. CASE msg.cmd = "ok"
  <2>1. y = DeleteCallback(d, msg.seq)
    BY <1>12, <1>13, <1>19
  <2> QED BY Zenon, <1>3, <1>6, <1>15, <2>1
<1> QED BY Zenon, <1>3, <1>6, <1>16, <1>17, <1>18, <1>19 DEF ToCenter

\* All the messages that came over connection c.
LEMMA ReadFacts ==
  ASSUME NEW m \in States, Slack(m), Unique(m.table), NEW c \in Links, m.link[c].at # "none"
  PROVE  Handled(m, RecvDataAndDispose(m, c), c, m.link[c].node)
<1> DEFINE N == Len(m.link[c].toC)
           Been(f) == f = [i \in 0 .. N |-> IF i = 0 THEN m ELSE Dispose(f[i - 1], c)]
           g == CHOOSE f : Been(f)
<1>1. RecvDataAndDispose(m, c) = g[N]
  BY Zenon DEF RecvDataAndDispose
<1>2. N \in Nat
  BY StateFacts, LinkFacts
<1>a. N = Len(m.link[c].toC)
  BY Zenon
<1> HIDE DEF g, Been, N
<1>3. Been(g)
  <2>1. PICK w : w = [loop |-> "read", c |-> c]
    BY Zenon
  <2>2. \A x, i : Turn(w, x, i) = Dispose(x, c)
    BY <2>1 DEF Turn
  <2>3. PICK f : Turns(w, m, N, f)
    BY Zenon, <1>2, LoopDefined
  <2>4. Been(f)
    BY Zenon, <2>2, <2>3 DEF Turns, Been
  <2> QED BY Zenon, <2>4 DEF g
<1>4. g[0] = m /\ \A i \in 1 .. N : g[i] = Dispose(g[i - 1], c)
  <2>1. 0 \in 0 .. N /\ \A i \in 1 .. N : i \in 0 .. N /\ i # 0
    BY <1>2
  <2> QED BY Zenon, <1>3, <2>1 DEF Been
<1>5. PICK n : n = m.link[c].node
  BY Zenon
<1> DEFINE Good(i) == Handled(m, g[i], c, n) /\ Len(g[i].link[c].toC) = N - i
           Bad == {i \in 0 .. N : ~ Good(i)}
<1>6. Bad = {}
  <2> SUFFICES ASSUME Bad # {} PROVE FALSE
    BY Zenon
  <2>1. Bad \in SUBSET Nat
    BY <1>2
  <2>2. PICK k \in Bad : \A i \in Bad : k =< i
    <3> HIDE DEF Bad
    <3> QED BY Zenon, <2>1, Least
  <2>3. k # 0
    <3>1. Kept(m, m)
      BY Zenon, QuietlyRefl, QuietlyKept
    <3>2. Handled(m, m, c, n)
      BY Zenon, <3>1, KeptHandled
    <3>3. Len(m.link[c].toC) = N - 0
      BY <1>2, <1>a
    <3> QED BY Zenon, <1>4, <2>2, <3>2, <3>3
  <2>4. k \in 1 .. N /\ k - 1 \in 0 .. N /\ ~ (k =< k - 1)
    BY <1>2, <2>2, <2>3
  <2>5. Good(k - 1)
    <3>1. k - 1 \notin Bad
      <4> HIDE DEF Bad
      <4> QED BY Zenon, <2>2, <2>4
    <3> QED BY Zenon, <2>4, <3>1
  <2>6. PICK x, y : x = g[k - 1] /\ y = g[k]
    BY Zenon
  <2>7. Handled(m, x, c, n) /\ Len(x.link[c].toC) = N - (k - 1) /\ y = Dispose(x, c)
    BY Zenon, <1>4, <2>4, <2>5, <2>6
  <2>8. Len(x.link[c].toC) > 0 /\ (N - (k - 1)) - 1 = N - k
    BY <1>2, <2>4, <2>7
  <2>9. x \in States /\ Slack(x) /\ Unique(x.table) /\ x.link[c].at # "none" /\ x.link[c].node = n
    <3>1. x.link[c].node = m.link[c].node /\ x.link[c].at = m.link[c].at
      BY Zenon, <2>7 DEF Handled
    <3> QED BY Zenon, <1>5, <2>7, <3>1 DEF Handled
  <2>10. Handled(x, y, c, n) /\ Len(y.link[c].toC) = (N - (k - 1)) - 1
    BY Zenon, <2>7, <2>8, <2>9, DisposeFacts
  <2>11. Handled(m, y, c, n)
    BY Zenon, <2>7, <2>10, HandledTrans
  <2> QED BY Zenon, <2>2, <2>6, <2>8, <2>10, <2>11
<1>7. N \in 0 .. N
  BY <1>2
<1> QED BY Zenon, <1>1, <1>5, <1>6, <1>7

-----------------------------------------------------------------------------
(* The end of a connection. *)

\* Swept frees connections that both sides have closed, and only those.
LEMMA SweptFacts ==
  ASSUME NEW l \in [Links -> Link]
  PROVE  /\ Swept(l) \in [Links -> Link] /\ FreeLinks(l) \subseteq FreeLinks(Swept(l))
         /\ \A d \in Links : l[d].at # "closed" => Swept(l)[d] = l[d]
         /\ \A d \in Links : Swept(l)[d] = Free \/ Swept(l)[d] = l[d]
<1>1. \A d \in Links : Swept(l)[d] = IF ~ l[d].mine /\ l[d].at = "closed" THEN Free ELSE l[d]
  BY Zenon DEF Swept
<1>2. Swept(l) \in [Links -> Link]
  BY Zenon, FreeFacts DEF Swept
<1>3. \A d \in Links : l[d].at # "closed" => Swept(l)[d] = l[d]
  BY Zenon, <1>1
<1>4. FreeLinks(l) \subseteq FreeLinks(Swept(l))
  <2> SUFFICES ASSUME NEW d \in Links, l[d].at = "none", ~ l[d].mine
               PROVE  d \in FreeLinks(Swept(l))
    BY Zenon DEF FreeLinks
  <2>1. Swept(l)[d] = l[d]
    BY <1>3
  <2> QED BY Zenon, <2>1 DEF FreeLinks
<1>5. \A d \in Links : Swept(l)[d] = Free \/ Swept(l)[d] = l[d]
  BY Zenon, <1>1
<1> QED BY Zenon, <1>2, <1>3, <1>4, <1>5

\* Connection c is closed: nothing but c, and what refers to it, changes.
LEMMA ClosedFacts ==
  ASSUME NEW m \in States, NEW c \in Links, m.link[c].at # "none",
         Cardinality(FreeLinks(m.link)) > Cardinality(Nodes)
  PROVE  /\ Closed(m, c) \in States /\ Slack(Closed(m, c)) /\ Closed(m, c).table = m.table
         /\ \A d \in Links : d # c /\ m.link[d].at = "worker" => Closed(m, c).link[d] = m.link[d]
<1>1. PICK u, n : u = m.link[c] /\ n = u.node
  BY Zenon
<1>2. u \in Link /\ n \in Nodes
  BY Zenon, <1>1, StateFacts, LinkFacts
<1>3. PICK v : v = [u EXCEPT !.at = "closed"]
  BY Zenon
<1>4. v \in Link /\ v.at = "closed"
  BY <1>2, <1>3 DEF Link
<1>5. PICK k, l : k = [m.link EXCEPT ![c] = v] /\ l = Swept(k)
  BY Zenon
<1>6. k \in [Links -> Link] /\ k[c] = v /\ \A d \in Links : d # c => k[d] = m.link[d]
  BY Zenon, <1>4, <1>5, StateFacts
<1>7. /\ l \in [Links -> Link] /\ FreeLinks(k) \subseteq FreeLinks(l)
      /\ \A d \in Links : k[d].at # "closed" => l[d] = k[d]
  BY Zenon, <1>5, <1>6, SweptFacts
<1>8. PICK s : s = [m.shell EXCEPT ![n] = IF @ = c THEN 0 ELSE @]
  BY Zenon
<1>9. s \in Shells
  <2>1. 0 \in 0 .. MaxLink
    BY CenterAssumption
  <2> QED BY <1>2, <1>8, <2>1, StateFacts DEF Shells
<1> DEFINE R(i) == IF m.notice[i].to = c THEN [m.notice[i] EXCEPT !.to = 0] ELSE m.notice[i]
<1>10. PICK q : q = [i \in DOMAIN m.notice |-> R(i)]
  BY Zenon
<1>11. q \in Seq(StepNode)
  <2>1. m.notice \in Seq(StepNode) /\ DOMAIN m.notice = 1 .. Len(m.notice) /\ Len(m.notice) \in Nat
    BY StateFacts
  <2>2. ASSUME NEW i \in 1 .. Len(m.notice) PROVE R(i) \in StepNode
    <3>1. m.notice[i] \in StepNode
      BY <2>1
    <3>2. 0 \in 0 .. MaxLink
      BY CenterAssumption
    <3>3. ASSUME NEW z \in StepNode PROVE [z EXCEPT !.to = 0] \in StepNode
      BY <3>2 DEF StepNode
    <3> QED BY Zenon, <3>1, <3>3
  <2> HIDE DEF R
  <2> QED BY <1>10, <2>1, <2>2
<1>12. PICK x : x = Closed(m, c)
  BY Zenon
<1>13. x = [m EXCEPT !.shell = s, !.link = l, !.notice = q]
  <2>1. k = [m.link EXCEPT ![c].at = "closed"]
    BY <1>1, <1>3, <1>5
  <2>2. x = [m EXCEPT !.shell[n] = IF @ = c THEN 0 ELSE @, !.link = l, !.notice = q]
    BY Zenon, <1>1, <1>5, <1>10, <1>12, <2>1 DEF Closed
  <2> QED BY <1>8, <2>2 DEF States
<1>14. x \in States /\ x.table = m.table /\ x.shell = s /\ x.link = l
  BY Zenon, <1>7, <1>9, <1>11, <1>13 DEF States
<1>15. FreeLinks(m.link) \in SUBSET FreeLinks(l)
  <2>1. FreeLinks(m.link) \subseteq FreeLinks(k)
    BY Zenon, <1>6 DEF FreeLinks
  <2> QED BY Zenon, <1>7, <2>1
<1>16. Slack(x)
  <2>1. Cardinality(FreeLinks(m.link)) =< Cardinality(FreeLinks(l))
    BY Zenon, <1>15, Counted, FS_Subset
  <2> QED BY <1>14, <2>1, Counted DEF Slack
<1>17. ASSUME NEW d \in Links, d # c, m.link[d].at = "worker" PROVE x.link[d] = m.link[d]
  <2>1. k[d] = m.link[d] /\ k[d].at # "closed"
    BY <1>6, <1>17
  <2> QED BY Zenon, <1>7, <1>14, <2>1
<1> QED BY Zenon, <1>12, <1>14, <1>16, <1>17

-----------------------------------------------------------------------------
(* The invariant. *)

\* RegisteredIsConnected of the table t, the connections l and the exceptions e.
Connected(t, l, e) ==
  \A n \in Nodes : t[n].id > 0 => n \in e \/ \E c \in Links : Serves(l[c], n)

OK(m, e) == m \in States /\ Unique(m.table) /\ Connected(m.table, m.link, e)

\* The ids differ, every registered node is connected, and a Manager's connection is one.
CenterInv == OK(State, early) /\ conn \in [Nodes -> 0 .. MaxLink]

\* A change of the connections under which no end that will remove a node is lost.
Lasting(l, k) == \A d \in Links : \A n \in Nodes : Serves(l[d], n) => Serves(k[d], n)

\* The record of the Center's tables.
LEMMA StateFields ==
  /\ State.table = table /\ State.shell = shell /\ State.link = link /\ State.notice = notice
  /\ State'.table = table' /\ State'.shell = shell' /\ State'.link = link' /\ State'.notice = notice'
BY DEF State

\* A handler's record becomes the state.
LEMMA BecomeFacts ==
  ASSUME NEW m \in States, Become(m)
  PROVE  State' = m
<1>1. m = [table |-> m.table, shell |-> m.shell, link |-> m.link, notice |-> m.notice]
  BY DEF States
<1> QED BY Zenon, <1>1 DEF Become, State

\* The invariant outlives a change that registers nobody and keeps the connections that serve
\* a node.
LEMMA LastingOK ==
  ASSUME NEW m, NEW x \in States, NEW e, OK(m, e), Lasting(m.link, x.link),
         \A n \in Nodes : x.table[n].id > 0 => m.table[n].id > 0, Unique(x.table)
  PROVE  OK(x, e)
<1>1. ASSUME NEW n \in Nodes, x.table[n].id > 0, n \notin e
      PROVE  \E c \in Links : Serves(x.link[c], n)
  <2>1. PICK c \in Links : Serves(m.link[c], n)
    BY Zenon, <1>1 DEF OK, Connected
  <2> QED BY Zenon, <2>1 DEF Lasting
<1> QED BY Zenon, <1>1 DEF OK, Connected

\* What a notice leaves alone includes the connections that serve a node.
LEMMA KeptLasting ==
  ASSUME NEW m, NEW x, \A d \in Links : m.link[d].at # "none" => SameLink(m.link[d], x.link[d])
  PROVE  Lasting(m.link, x.link)
<1>1. ASSUME NEW d \in Links, NEW n \in Nodes, Serves(m.link[d], n)
      PROVE  Serves(x.link[d], n)
  <2>1. m.link[d].at # "none"
    BY <1>1 DEF Serves
  <2> QED BY Zenon, <1>1, <2>1 DEF Serves, SameLink
<1> QED BY Zenon, <1>1 DEF Lasting

\* Notices keep the invariant.
LEMMA KeptOK ==
  ASSUME NEW m, NEW x, NEW e, OK(m, e), Kept(m, x)
  PROVE  OK(x, e)
<1>1. Lasting(m.link, x.link)
  BY Zenon, KeptLasting DEF Kept
<1>2. x \in States /\ x.table = m.table /\ Unique(x.table)
  BY Zenon DEF Kept, OK
<1> QED BY Zenon, <1>1, <1>2, LastingOK

\* Room for every node is room for those that have no connection.
LEMMA RoomFacts ==
  ASSUME Room
  PROVE  Slack(State) /\ Cardinality(FreeLinks(State.link)) > Cardinality(Nodes)
<1>1. Cardinality(FreeLinks(State.link)) > Cardinality(Nodes)
  BY Zenon, StateFields DEF Room
<1>2. Cardinality(Unreached(State.shell)) =< Cardinality(Nodes)
  BY Zenon, Counted
<1> QED BY <1>1, <1>2, Counted DEF Slack

\* A step that changes connections only.
LEMMA LinkStep ==
  ASSUME CenterInv, link' \in [Links -> Link], Lasting(link, link'), UNCHANGED <<centerVars, early>>
  PROVE  OK(State', early')
<1>1. PICK m, x : m = State /\ x = State'
  BY Zenon
<1>2. /\ m.table = table /\ m.link = link /\ m.shell = shell /\ m.notice = notice
      /\ x.table = table /\ x.link = link' /\ x.shell = shell /\ x.notice = notice
  BY Zenon, <1>1, StateFields DEF centerVars
<1>3. x \in States
  <2>1. table \in Tables /\ shell \in Shells /\ notice \in Seq(StepNode)
    BY <1>1, <1>2 DEF CenterInv, OK, States
  <2>2. x = [table |-> table, shell |-> shell, link |-> link', notice |-> notice]
    BY Zenon, <1>1 DEF State, centerVars
  <2> QED BY <2>1, <2>2 DEF States
<1>4. OK(m, early) /\ Unique(x.table)
  BY Zenon, <1>1, <1>2 DEF CenterInv, OK
<1>5. Lasting(m.link, x.link)
  BY Zenon, <1>2
<1>6. OK(x, early)
  BY Zenon, <1>2, <1>3, <1>4, <1>5, LastingOK
<1> QED BY Zenon, <1>1, <1>6

\* A step that changes one connection, and forgets it when both ends are closed.
LEMMA OneLink ==
  ASSUME CenterInv, NEW c \in Links, NEW v \in Link, NEW l, l = [link EXCEPT ![c] = v],
         link' = l \/ link' = Swept(l), UNCHANGED <<centerVars, early>>,
         link[c].at = "worker" => v.node = link[c].node /\ v.at = "worker" /\ v.ident = link[c].ident
  PROVE  OK(State', early')
<1>1. link \in [Links -> Link]
  BY Zenon, StateFacts, StateFields DEF CenterInv, OK
<1>2. l \in [Links -> Link] /\ l[c] = v /\ \A d \in Links : d # c => l[d] = link[d]
  BY Zenon, <1>1
<1>3. Lasting(link, l)
  BY Zenon, <1>2 DEF Lasting, Serves
<1>4. Swept(l) \in [Links -> Link] /\ \A d \in Links : l[d].at # "closed" => Swept(l)[d] = l[d]
  BY Zenon, <1>2, SweptFacts
<1>5. Lasting(l, Swept(l))
  <2> SUFFICES ASSUME NEW d \in Links, NEW n \in Nodes, Serves(l[d], n) PROVE Serves(Swept(l)[d], n)
    BY Zenon DEF Lasting
  <2>1. l[d].at # "closed"
    BY DEF Serves
  <2> QED BY Zenon, <1>4, <2>1
<1>6. link' \in [Links -> Link] /\ Lasting(link, link')
  BY Zenon, <1>2, <1>3, <1>4, <1>5 DEF Lasting
<1> QED BY Zenon, <1>6, LinkStep

-----------------------------------------------------------------------------
(* The Center's steps. *)

\* The Center's Manager passes a connection on to the Worker.
LEMMA TransferOK ==
  ASSUME CenterInv, NEW c \in Links, DisposeDataAndTransferFd(c)
  PROVE  CenterInv'
<1>1. PICK u : u = link[c]
  BY Zenon
<1>2. link \in [Links -> Link] /\ u \in Link
  BY Zenon, <1>1, StateFacts, StateFields DEF CenterInv, OK
<1>3. PICK k \in 0 .. Len(u.toC) :
        link' = [link EXCEPT ![c].at = "worker",
                             ![c].toC = SubSeq(@, k + 1, Len(@)),
                             ![c].toN = IF link[c].mine THEN Append(@, Msg("connected")) ELSE @]
  BY Zenon, <1>1 DEF DisposeDataAndTransferFd
<1>4. PICK a, b : /\ a = SubSeq(u.toC, k + 1, Len(u.toC))
                  /\ b = IF u.mine THEN Append(u.toN, Msg("connected")) ELSE u.toN
  BY Zenon
<1>5. a \in Inbound
  <2>1. PICK q : q = u.toC
    BY Zenon
  <2>2. q \in Seq(Message) /\ k \in 0 .. Len(q) /\ Len(q) \in Nat
    BY <1>2, <2>1, LinkFacts
  <2>3. \A i \in 1 .. Len(q) : q[i].cmd \in ToCenter
    BY Zenon, <1>2, <2>1, LinkFacts DEF Inbound
  <2>4. a = SubSeq(q, k + 1, Len(q))
    BY Zenon, <1>4, <2>1
  <2>5. a \in Seq(Message) /\ Len(a) = Len(q) - k
    BY <2>2, <2>4
  <2>6. \A i \in 1 .. Len(a) : a[i] = q[k + i] /\ k + i \in 1 .. Len(q)
    BY <2>2, <2>4, <2>5
  <2> QED BY Zenon, <2>3, <2>5, <2>6 DEF Inbound
<1>6. b \in Seq(Message)
  <2>1. Msg("connected") \in Message
    BY Zenon, MsgFacts DEF Cmd
  <2> QED BY <1>2, <1>4, <2>1, LinkFacts
<1>7. PICK v : v = [u EXCEPT !.at = "worker", !.toC = a, !.toN = b]
  BY Zenon
<1>8. v \in Link
  BY Zenon, <1>2, <1>5, <1>6, <1>7 DEF Link
<1>9. link' = [link EXCEPT ![c] = v]
  BY Zenon, <1>1, <1>2, <1>3, <1>4, <1>7 DEF Link
<1>10. link' \in [Links -> Link] /\ \A d \in Links : d # c => link'[d] = link[d]
  BY Zenon, <1>2, <1>8, <1>9
<1>11. link[c].at # "worker"
  BY DEF DisposeDataAndTransferFd
<1>12. Lasting(link, link')
  <2>1. \A d \in Links : link[d].at = "worker" => link'[d] = link[d]
    BY Zenon, <1>10, <1>11
  <2> QED BY Zenon, <2>1 DEF Lasting, Serves
<1> QED BY Zenon, <1>10, <1>12, LinkStep DEF CenterInv, DisposeDataAndTransferFd, nodeVars, centerVars, history

\* The Center disposes of what has come over a connection.
LEMMA CenterRecvOK ==
  ASSUME CenterInv, NEW c \in Links, CenterRecv(c)
  PROVE  CenterInv'
<1>1. PICK m, n : m = State /\ n = link[c].node
  BY Zenon
<1>2. PICK x : x = RecvDataAndDispose(m, c)
  BY Zenon
<1>3. m \in States /\ m.table = table /\ m.link = link /\ OK(m, early)
  BY Zenon, <1>1, StateFields DEF CenterInv, OK
<1>4. m.link[c].at # "none" /\ Slack(m) /\ Unique(m.table) /\ m.link[c].node = n /\ m.link[c].at = "worker"
  BY Zenon, <1>1, <1>3, RoomFacts DEF CenterRecv, OK
<1>5. Handled(m, x, c, n)
  BY Zenon, <1>2, <1>3, <1>4, ReadFacts
<1>6. /\ Become(x)
      /\ early' = IF x.table[n].id > 0 /\ table[n].id = 0 /\ ~ x.link[c].ident THEN early \cup {n} ELSE early
  BY Zenon, <1>1, <1>2 DEF CenterRecv
<1>7. x \in States /\ Unique(x.table)
  BY Zenon, <1>5 DEF Handled
<1>8. State' = x
  BY Zenon, <1>6, <1>7, BecomeFacts
<1>9. Connected(x.table, x.link, early')
  <2> SUFFICES ASSUME NEW k \in Nodes, x.table[k].id > 0, k \notin early'
               PROVE  \E d \in Links : Serves(x.link[d], k)
    BY Zenon DEF Connected
  <2>1. k \notin early
    BY Zenon, <1>6
  <2>2. CASE m.table[k].id > 0
    <3>1. PICK d \in Links : Serves(m.link[d], k)
      BY Zenon, <1>3, <2>1, <2>2 DEF OK, Connected
    <3>2. m.link[d].at # "none"
      BY <3>1 DEF Serves
    <3>3. Serves(x.link[d], k)
      BY Zenon, <1>5, <3>1, <3>2 DEF Serves, Handled
    <3> QED BY Zenon, <3>3
  <2>3. CASE ~ (m.table[k].id > 0)
    <3>1. k = n
      BY Zenon, <1>5, <2>3 DEF Handled
    <3>2. table[n].id = 0
      BY <1>3, <2>3, <3>1, StateFacts DEF Entry
    <3>3. x.link[c].ident
      BY Zenon, <1>6, <3>1, <3>2
    <3>4. x.link[c].node = n /\ x.link[c].at = "worker"
      BY Zenon, <1>4, <1>5 DEF Handled
    <3>5. Serves(x.link[c], k)
      BY Zenon, <3>1, <3>3, <3>4 DEF Serves
    <3> QED BY Zenon, <3>5
  <2> QED BY Zenon, <2>2, <2>3
<1>10. OK(State', early')
  BY Zenon, <1>7, <1>8, <1>9 DEF OK
<1> QED BY Zenon, <1>10 DEF CenterInv, CenterRecv, nodeVars

\* The Center sees the end of a connection, or gives it up.
LEMMA ClosesOK ==
  ASSUME CenterInv, NEW c \in Links, Closes(c), Room, link[c].at # "none"
  PROVE  CenterInv'
<1>1. PICK m, n, y : m = State /\ n = link[c].node /\ y = Closed(m, c)
  BY Zenon
<1>2. m \in States /\ m.table = table /\ m.link = link /\ OK(m, early) /\ Unique(m.table)
  BY Zenon, <1>1, StateFields DEF CenterInv, OK
<1>3. n \in Nodes
  BY Zenon, <1>1, <1>2, StateFacts, LinkFacts
<1>4. /\ y \in States /\ Slack(y) /\ y.table = m.table
      /\ \A d \in Links : d # c /\ m.link[d].at = "worker" => y.link[d] = m.link[d]
  BY Zenon, <1>1, <1>2, RoomFacts, ClosedFacts
<1>5. CASE ~ link[c].ident
  <2>1. Become(y) /\ early' = early
    BY Zenon, <1>1, <1>2, <1>5 DEF Closes, DestroyConnect
  <2>2. State' = y
    BY Zenon, <1>4, <2>1, BecomeFacts
  <2>3. Lasting(m.link, y.link)
    BY Zenon, <1>2, <1>4, <1>5 DEF Lasting, Serves
  <2>4. OK(y, early)
    BY Zenon, <1>2, <1>4, <2>3, LastingOK
  <2> QED BY Zenon, <2>1, <2>2, <2>4 DEF CenterInv, Closes, nodeVars
<1>6. CASE link[c].ident
  <2>1. PICK x : x = DelNode(y, n)
    BY Zenon
  <2>2. Become(x) /\ early' = early \ {n}
    BY Zenon, <1>1, <1>2, <1>6, <2>1 DEF Closes, DestroyConnect
  <2>3. /\ x \in States /\ Unique(x.table) /\ ~ (x.table[n].id > 0)
        /\ \A k \in Nodes : k # n => x.table[k] = y.table[k]
        /\ \A d \in Links : y.link[d].at # "none" => SameLink(y.link[d], x.link[d])
    BY ZenonT(30), <1>2, <1>3, <1>4, <2>1, DelNodeFacts
  <2>4. State' = x
    BY Zenon, <2>2, <2>3, BecomeFacts
  <2>5. Connected(x.table, x.link, early')
    <3> SUFFICES ASSUME NEW k \in Nodes, x.table[k].id > 0, k \notin early'
                 PROVE  \E d \in Links : Serves(x.link[d], k)
      BY Zenon DEF Connected
    <3>1. k # n
      BY Zenon, <2>3
    <3>2. m.table[k].id > 0 /\ k \notin early
      BY Zenon, <1>4, <2>2, <2>3, <3>1
    <3>3. PICK d \in Links : Serves(m.link[d], k)
      BY Zenon, <1>2, <3>2 DEF OK, Connected
    <3>4. d # c
      BY Zenon, <1>1, <1>2, <3>1, <3>3 DEF Serves
    <3>5. y.link[d] = m.link[d] /\ y.link[d].at # "none"
      BY <1>4, <3>3, <3>4 DEF Serves
    <3>6. Serves(x.link[d], k)
      BY Zenon, <2>3, <3>3, <3>5 DEF Serves, SameLink
    <3> QED BY Zenon, <3>6
  <2>6. OK(State', early')
    BY Zenon, <2>3, <2>4, <2>5 DEF OK
  <2> QED BY Zenon, <2>6 DEF CenterInv, Closes, nodeVars
<1> QED BY Zenon, <1>5, <1>6

\* A notice is sent again or given up.
LEMMA NoticeTimeoutOK ==
  ASSUME CenterInv, NoticeTimeout
  PROVE  CenterInv'
<1>1. PICK m, q : m = State /\ q = notice
  BY Zenon
<1>2. m \in States /\ OK(m, early) /\ Slack(m) /\ m.notice = q /\ q \in Seq(StepNode) /\ q # <<>>
  BY Zenon, <1>1, RoomFacts, StateFacts, StateFields DEF CenterInv, OK, NoticeTimeout
<1>3. PICK x, last : x = [Head(q) EXCEPT !.tries = @ + 1] /\ last = Len(q)
  BY Zenon
<1>4. last \in Nat /\ Tail(q) \in Seq(StepNode) /\ Head(q) \in StepNode
  BY <1>2, <1>3
<1>5. x \in StepNode
  <2>1. PICK h \in StepNode : h = Head(q)
    BY Zenon, <1>4
  <2>2. h.tries + 1 \in Nat
    BY DEF StepNode
  <2> QED BY <1>3, <2>1, <2>2 DEF StepNode
<1>6. PICK r, l : r = Append(Tail(q), x) /\ l = Move(m.link, 1, last)
  BY Zenon
<1>7. r \in Seq(StepNode)
  BY <1>4, <1>5, <1>6
<1>8. l \in [Links -> Link] /\ \A c \in Links : SameLink(m.link[c], l[c])
  <2>1. 1 \in Nat /\ m.link \in [Links -> Link]
    BY <1>2, StateFacts
  <2> QED BY Zenon, <1>4, <1>6, <2>1, MoveFacts
<1>9. PICK y : y = [m EXCEPT !.notice = r, !.link = l]
  BY Zenon
<1>10. y \in States /\ y.table = m.table /\ y.shell = m.shell /\ y.link = l
  BY Zenon, <1>2, <1>7, <1>8, <1>9 DEF States
<1>11. Kept(m, y) /\ Slack(y)
  <2>1. Quietly(m, y)
    BY Zenon, <1>8, <1>10 DEF Quietly
  <2> QED BY Zenon, <1>2, <2>1, QuietlyKept DEF Kept
<1>12. PICK e, z, w : e = Emit(y, x, last) /\ z = e.m /\ w = DeleteCallback(m, 1)
  BY Zenon
<1>13. Kept(m, z)
  <2>1. Kept(y, z)
    BY Zenon, <1>4, <1>5, <1>10, <1>11, <1>12, EmitFacts
  <2> QED BY Zenon, <1>11, <2>1, KeptTrans
<1>14. Kept(m, w)
  <2>1. 1 \in Nat
    OBVIOUS
  <2>2. Quietly(m, w)
    BY Zenon, <1>2, <1>12, <2>1, DeleteCallbackFacts
  <2> QED BY Zenon, <1>2, <2>2, QuietlyKept
<1>15. Become(z) \/ Become(w)
  <2>1. y = [State EXCEPT !.notice = Append(Tail(@), x), !.link = Move(@, 1, last)]
    BY <1>1, <1>2, <1>6, <1>9, StateFields
  <2> QED BY Zenon, <1>1, <1>3, <1>12, <2>1 DEF NoticeTimeout
<1>16. PICK s : Kept(m, s) /\ Become(s)
  BY Zenon, <1>13, <1>14, <1>15
<1>17. State' = s
  BY Zenon, <1>16, BecomeFacts DEF Kept
<1>18. OK(State', early)
  BY Zenon, <1>2, <1>16, <1>17, KeptOK
<1> QED BY Zenon, <1>18 DEF CenterInv, NoticeTimeout, nodeVars, history

\* An operator suspends a node, or takes it back.
Suspend(n, b) == [State EXCEPT !.table[n].suspend = b]

\* An operator's mark on an entry of the table.
LEMMA SuspendOK ==
  ASSUME CenterInv, NEW n \in Nodes, NEW b \in BOOLEAN, Room
  PROVE  Suspend(n, b) \in States /\ Slack(Suspend(n, b)) /\ OK(Suspend(n, b), early)
<1>1. PICK m, e, y : m = State /\ e = [m.table[n] EXCEPT !.suspend = b] /\ y = Suspend(n, b)
  BY Zenon
<1>2. m \in States /\ OK(m, early) /\ Slack(m) /\ m.table[n] \in Entry
  BY Zenon, <1>1, RoomFacts, StateFacts DEF CenterInv, OK
<1>3. e \in Entry /\ e.id = m.table[n].id
  BY <1>1, <1>2 DEF Entry
<1>4. y = Enter(m, n, e)
  BY <1>1, <1>2 DEF States, Enter, Suspend
<1>5. Entered(m, y, n, e)
  BY Zenon, <1>2, <1>3, <1>4, SetEntry
<1>6. y \in States /\ Slack(y)
  BY Zenon, <1>2, <1>5 DEF Entered, Slack
<1>7. \A k \in Nodes : y.table[k].id = m.table[k].id
  BY Zenon, <1>3, <1>5 DEF Entered
<1>8. Unique(y.table)
  BY Zenon, <1>2, <1>7 DEF Unique, OK
<1>9. Lasting(m.link, y.link)
  BY Zenon, <1>5 DEF Entered, Lasting
<1>10. \A k \in Nodes : y.table[k].id > 0 => m.table[k].id > 0
  BY Zenon, <1>7
<1>11. OK(y, early)
  BY Zenon, <1>2, <1>6, <1>8, <1>9, <1>10, LastingOK
<1> QED BY Zenon, <1>1, <1>6, <1>11

\* An operator takes a node offline or online.
LEMMA CommandsOK ==
  ASSUME CenterInv, NEW n \in Nodes, CmdOfflineNode(n) \/ CmdOnlineNode(n)
  PROVE  CenterInv'
<1>1. PICK b, x : /\ b \in BOOLEAN /\ Become(x)
                  /\ x = SendUnregToOthers(Suspend(n, b), n) \/ x = SendRegToOthers(Suspend(n, b), n)
  <2>1. CASE CmdOfflineNode(n)
    BY Zenon, <2>1 DEF CmdOfflineNode, OfflineNode, Suspend
  <2>2. CASE CmdOnlineNode(n)
    BY Zenon, <2>2 DEF CmdOnlineNode, OnlineNode, Suspend
  <2> QED BY Zenon, <2>1, <2>2
<1>2. Room /\ conn' = conn /\ early' = early
  BY Zenon DEF CmdOfflineNode, CmdOnlineNode, nodeVars, history
<1>3. PICK y : y = Suspend(n, b)
  BY Zenon
<1>4. y \in States /\ Slack(y) /\ OK(y, early)
  BY Zenon, <1>1, <1>2, <1>3, SuspendOK
<1>5. Kept(y, x)
  BY Zenon, <1>1, <1>3, <1>4, SendRegFacts
<1>6. OK(x, early)
  BY Zenon, <1>4, <1>5, KeptOK
<1>7. State' = x
  BY Zenon, <1>1, <1>6, BecomeFacts DEF OK
<1> QED BY Zenon, <1>2, <1>6, <1>7 DEF CenterInv

-----------------------------------------------------------------------------
(* The Managers' steps. *)

\* The connections of a state, and the one a Manager uses.
LEMMA InvLinks ==
  ASSUME CenterInv
  PROVE  /\ link \in [Links -> Link] /\ \A c \in Links : link[c] \in Link
         /\ \A n \in Nodes : conn[n] # 0 => conn[n] \in Links
<1>1. link \in [Links -> Link]
  BY Zenon, StateFacts, StateFields DEF CenterInv, OK
<1>2. \A c \in 0 .. MaxLink : c # 0 => c \in Links
  BY CenterAssumption DEF Links
<1> QED BY Zenon, <1>1, <1>2 DEF CenterInv

\* More messages to the Center.
LEMMA AppendInbound ==
  /\ \A q \in Inbound : \A msg \in Message : msg.cmd \in ToCenter => Append(q, msg) \in Inbound
  /\ \A q, r \in Inbound : q \o r \in Inbound
  /\ <<>> \in Inbound
<1>1. ASSUME NEW q \in Inbound, NEW msg \in Message, msg.cmd \in ToCenter PROVE Append(q, msg) \in Inbound
  <2>1. q \in Seq(Message) /\ Append(q, msg) \in Seq(Message) /\ Len(Append(q, msg)) = Len(q) + 1
    BY DEF Inbound
  <2>2. ASSUME NEW i \in 1 .. Len(q) + 1 PROVE Append(q, msg)[i].cmd \in ToCenter
    <3>1. CASE i = Len(q) + 1
      <4>1. Append(q, msg)[i] = msg
        BY <2>1, <3>1
      <4> QED BY Zenon, <1>1, <4>1
    <3>2. CASE i # Len(q) + 1
      <4>1. Append(q, msg)[i] = q[i] /\ i \in 1 .. Len(q)
        BY <2>1, <3>2
      <4> QED BY Zenon, <4>1 DEF Inbound
    <3> QED BY Zenon, <3>1, <3>2
  <2> QED BY Zenon, <2>1, <2>2 DEF Inbound
<1>2. ASSUME NEW q \in Inbound, NEW r \in Inbound PROVE q \o r \in Inbound
  <2>1. q \in Seq(Message) /\ r \in Seq(Message) /\ q \o r \in Seq(Message) /\ Len(q \o r) = Len(q) + Len(r)
    BY DEF Inbound
  <2>2. ASSUME NEW i \in 1 .. Len(q) + Len(r) PROVE (q \o r)[i].cmd \in ToCenter
    <3>1. CASE i =< Len(q)
      <4>1. (q \o r)[i] = q[i] /\ i \in 1 .. Len(q)
        BY <2>1, <3>1
      <4> QED BY Zenon, <4>1 DEF Inbound
    <3>2. CASE ~ (i =< Len(q))
      <4>1. (q \o r)[i] = r[i - Len(q)] /\ i - Len(q) \in 1 .. Len(r)
        BY <2>1, <3>2
      <4> QED BY Zenon, <4>1 DEF Inbound
    <3> QED BY Zenon, <3>1, <3>2
  <2> QED BY Zenon, <2>1, <2>2 DEF Inbound
<1>3. <<>> \in Inbound
  BY DEF Inbound
<1> QED BY Zenon, <1>1, <1>2, <1>3

\* A Manager opens a connection to the Center.
LEMMA DialsOK ==
  ASSUME CenterInv, NEW n \in Nodes, Dials(n), UNCHANGED <<centerVars, early>>
  PROVE  CenterInv'
<1>1. PICK c, v : c = FreeLink(link) /\ v = [Free EXCEPT !.node = n, !.mine = TRUE, !.at = "manager"]
  BY Zenon
<1>2. c \in FreeLinks(link) /\ c \in Links /\ c \in 0 .. MaxLink
  <2>1. c \in FreeLinks(link) /\ c \in Links
    BY Zenon, <1>1, FreeLinkFacts DEF Dials
  <2>2. Links \subseteq 0 .. MaxLink
    BY CenterAssumption DEF Links
  <2> QED BY Zenon, <2>1, <2>2
<1>3. v \in Link
  BY Zenon, <1>1, FreeFacts DEF Link
<1>4. link' = [link EXCEPT ![c] = v] /\ conn' = [conn EXCEPT ![n] = c]
  BY Zenon, <1>1 DEF Dials
<1>5. link[c].at # "worker"
  BY <1>2 DEF FreeLinks
<1>6. OK(State', early')
  BY Zenon, <1>2, <1>3, <1>4, <1>5, OneLink
<1>7. conn' \in [Nodes -> 0 .. MaxLink]
  BY Zenon, <1>2, <1>4 DEF CenterInv
<1> QED BY Zenon, <1>6, <1>7 DEF CenterInv

\* A Manager registers or reports over the connection it has.
LEMMA SendsOK ==
  ASSUME CenterInv, NEW n \in Nodes, NEW cmd \in {"register", "report"}, conn[n] # 0, Sends(n, cmd),
         UNCHANGED <<centerVars, early>>
  PROVE  CenterInv'
<1>1. PICK c, u : c = conn[n] /\ u = link[c]
  BY Zenon
<1>2. c \in Links /\ u \in Link /\ link \in [Links -> Link]
  BY Zenon, <1>1, InvLinks
<1>3. CASE link' = [link EXCEPT ![c].toC = IF link[c].at = "closed" THEN @ ELSE Append(@, Msg(cmd))]
  <2>1. PICK q : q = IF u.at = "closed" THEN u.toC ELSE Append(u.toC, Msg(cmd))
    BY Zenon
  <2>2. q \in Inbound
    <3>1. cmd \in Cmd /\ cmd \in ToCenter
      BY Zenon DEF Cmd, ToCenter
    <3>2. Msg(cmd) \in Message /\ Msg(cmd).cmd \in ToCenter
      BY Zenon, <3>1, MsgFacts
    <3> QED BY Zenon, <1>2, <2>1, <3>2, LinkFacts, AppendInbound
  <2>3. PICK v : v = [u EXCEPT !.toC = q]
    BY Zenon
  <2>4. v \in Link /\ v.node = u.node /\ v.at = u.at /\ v.ident = u.ident
    BY Zenon, <1>2, <2>2, <2>3 DEF Link
  <2>5. link' = [link EXCEPT ![c] = v]
    BY <1>1, <1>2, <1>3, <2>1, <2>3
  <2>6. OK(State', early')
    BY Zenon, <1>1, <1>2, <2>4, <2>5, OneLink
  <2> QED BY Zenon, <2>6 DEF CenterInv, Sends
<1>4. CASE link[c].at = "manager" /\ link' = [link EXCEPT ![c].at = "closed", ![c].toC = <<>>]
  <2>1. PICK v : v = [u EXCEPT !.at = "closed", !.toC = <<>>]
    BY Zenon
  <2>2. v \in Link
    BY Zenon, <1>2, <2>1, AppendInbound DEF Link
  <2>3. link' = [link EXCEPT ![c] = v] /\ link[c].at # "worker"
    BY Zenon, <1>1, <1>2, <1>4, <2>1
  <2>4. OK(State', early')
    BY Zenon, <1>1, <1>2, <2>2, <2>3, OneLink
  <2> QED BY Zenon, <2>4 DEF CenterInv, Sends
<1> QED BY Zenon, <1>1, <1>3, <1>4 DEF Sends

\* What a Manager answers goes to the Center.
LEMMA ReplyFacts ==
  ASSUME NEW msg \in Message
  PROVE  Reply(msg) \in Inbound
<1>1. Msg("tell") \in Message /\ Msg("tell").cmd \in ToCenter
  BY MsgFacts DEF Cmd, ToCenter
<1>2. Msg("register") \in Message /\ Msg("register").cmd \in ToCenter
  BY MsgFacts DEF Cmd, ToCenter
<1>3. PICK k : k = [Msg("ok") EXCEPT !.seq = msg.seq]
  BY Zenon
<1>4. k \in Message /\ k.cmd \in ToCenter
  <2>1. Msg("ok") \in Message /\ Msg("ok").cmd = "ok" /\ msg.seq \in Nat
    BY MsgFacts DEF Cmd, Message
  <2>2. k \in Message /\ k.cmd = "ok"
    BY <1>3, <2>1 DEF Message
  <2> QED BY <2>2 DEF ToCenter
<1>5. \A a \in Message : a.cmd \in ToCenter => <<a>> \in Inbound
  BY DEF Inbound
<1>6. PICK a, b : a = Msg("tell") /\ b = Msg("register")
  BY Zenon
<1>7. <<a, b>> \in Inbound
  BY <1>1, <1>2, <1>6 DEF Inbound
<1>8. <<k>> \in Inbound /\ <<>> \in Inbound
  BY Zenon, <1>4, <1>5, AppendInbound
<1>9. Reply(msg) \in {<<a, b>>, <<k>>, <<>>}
  <2>1. CASE msg.cmd = "connected"
    BY <2>1, <1>6 DEF Reply
  <2>2. CASE msg.cmd = "notice"
    BY <2>2, <1>3 DEF Reply
  <2>3. CASE msg.cmd # "connected" /\ msg.cmd # "notice"
    BY <2>3 DEF Reply
  <2> QED BY Zenon, <2>1, <2>2, <2>3
<1> QED BY Zenon, <1>7, <1>8, <1>9

\* A Manager answers with nothing but what the Center expects.
LEMMA DisposeAllFacts ==
  ASSUME NEW m, NEW q \in Seq(Message), m.out \in Inbound
  PROVE  DisposeAll(m, q).out \in Inbound
<1> DEFINE N == Len(q)
           Heard(f) == f = [i \in 0 .. N |-> IF i = 0 THEN m ELSE DisposeDataFromCenter(f[i - 1], q[i])]
           g == CHOOSE f : Heard(f)
<1>1. DisposeAll(m, q) = g[N]
  BY Zenon DEF DisposeAll
<1>2. N \in Nat /\ \A i \in 1 .. N : q[i] \in Message
  OBVIOUS
<1> HIDE DEF g, Heard, N
<1>3. Heard(g)
  <2>1. PICK w : w = [loop |-> "hear", q |-> q]
    BY Zenon
  <2>2. \A x, i : Turn(w, x, i) = DisposeDataFromCenter(x, q[i])
    BY <2>1 DEF Turn
  <2>3. PICK f : Turns(w, m, N, f)
    BY Zenon, <1>2, LoopDefined
  <2>4. Heard(f)
    BY Zenon, <2>2, <2>3 DEF Turns, Heard
  <2> QED BY Zenon, <2>4 DEF g
<1>4. g[0] = m /\ \A i \in 1 .. N : g[i] = DisposeDataFromCenter(g[i - 1], q[i])
  <2>1. 0 \in 0 .. N /\ \A i \in 1 .. N : i \in 0 .. N /\ i # 0
    BY <1>2
  <2> QED BY Zenon, <1>3, <2>1 DEF Heard
<1> DEFINE Bad == {i \in 0 .. N : g[i].out \notin Inbound}
<1>5. Bad = {}
  <2> SUFFICES ASSUME Bad # {} PROVE FALSE
    BY Zenon
  <2>1. Bad \in SUBSET Nat
    BY <1>2
  <2>2. PICK k \in Bad : \A i \in Bad : k =< i
    <3> HIDE DEF Bad
    <3> QED BY Zenon, <2>1, Least
  <2>3. k # 0
    BY Zenon, <1>4, <2>2
  <2>4. k \in 1 .. N /\ k - 1 \in 0 .. N /\ ~ (k =< k - 1)
    BY <1>2, <2>2, <2>3
  <2>5. g[k - 1].out \in Inbound
    <3>1. k - 1 \notin Bad
      <4> HIDE DEF Bad
      <4> QED BY Zenon, <2>2, <2>4
    <3> QED BY Zenon, <2>4, <3>1
  <2>6. g[k].out = g[k - 1].out \o Reply(q[k])
    <3>1. \A x, msg : DisposeDataFromCenter(x, msg).out = x.out \o Reply(msg)
      BY DEF DisposeDataFromCenter
    <3> QED BY Zenon, <1>4, <2>4, <3>1
  <2>7. Reply(q[k]) \in Inbound
    BY Zenon, <1>2, <2>4, ReplyFacts
  <2> QED BY Zenon, <2>2, <2>5, <2>6, <2>7, AppendInbound
<1>6. N \in 0 .. N
  BY <1>2
<1> QED BY Zenon, <1>1, <1>5, <1>6

\* A Manager disposes of what the Center has sent.
LEMMA ManagerRecvOK ==
  ASSUME CenterInv, NEW n \in Nodes, ManagerRecv(n)
  PROVE  CenterInv'
<1>1. PICK c, u : c = conn[n] /\ u = link[c]
  BY Zenon
<1>2. c \in Links /\ u \in Link /\ link \in [Links -> Link]
  BY Zenon, <1>1, InvLinks DEF ManagerRecv
<1>3. PICK b : b = [out |-> <<>>, route |-> route[n], again |-> {p \in Nodes : <<n, p>> \in again},
                    told |-> {p \in Nodes : <<n, p>> \in told}]
  BY Zenon
<1>4. PICK m : m = DisposeAll(b, u.toN)
  BY Zenon
<1>5. m.out \in Inbound
  <2>1. b.out \in Inbound
    BY <1>3, AppendInbound
  <2> QED BY Zenon, <1>2, <1>4, <2>1, LinkFacts, DisposeAllFacts
<1>6. PICK q : q = IF u.at = "closed" THEN <<>> ELSE u.toC \o m.out
  BY Zenon
<1>7. q \in Inbound
  BY Zenon, <1>2, <1>5, <1>6, LinkFacts, AppendInbound
<1>8. PICK v : v = [u EXCEPT !.toN = <<>>, !.toC = q]
  BY Zenon
<1>9. v \in Link /\ v.node = u.node /\ v.at = u.at /\ v.ident = u.ident
  <2>1. PICK e \in Seq(Message) : e = <<>>
    BY Zenon, EmptySeq
  <2>2. v = [u EXCEPT !.toN = e, !.toC = q]
    BY Zenon, <1>8, <2>1
  <2> QED BY Zenon, <1>2, <1>7, <2>2 DEF Link
<1>10. link' = [link EXCEPT ![c] = v]
  <2>1. link' = [link EXCEPT ![c].toN = <<>>, ![c].toC = IF link[c].at = "closed" THEN <<>> ELSE @ \o m.out]
    BY Zenon, <1>1, <1>3, <1>4 DEF ManagerRecv
  <2> QED BY Zenon, <1>1, <1>2, <1>6, <1>8, <2>1 DEF Link
<1>11. UNCHANGED <<centerVars, early, conn>>
  BY Zenon DEF ManagerRecv
<1>12. OK(State', early')
  BY ZenonT(30), <1>1, <1>2, <1>9, <1>10, <1>11, OneLink
<1> QED BY Zenon, <1>11, <1>12 DEF CenterInv

\* A Manager's connection ends.
LEMMA HangsOK ==
  ASSUME CenterInv, NEW n \in Nodes, conn[n] # 0, Hangs(n), UNCHANGED <<centerVars, early>>
  PROVE  CenterInv'
<1>1. PICK c, u : c = conn[n] /\ u = link[c]
  BY Zenon
<1>2. c \in Links /\ u \in Link /\ link \in [Links -> Link]
  BY Zenon, <1>1, InvLinks
<1>3. PICK rest \in {<<>>, u.toC} : link' = Swept([link EXCEPT ![c].mine = FALSE, ![c].toN = <<>>, ![c].toC = rest])
  BY Zenon, <1>1 DEF Hangs
<1>4. rest \in Inbound
  BY Zenon, <1>2, LinkFacts, AppendInbound
<1>5. PICK v, l : v = [u EXCEPT !.mine = FALSE, !.toN = <<>>, !.toC = rest] /\ l = [link EXCEPT ![c] = v]
  BY Zenon
<1>6. v \in Link /\ v.node = u.node /\ v.at = u.at /\ v.ident = u.ident
  <2>1. PICK e \in Seq(Message) : e = <<>>
    BY Zenon, EmptySeq
  <2>2. v = [u EXCEPT !.mine = FALSE, !.toN = e, !.toC = rest]
    BY Zenon, <1>5, <2>1
  <2> QED BY Zenon, <1>2, <1>4, <2>2 DEF Link
<1>7. l = [link EXCEPT ![c].mine = FALSE, ![c].toN = <<>>, ![c].toC = rest]
  BY Zenon, <1>1, <1>2, <1>5 DEF Link
<1>8. link' = Swept(l)
  BY Zenon, <1>3, <1>7
<1>9. OK(State', early')
  <2>1. link[c].at = "worker" => v.node = link[c].node /\ v.at = "worker" /\ v.ident = link[c].ident
    BY Zenon, <1>1, <1>6
  <2>2. l = [link EXCEPT ![c] = v] /\ v \in Link /\ (link' = l \/ link' = Swept(l))
    BY Zenon, <1>5, <1>6, <1>8
  <2> QED BY Zenon, <1>2, <2>1, <2>2, OneLink
<1>10. conn' \in [Nodes -> 0 .. MaxLink]
  <2>1. 0 \in 0 .. MaxLink
    BY CenterAssumption
  <2> QED BY Zenon, <2>1 DEF CenterInv, Hangs
<1> QED BY Zenon, <1>9, <1>10 DEF CenterInv

-----------------------------------------------------------------------------
(* The specification. *)

\* The invariant holds at first.
LEMMA CenterInit == Init => CenterInv
<1> SUFFICES ASSUME Init PROVE CenterInv
  BY Zenon
<1>1. PICK N : N = Cardinality(Running)
  BY Zenon
<1>2. N \in Nat /\ N =< MaxLink /\ MaxLink \in Nat /\ Running \in SUBSET Nodes
  <2>1. Running \in SUBSET Nodes /\ IsFiniteSet(Nodes) /\ MaxLink \in Nat /\ MaxLink >= N
    BY Zenon, <1>1, CenterAssumption
  <2>2. N \in Nat
    BY Zenon, <1>1, <2>1, FS_Subset, FS_CardinalityType
  <2> QED BY <2>1, <2>2
<1>3. PICK c \in Bijection(Running, 1 .. N) :
        /\ conn = [n \in Nodes |-> IF n \in Running THEN c[n] ELSE 0] /\ shell = conn
        /\ link = [l \in Links |-> IF l \in Range(c)
                                   THEN [Free EXCEPT !.node = CHOOSE n \in Running : c[n] = l, !.mine = TRUE,
                                                     !.at = "worker", !.ident = TRUE]
                                   ELSE Free]
        /\ table = [n \in Nodes |-> [NoNode EXCEPT !.id = conn[n]]] /\ notice = <<>>
  BY Zenon, <1>1 DEF Init
<1>4. c \in [Running -> 1 .. N] /\ \A a, b \in Running : c[a] = c[b] => a = b
  BY Zenon DEF Bijection, Injection, IsInjective
<1>5. \A n \in Running : c[n] \in Links /\ c[n] \in 0 .. MaxLink /\ c[n] \in Nat /\ c[n] > 0
  <2>1. \A i \in 1 .. N : i \in Links /\ i \in 0 .. MaxLink /\ i \in Nat /\ i > 0
    BY <1>2 DEF Links
  <2> QED BY Zenon, <1>4, <2>1
<1>6. 0 \in 0 .. MaxLink /\ 0 \in Nat /\ ~ (0 > 0)
  BY <1>2
<1>7. \A n \in Nodes : /\ conn[n] = IF n \in Running THEN c[n] ELSE 0
                       /\ conn[n] \in 0 .. MaxLink /\ conn[n] \in Nat
  BY Zenon, <1>3, <1>5, <1>6
<1>8. conn \in [Nodes -> 0 .. MaxLink]
  BY Zenon, <1>3, <1>7
<1>9. table \in Tables /\ \A n \in Nodes : table[n].id = conn[n]
  <2>1. \A i \in Nat : [NoNode EXCEPT !.id = i] \in Entry /\ [NoNode EXCEPT !.id = i].id = i
    BY Zenon DEF NoNode, Entry
  <2>2. \A n \in Nodes : [NoNode EXCEPT !.id = conn[n]] \in Entry /\ [NoNode EXCEPT !.id = conn[n]].id = conn[n]
    BY Zenon, <1>7, <2>1
  <2> QED BY Zenon, <1>3, <2>2 DEF Tables
<1> DEFINE At(n) == [Free EXCEPT !.node = n, !.mine = TRUE, !.at = "worker", !.ident = TRUE]
           Who(l) == CHOOSE n \in Running : c[n] = l
<1>10. \A n \in Nodes : At(n) \in Link /\ Serves(At(n), n)
  BY Zenon, FreeFacts DEF Link, Serves
<1>11. \A n \in Running : Who(c[n]) = n
  BY Zenon, <1>4
<1>12. link = [l \in Links |-> IF l \in Range(c) THEN At(Who(l)) ELSE Free]
  BY Zenon, <1>3
<1>13. \A l : l \in Range(c) <=> \E n \in Running : c[n] = l
  BY Zenon, <1>4 DEF Range
<1> HIDE DEF At, Who
<1>14. link \in [Links -> Link]
  <2>1. ASSUME NEW l \in Range(c) PROVE At(Who(l)) \in Link
    BY Zenon, <1>2, <1>10, <1>11, <1>13
  <2> QED BY Zenon, <1>12, <2>1, FreeFacts
<1>15. \A n \in Running : Serves(link[c[n]], n)
  <2> SUFFICES ASSUME NEW n \in Running PROVE Serves(link[c[n]], n)
    BY Zenon
  <2>1. link[c[n]] = At(n)
    BY Zenon, <1>5, <1>11, <1>12, <1>13
  <2> QED BY Zenon, <1>2, <1>10, <2>1
<1>16. \A n \in Nodes : table[n].id > 0 => n \in Running /\ table[n].id = c[n]
  BY Zenon, <1>6, <1>7, <1>9
<1>17. Unique(table)
  BY Zenon, <1>4, <1>16 DEF Unique
<1>18. Connected(table, link, early)
  BY Zenon, <1>5, <1>15, <1>16 DEF Connected
<1>19. State \in States
  <2>1. shell \in Shells /\ notice \in Seq(StepNode)
    BY Zenon, <1>3, <1>8, EmptySeq DEF Shells
  <2> QED BY <1>9, <1>14, <2>1 DEF State, States
<1> QED BY Zenon, <1>8, <1>17, <1>18, <1>19, StateFields DEF CenterInv, OK

\* Every step keeps the invariant.
LEMMA CenterNext == CenterInv /\ [Next]_vars => CenterInv'
<1> SUFFICES ASSUME CenterInv, [Next]_vars PROVE CenterInv'
  BY Zenon
<1>1. CASE UNCHANGED vars
  BY Zenon, <1>1 DEF vars, CenterInv, State, centerVars, nodeVars, history
<1>2. ASSUME NEW c \in Links, DisposeDataAndTransferFd(c) PROVE CenterInv'
  BY Zenon, <1>2, TransferOK
<1>3. ASSUME NEW c \in Links, CenterRecv(c) PROVE CenterInv'
  BY Zenon, <1>3, CenterRecvOK
<1>4. ASSUME NEW c \in Links, CenterEof(c) \/ CenterDrops(c) PROVE CenterInv'
  <2>1. Closes(c) /\ Room /\ link[c].at \in {"manager", "worker"}
    BY Zenon, <1>4 DEF CenterEof, CenterDrops
  <2>2. link[c].at # "none"
    BY <2>1
  <2> QED BY Zenon, <2>1, <2>2, ClosesOK
<1>5. CASE NoticeTimeout
  BY Zenon, <1>5, NoticeTimeoutOK
<1>6. ASSUME NEW n \in Nodes, CmdOfflineNode(n) \/ CmdOnlineNode(n) PROVE CenterInv'
  BY Zenon, <1>6, CommandsOK
<1>7. ASSUME NEW n \in Nodes, Start(n) \/ RestartWorker(n) PROVE CenterInv'
  <2>1. RegisterToCenter(n) /\ UNCHANGED <<centerVars, early>>
    BY Zenon, <1>7 DEF Start, RestartWorker
  <2>2. CASE conn[n] = 0
    BY Zenon, <2>1, <2>2, DialsOK DEF RegisterToCenter
  <2>3. CASE conn[n] # 0
    BY Zenon, <2>1, <2>3, SendsOK DEF RegisterToCenter
  <2> QED BY Zenon, <2>2, <2>3
<1>8. ASSUME NEW n \in Nodes, ReportToCenter(n) PROVE CenterInv'
  <2>1. UNCHANGED <<centerVars, early>>
    BY Zenon, <1>8 DEF ReportToCenter, history
  <2>2. CASE conn[n] = 0
    BY Zenon, <1>8, <2>1, <2>2, DialsOK DEF ReportToCenter
  <2>3. CASE conn[n] # 0
    BY Zenon, <1>8, <2>1, <2>3, SendsOK DEF ReportToCenter
  <2> QED BY Zenon, <2>2, <2>3
<1>9. ASSUME NEW n \in Nodes, ManagerRecv(n) PROVE CenterInv'
  BY Zenon, <1>9, ManagerRecvOK
<1>10. ASSUME NEW n \in Nodes, ManagerEof(n) \/ ManagerDrops(n) PROVE CenterInv'
  <2>1. conn[n] # 0 /\ Hangs(n) /\ UNCHANGED <<centerVars, early>>
    BY Zenon, <1>10 DEF ManagerEof, ManagerDrops
  <2> QED BY Zenon, <2>1, HangsOK
<1>11. ASSUME NEW n \in Nodes, Stop(n) PROVE CenterInv'
  <2>1. UNCHANGED <<centerVars, early>>
    BY Zenon, <1>11 DEF Stop, history
  <2>2. CASE conn[n] = 0
    <3>1. UNCHANGED <<conn, link>>
      BY Zenon, <1>11, <2>2 DEF Stop
    <3> QED BY Zenon, <2>1, <3>1 DEF CenterInv, State, centerVars
  <2>3. CASE conn[n] # 0
    BY Zenon, <1>11, <2>1, <2>3, HangsOK DEF Stop
  <2> QED BY Zenon, <2>2, <2>3
<1>12. ASSUME UNCHANGED <<conn, link, centerVars, early>> PROVE CenterInv'
  BY Zenon, <1>12 DEF CenterInv, State, centerVars
<1>13. ASSUME NEW n \in Nodes, NEW k \in Nodes, TellWorker(n, k) PROVE CenterInv'
  BY Zenon, <1>12, <1>13 DEF TellWorker, history
<1>14. ASSUME NEW t \in tell, ToldWorker(t) PROVE CenterInv'
  BY Zenon, <1>12, <1>14 DEF ToldWorker
<1>15. CASE Next
  BY Zenon, <1>2, <1>3, <1>4, <1>5, <1>6, <1>7, <1>8, <1>9, <1>10, <1>11, <1>13, <1>14, <1>15
     DEF Next, CenterStep, ManagerStep
<1> QED BY Zenon, <1>1, <1>15

\* The invariant holds always.
LEMMA CenterInvariance == Spec => []CenterInv
BY CenterInit, CenterNext, PTL DEF Spec

\* No two registered nodes have the same id, however nodes come and go: GetNewNodeID
\* counts up from the largest id in the table.
THEOREM IdsUnique == Spec => []UniqueIds
<1>1. CenterInv => UniqueIds
  <2> SUFFICES ASSUME CenterInv PROVE UniqueIds
    BY Zenon
  <2>1. Unique(table)
    BY Zenon, StateFields DEF CenterInv, OK
  <2> QED BY Zenon, <2>1 DEF Unique, UniqueIds, Registered
<1> QED BY <1>1, CenterInvariance, PTL

\* A registered node has a connection whose end removes it from the table, unless it was
\* registered by a report that came before the connection had told its name.
THEOREM RegisteredConnected == Spec => []RegisteredIsConnected
<1>1. CenterInv => RegisteredIsConnected
  <2> SUFFICES ASSUME CenterInv PROVE RegisteredIsConnected
    BY Zenon
  <2>1. Connected(table, link, early)
    BY Zenon, StateFields DEF CenterInv, OK
  <2> QED BY Zenon, <2>1 DEF Connected, RegisteredIsConnected, Registered, Serves
<1> QED BY <1>1, CenterInvariance, PTL
=============================================================================
