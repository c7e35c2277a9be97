---------------------------- MODULE DbSyncProofs ----------------------------
(***************************************************************************)
(* For any writes, files, minutes, failures and crashes: reading and writing *)
(* are kept apart (Separate), no write disappears besides the named places   *)
(* (Kept), and none is sent twice in a life of the Worker (OncePerLife).     *)
(*                                                                          *)
(* Separate: the file of a later minute than this one does not exist, so     *)
(* SyncData can only come upon the file that is read if that is the file of  *)
(* this minute.  GetSyncData opens no file that is being written, and a file *)
(* of this minute is being written as long as the minute lasts               *)
(* (CheckWritingFile), unless a Worker that crashed in it left it behind.    *)
(***************************************************************************)
EXTENDS DbSync, WellFoundedInduction, TLAPS

\* A record with the fields of a SessionSyncDbData.
Fields == {"on", "files", "wfile", "wtime", "wgone", "rfile", "roff", "waitR", "sending"}
IsSession(x) == x = [f \in Fields |-> x[f]]

\* The session x in the minute n, with crashes in the minutes l.
KeptApart(x, n, l) ==
  /\ IsSession(x)
  /\ x.files \subseteq 1 .. n /\ x.wfile \in 0 .. n /\ x.rfile \in 0 .. n
  /\ x.rfile # 0 /\ x.rfile = x.wfile => x.rfile \in l
  /\ x.rfile = n => n \in l
  /\ n \in x.files => (x.wfile = n /\ x.wtime = n) \/ n \in l

IInv == /\ now \in Nat \ {0} /\ DOMAIN disk \subseteq 1 .. now
        /\ KeptApart(session, now, left)

-----------------------------------------------------------------------------
\* m_setDataFiles.begin() is a file of the set.
LEMMA LeastFile ==
  ASSUME NEW S \in SUBSET Nat, S # {}
  PROVE  Min(S) \in S
<1>1. PICK m \in S : \A y \in S : ~ (<<y, m>> \in OpToRel(<, Nat))
  BY Zenon, NatLessThanWellFounded, WFMin
<1>2. \A y \in S : m =< y
  <2>1. SUFFICES ASSUME NEW y \in S, y < m PROVE FALSE
    OBVIOUS
  <2>2. OpToRel(<, Nat) = {p \in Nat \X Nat : p[1] < p[2]}
    BY Zenon DEF OpToRel
  <2>3. <<y, m>> \in {p \in Nat \X Nat : p[1] < p[2]}
    BY Zenon, <2>1
  <2> QED BY Zenon, <1>1, <2>2, <2>3
<1>3. \E m0 \in S : \A y \in S : m0 =< y
  BY Zenon, <1>2
<1> QED BY Zenon, <1>3 DEF Min

\* A new session, and none, read and write nothing.
LEMMA NewApart ==
  ASSUME NEW n \in Nat \ {0}, NEW l
  PROVE  KeptApart(NoSession, n, l) /\ KeptApart(SessionNew, n, l)
BY DEF KeptApart, IsSession, Fields, NoSession, SessionNew

\* The fields after the assignments of SessionSyncDbData: the writing file is closed.
LEMMA ClosedFields ==
  ASSUME NEW x, IsSession(x)
  PROVE  /\ IsSession(Closed(x)) /\ Closed(x).wfile = 0 /\ Closed(x).files = x.files
         /\ Closed(x).rfile = x.rfile /\ Closed(x).wtime = x.wtime
BY Zenon DEF IsSession, Fields, Closed

\* The file f becomes the writing file.
LEMMA OpenedForWriting ==
  ASSUME NEW x, IsSession(x), NEW f, NEW y, y = [x EXCEPT !.wfile = f]
  PROVE  /\ IsSession(y) /\ y.wfile = f /\ y.files = x.files
         /\ y.rfile = x.rfile /\ y.wtime = x.wtime
BY Zenon DEF IsSession, Fields

\* The file f becomes the reading file.
LEMMA OpenedFields ==
  ASSUME NEW x, IsSession(x), NEW f
  PROVE  /\ IsSession(Opened(x, f)) /\ Opened(x, f).wfile = x.wfile /\ Opened(x, f).files = x.files
         /\ Opened(x, f).rfile = f /\ Opened(x, f).wtime = x.wtime
BY Zenon DEF IsSession, Fields, Opened

-----------------------------------------------------------------------------
\* CheckWritingFile does not close the file of this minute once it is noted.
LEMMA CheckWritingFileApart ==
  ASSUME IInv, NEW x \in CheckWritingFile(session)
  PROVE  KeptApart(x, now, left)
<1>1. x = session \/ (x = Closed(session) /\ now > session.wtime)
  BY Zenon DEF CheckWritingFile
<1>2. CASE x = session
  BY Zenon, <1>2 DEF IInv
<1>3. CASE x = Closed(session) /\ now > session.wtime
  <2>1. session.wtime # now
    BY <1>3 DEF IInv
  <2> QED BY <1>3, <2>1, ClosedFields DEF IInv, KeptApart
<1> QED BY Zenon, <1>1, <1>2, <1>3

\* SyncData goes over to the file of this minute only.
LEMMA SyncDataApart ==
  ASSUME IInv, NEW x, KeptApart(x, now, left), NEW w, NEW o \in SyncData(x, w)
  PROVE  /\ KeptApart(o.s, now, left) /\ DOMAIN o.d \subseteq 1 .. now
         /\ o.ok => o.s.wfile = now /\ o.s.wtime = now
<1> DEFINE y == IF x.wfile = now THEN x ELSE [Closed(x) EXCEPT !.wfile = now]
           z == [y EXCEPT !.files = @ \cup {now}, !.wtime = now]
<1>0. IsSession(x) /\ IsSession(Closed(x))
  BY Zenon, ClosedFields DEF KeptApart
<1>1. KeptApart(y, now, left) /\ y.wfile = now
  <2>1. CASE x.wfile = now
    BY Zenon, <2>1
  <2>2. CASE x.wfile # now
    <3>1. y = [Closed(x) EXCEPT !.wfile = now]
      BY Zenon, <2>2
    <3> HIDE DEF y
    <3>2. /\ IsSession(y) /\ y.wfile = now /\ y.files = x.files
          /\ y.rfile = x.rfile /\ y.wtime = x.wtime
      BY <1>0, <3>1, OpenedForWriting, ClosedFields
    <3> QED BY <2>2, <3>2 DEF IInv, KeptApart
  <2> QED BY Zenon, <2>1, <2>2
<1>2. KeptApart(z, now, left) /\ z.wfile = now /\ z.wtime = now
  <2> HIDE DEF y
  <2>1. /\ IsSession(z) /\ z.wfile = y.wfile /\ z.files = y.files \cup {now}
        /\ z.rfile = y.rfile /\ z.wtime = now
    BY Zenon, <1>1 DEF KeptApart, IsSession, Fields
  <2> HIDE DEF z
  <2> QED BY <1>1, <2>1 DEF IInv, KeptApart
<1>3. x.wfile # now => KeptApart(Closed(x), now, left)
  BY <1>0, ClosedFields DEF IInv, KeptApart
<1>4. \A c : DOMAIN WithFile(now, c) \subseteq 1 .. now
  BY DEF IInv, WithFile
<1>5. DOMAIN disk \subseteq 1 .. now
  BY Zenon DEF IInv
<1>6. \/ o.s = y /\ ~ o.ok /\ (o.d = disk \/ \E c : o.d = WithFile(now, c))
      \/ o.s = z /\ (o.d = disk \/ \E c : o.d = WithFile(now, c))
      \/ o.s = Closed(x) /\ x.wfile # now /\ o.d = disk /\ ~ o.ok
  BY DEF SyncData
<1> HIDE DEF y, z
<1> QED BY Zenon, <1>1, <1>2, <1>3, <1>4, <1>5, <1>6

\* Reading on, and the end of the file.
LEMMA ReadOnApart ==
  ASSUME IInv, NEW x, KeptApart(x, now, left), x.rfile # 0
  PROVE  KeptApart(ReadOn(x).s, now, left) /\ DOMAIN ReadOn(x).d \subseteq 1 .. now
<1>0. IsSession(x) /\ DOMAIN disk \subseteq 1 .. now
  BY Zenon DEF KeptApart, IInv
<1> DEFINE y == ReadOn(x).s
<1>1. CASE x.waitR # <<>>
  <2>1. ReadOn(x) = Taken([x EXCEPT !.waitR = Tail(x.waitR)], Head(x.waitR))
    BY Zenon, <1>1 DEF ReadOn
  <2>2. y = [[x EXCEPT !.waitR = Tail(x.waitR)] EXCEPT !.sending = Size[Head(x.waitR)]] /\ ReadOn(x).d = disk
    BY <2>1 DEF Taken
  <2> HIDE DEF y
  <2>3. /\ IsSession(y) /\ y.wfile = x.wfile /\ y.files = x.files
        /\ y.rfile = x.rfile /\ y.wtime = x.wtime
    BY Zenon, <1>0, <2>2 DEF IsSession, Fields
  <2>4. KeptApart(y, now, left)
    BY Zenon, <2>3 DEF KeptApart
  <2> QED BY Zenon, <1>0, <2>2, <2>4 DEF y
<1>2. CASE x.waitR = <<>> /\ x.roff < Len(disk[x.rfile])
  <2>1. ReadOn(x) = Taken([x EXCEPT !.roff = x.roff + 1], disk[x.rfile][x.roff + 1])
    BY Zenon, <1>2 DEF ReadOn
  <2>2. y = [[x EXCEPT !.roff = x.roff + 1] EXCEPT !.sending = Size[disk[x.rfile][x.roff + 1]]] /\ ReadOn(x).d = disk
    BY <2>1 DEF Taken
  <2> HIDE DEF y
  <2>3. /\ IsSession(y) /\ y.wfile = x.wfile /\ y.files = x.files
        /\ y.rfile = x.rfile /\ y.wtime = x.wtime
    BY Zenon, <1>0, <2>2 DEF IsSession, Fields
  <2>4. KeptApart(y, now, left)
    BY Zenon, <2>3 DEF KeptApart
  <2> QED BY Zenon, <1>0, <2>2, <2>4 DEF y
<1>3. CASE x.waitR = <<>> /\ ~ (x.roff < Len(disk[x.rfile]))
  <2>1. /\ y = [x EXCEPT !.files = @ \ {x.rfile}, !.rfile = 0, !.wgone = x.wgone \/ x.rfile = x.wfile]
        /\ ReadOn(x).d = Restrict(disk, DOMAIN disk \ {x.rfile})
    BY Zenon, <1>3 DEF ReadOn
  <2> HIDE DEF y
  <2>2. /\ IsSession(y) /\ y.wfile = x.wfile /\ y.files = x.files \ {x.rfile}
        /\ y.rfile = 0 /\ y.wtime = x.wtime
    BY Zenon, <1>0, <2>1 DEF IsSession, Fields
  <2>3. KeptApart(y, now, left)
    BY <2>2 DEF KeptApart, IInv
  <2>4. DOMAIN ReadOn(x).d \subseteq 1 .. now
    BY Zenon, <1>0, <2>1 DEF Restrict
  <2> QED BY Zenon, <2>3, <2>4 DEF y
<1> QED BY Zenon, <1>1, <1>2, <1>3

\* GetSyncData opens no file that is being written, so none of this minute that was
\* not left behind.
LEMMA GetSyncDataApart ==
  ASSUME IInv, NEW x, KeptApart(x, now, left)
  PROVE  KeptApart(GetSyncData(x).s, now, left) /\ DOMAIN GetSyncData(x).d \subseteq 1 .. now
<1>0. IsSession(x) /\ DOMAIN disk \subseteq 1 .. now /\ now \in Nat
  BY Zenon DEF KeptApart, IInv
<1>1. CASE x.rfile # 0
  BY Zenon, <1>1, ReadOnApart DEF GetSyncData
<1>2. CASE x.rfile = 0 /\ (x.files = {} \/ Min(x.files) = x.wfile)
  BY Zenon, <1>0, <1>2 DEF GetSyncData, Nothing
<1>3. CASE x.rfile = 0 /\ x.files # {} /\ Min(x.files) # x.wfile /\ Min(x.files) \notin DOMAIN disk
  <2> DEFINE y == [x EXCEPT !.files = x.files \ {Min(x.files)}]
  <2>1. GetSyncData(x).s = y /\ GetSyncData(x).d = disk
    BY Zenon, <1>3 DEF GetSyncData, Nothing
  <2>2. /\ IsSession(y) /\ y.wfile = x.wfile /\ y.files = x.files \ {Min(x.files)}
        /\ y.rfile = x.rfile /\ y.wtime = x.wtime
    BY Zenon, <1>0 DEF IsSession, Fields
  <2> HIDE DEF y
  <2>3. KeptApart(y, now, left)
    BY Zenon, <2>2 DEF KeptApart
  <2> QED BY Zenon, <1>0, <2>1, <2>3
<1>4. CASE x.rfile = 0 /\ x.files # {} /\ Min(x.files) # x.wfile /\ Min(x.files) \in DOMAIN disk
  <2> DEFINE f == Min(x.files)
             y == Opened(x, f)
  <2>1. f \in x.files
    <3>1. x.files \in SUBSET Nat
      BY <1>0 DEF KeptApart
    <3> QED BY Zenon, <1>4, <3>1, LeastFile
  <2>2. GetSyncData(x) = ReadOn(y)
    BY Zenon, <1>4 DEF GetSyncData
  <2>3. f # x.wfile
    BY Zenon, <1>4
  <2> HIDE DEF f
  <2>4. /\ IsSession(y) /\ y.wfile = x.wfile /\ y.files = x.files
        /\ y.rfile = f /\ y.wtime = x.wtime
    BY Zenon, <1>0, OpenedFields
  <2> HIDE DEF y
  <2>5. KeptApart(y, now, left) /\ y.rfile # 0
    BY <1>0, <2>1, <2>3, <2>4 DEF KeptApart
  <2> QED BY Zenon, <2>2, <2>5, ReadOnApart
<1> QED BY Zenon, <1>1, <1>2, <1>3, <1>4

\* GoBack leaves the files alone.
LEMMA GoBackApart ==
  ASSUME NEW x, NEW n, NEW l, KeptApart(x, n, l), NEW w
  PROVE  KeptApart(GoBack(x, w), n, l)
<1> DEFINE y == GoBack(x, w)
<1>1. y = x \/ y = [x EXCEPT !.waitR = Append(x.waitR, w)]
  BY Zenon DEF GoBack
<1> HIDE DEF y
<1>2. /\ IsSession(y) /\ y.wfile = x.wfile /\ y.files = x.files
      /\ y.rfile = x.rfile /\ y.wtime = x.wtime
  BY Zenon, <1>1 DEF KeptApart, IsSession, Fields
<1>3. KeptApart(y, n, l)
  BY Zenon, <1>2 DEF KeptApart
<1> QED BY Zenon, <1>3 DEF y

\* The files a scan finds are none of this minute but the one being written or left.
LEMMA ScanSyncDataApart ==
  ASSUME NEW n \in Nat, NEW l, NEW x, KeptApart(x, n, l), NEW d, DOMAIN d \subseteq 1 .. n,
         (x.wfile = n /\ x.wtime = n) \/ n \in l
  PROVE  KeptApart(ScanSyncData(x, d), n, l)
<1> DEFINE y == ScanSyncData(x, d)
<1>1. /\ IsSession(y) /\ y.wfile = x.wfile /\ y.files = x.files \cup DOMAIN d
      /\ y.rfile = x.rfile /\ y.wtime = x.wtime
  BY Zenon DEF ScanSyncData, KeptApart, IsSession, Fields
<1> HIDE DEF y
<1>2. KeptApart(y, n, l)
  BY Zenon, <1>1 DEF KeptApart
<1> QED BY Zenon, <1>2 DEF y

-----------------------------------------------------------------------------
\* The steps.

\* A step within a minute keeps the invariant if it keeps the session's part of it.
LEMMA Unchanged ==
  ASSUME IInv, KeptApart(session', now, left), DOMAIN disk' \subseteq 1 .. now, UNCHANGED <<now, left>>
  PROVE  IInv'
BY Zenon DEF IInv, KeptApart

\* Emit leaves the session and the files GetSyncData came to.
LEMMA EmitApart ==
  ASSUME NEW g, KeptApart(g.s, now, left), DOMAIN g.d \subseteq 1 .. now,
         NEW i, NEW to, NEW rest, Emit(i, g, to, rest)
  PROVE  KeptApart(session', now, left) /\ DOMAIN disk' \subseteq 1 .. now
<1>1. disk' = g.d /\ (session' = g.s \/ session' = GoBack(g.s, g.got[1]))
  BY Zenon DEF Emit
<1>2. KeptApart(GoBack(g.s, g.got[1]), now, left)
  BY Zenon, GoBackApart
<1> QED BY Zenon, <1>1, <1>2

\* The session's timer.
LEMMA SessionTimeoutStep ==
  ASSUME IInv, SessionTimeout
  PROVE  IInv'
<1>0. DOMAIN disk \subseteq 1 .. now /\ now \in Nat \ {0} /\ UNCHANGED <<now, left>>
  BY Zenon DEF IInv, SessionTimeout
<1>1. CASE session.files = {}
  <2>1. session' = NoSession /\ disk' = disk
    BY Zenon, <1>1 DEF SessionTimeout
  <2> QED BY Zenon, <1>0, <2>1, NewApart, Unchanged
<1>2. CASE session.files # {}
  <2>1. PICK x \in CheckWritingFile(session) :
          LET g == IF agent THEN GetSyncData(x) ELSE Nothing(x)
          IN  IF g.got = <<>> THEN session' = g.s /\ disk' = g.d
              ELSE \E i \in StepIds \cup {Min({j \in StepIds : ~steps[j].on})} : Emit(i, g, 0, wire)
    BY Zenon, <1>2 DEF SessionTimeout
  <2> DEFINE g == IF agent THEN GetSyncData(x) ELSE Nothing(x)
  <2>2. KeptApart(g.s, now, left) /\ DOMAIN g.d \subseteq 1 .. now
    BY Zenon, <1>0, CheckWritingFileApart, GetSyncDataApart DEF Nothing
  <2>3. \/ session' = g.s /\ disk' = g.d
        \/ \E i : Emit(i, g, 0, wire)
    BY Zenon, <2>1
  <2> HIDE DEF g
  <2>4. KeptApart(session', now, left) /\ DOMAIN disk' \subseteq 1 .. now
    BY Zenon, <2>2, <2>3, EmitApart
  <2> QED BY Zenon, <1>0, <2>4, Unchanged
<1> QED BY Zenon, <1>1, <1>2

\* StepSyncToDb::Callback.
LEMMA CallbackStep ==
  ASSUME IInv, NEW i \in StepIds, Callback(i)
  PROVE  IInv'
<1>0. DOMAIN disk \subseteq 1 .. now /\ KeptApart(session, now, left) /\ UNCHANGED <<now, left>>
  BY Zenon DEF IInv, Callback
<1>1. PICK m \in wire : CallbackNet(i, m) \/ CallbackDone(i, m) \/ CallbackBad(i, m)
  BY Zenon DEF Callback
<1>2. CASE CallbackNet(i, m)
  <2>1. session' = GoBack(session, m.rec) /\ disk' = disk
    BY Zenon, <1>2 DEF CallbackNet
  <2>2. KeptApart(session', now, left)
    BY Zenon, <1>0, <2>1, GoBackApart
  <2> QED BY Zenon, <1>0, <2>1, <2>2, Unchanged
<1>3. CASE CallbackDone(i, m)
  <2> DEFINE g == IF session.on THEN GetSyncData(session) ELSE Nothing(session)
  <2>1. \/ session' = g.s /\ disk' = g.d
        \/ Emit(i, g, steps[i].to, wire \ {m})
    BY Zenon, <1>3 DEF CallbackDone
  <2>2. KeptApart(g.s, now, left) /\ DOMAIN g.d \subseteq 1 .. now
    BY Zenon, <1>0, GetSyncDataApart DEF Nothing
  <2> HIDE DEF g
  <2>3. KeptApart(session', now, left) /\ DOMAIN disk' \subseteq 1 .. now
    BY Zenon, <2>1, <2>2, EmitApart
  <2> QED BY Zenon, <1>0, <2>3, Unchanged
<1>4. CASE CallbackBad(i, m)
  <2>1. session' = session /\ disk' = disk
    BY Zenon, <1>4 DEF CallbackBad
  <2> QED BY Zenon, <1>0, <2>1, Unchanged
<1> QED BY Zenon, <1>1, <1>2, <1>3, <1>4

\* SyncData, and the scan behind it.
LEMMA StoreApart ==
  ASSUME IInv, NEW w \in Writes, NEW scan \in BOOLEAN, Store(w, scan)
  PROVE  KeptApart(session', now, left) /\ DOMAIN disk' \subseteq 1 .. now
<1>0. now \in Nat \ {0}
  BY Zenon DEF IInv
<1>1. KeptApart(GetSessionSyncDbData, now, left)
  BY Zenon, <1>0, NewApart DEF GetSessionSyncDbData, IInv
<1>2. PICK o \in SyncData(GetSessionSyncDbData, w) :
        /\ disk' = o.d
        /\ session' = IF o.ok /\ scan THEN ScanSyncData(o.s, o.d) ELSE o.s
  BY Zenon DEF Store
<1>3. /\ KeptApart(o.s, now, left) /\ DOMAIN o.d \subseteq 1 .. now
      /\ o.ok => o.s.wfile = now /\ o.s.wtime = now
  BY Zenon, <1>1, SyncDataApart
<1>4. CASE o.ok /\ scan
  BY Zenon, <1>0, <1>2, <1>3, <1>4, ScanSyncDataApart
<1>5. CASE ~ (o.ok /\ scan)
  BY Zenon, <1>2, <1>3, <1>5
<1> QED BY Zenon, <1>4, <1>5

\* StepSendToDbAgent::Emit and Callback.
LEMMA DbWriteStep ==
  ASSUME IInv, NEW w \in Writes, DbWrite(w) \/ DbCallback(w)
  PROVE  IInv'
<1>0. DOMAIN disk \subseteq 1 .. now /\ KeptApart(session, now, left) /\ UNCHANGED <<now, left>>
  BY Zenon DEF IInv, DbWrite, DbCallback
<1>1. \/ session' = session /\ disk' = disk
      \/ \E scan \in BOOLEAN : Store(w, scan)
  BY Zenon DEF DbWrite, DbCallback
<1>2. KeptApart(session', now, left) /\ DOMAIN disk' \subseteq 1 .. now
  BY Zenon, <1>0, <1>1, StoreApart
<1> QED BY Zenon, <1>0, <1>2, Unchanged

\* No file bears the minute that begins.
LEMMA TickStep ==
  ASSUME IInv, Tick
  PROVE  IInv'
<1>1. now' = now + 1 /\ session' = session /\ disk' = disk /\ left' = left
  BY Zenon DEF Tick
<1>2. KeptApart(session, now + 1, left)
  BY DEF IInv, KeptApart
<1>3. now + 1 \in Nat \ {0} /\ DOMAIN disk \subseteq 1 .. now + 1
  BY DEF IInv
<1> QED BY Zenon, <1>1, <1>2, <1>3 DEF IInv, KeptApart

\* What the new Worker finds was left behind.
LEMMA CrashStep ==
  ASSUME IInv, Crash
  PROVE  IInv'
<1>1. /\ now' = now /\ disk' = disk /\ left' = left \cup {now}
      /\ session' = IF DOMAIN disk = {} THEN NoSession ELSE ScanSyncData(SessionNew, disk)
  BY Zenon DEF Crash
<1>2. now \in Nat \ {0} /\ DOMAIN disk \subseteq 1 .. now
  BY Zenon DEF IInv
<1>3. KeptApart(NoSession, now, left') /\ KeptApart(SessionNew, now, left')
  BY Zenon, <1>2, NewApart
<1>4. KeptApart(ScanSyncData(SessionNew, disk), now, left')
  BY Zenon, <1>1, <1>2, <1>3, ScanSyncDataApart
<1>5. KeptApart(session', now, left')
  BY Zenon, <1>1, <1>3, <1>4
<1> QED BY Zenon, <1>1, <1>2, <1>5 DEF IInv, KeptApart

\* The invariant is inductive.
LEMMA NextIInv ==
  IInv /\ [Next]_vars => IInv'
<1> SUFFICES ASSUME IInv, [Next]_vars PROVE IInv'
  BY Zenon
<1>0. ASSUME UNCHANGED <<now, disk, session, left>> PROVE IInv'
  BY Zenon, <1>0 DEF IInv, KeptApart
<1>1. CASE SessionTimeout
  BY Zenon, <1>1, SessionTimeoutStep
<1>2. CASE AgentAnswers \/ AgentFlips
  BY Zenon, <1>0, <1>2 DEF AgentAnswers, AgentFlips
<1>3. CASE Tick
  BY Zenon, <1>3, TickStep
<1>4. CASE Crash
  BY Zenon, <1>4, CrashStep
<1>5. ASSUME NEW i \in StepIds, Callback(i) PROVE IInv'
  BY Zenon, <1>5, CallbackStep
<1>6. ASSUME NEW i \in StepIds, StepTimeout(i) PROVE IInv'
  BY Zenon, <1>0, <1>6 DEF StepTimeout
<1>7. ASSUME NEW w \in Writes, DbWrite(w) \/ DbCallback(w) PROVE IInv'
  BY Zenon, <1>7, DbWriteStep
<1>8. ASSUME NEW w \in Writes, DbTimeout(w) PROVE IInv'
  BY Zenon, <1>0, <1>8 DEF DbTimeout
<1>9. CASE UNCHANGED vars
  BY Zenon, <1>0, <1>9 DEF vars
<1> QED
  BY Zenon, <1>1, <1>2, <1>3, <1>4, <1>5, <1>6, <1>7, <1>8, <1>9 DEF Next

\* It holds at first.
LEMMA InitIInv ==
  Init => IInv
<1> SUFFICES ASSUME Init PROVE IInv
  BY Zenon
<1>1. now = 2 /\ DOMAIN disk = {} /\ session = NoSession
  BY DEF Init
<1>2. KeptApart(NoSession, now, left)
  BY <1>1, NewApart
<1> QED BY <1>1, <1>2 DEF IInv

\* SessionSyncDbData never reads the file it is writing, but for one that a Worker left
\* behind by a crash in that very minute: for any writes, any number of steps, failures
\* and crashes, and however long the clock runs.
THEOREM ReadingApart == Spec => []Separate
<1>1. IInv => Separate
  BY Zenon DEF IInv, KeptApart, Separate
<1> QED BY <1>1, InitIInv, NextIInv, PTL DEF Spec

-----------------------------------------------------------------------------
(* Nothing disappears.  What is read is in a step, what is put back is read again, *)
(* and a step's answer is about the record the step sent.                          *)

\* A session over the files d.
SessionOK(x, d) ==
  /\ IsSession(x)
  /\ x.on \in BOOLEAN /\ x.files \subseteq Minutes /\ x.roff \in Nat /\ x.waitR \in Seq(Writes)
  /\ x.wfile \in Minutes \cup {0} /\ x.wtime \in Minutes \cup {0}
  /\ x.rfile # 0 => x.rfile \in x.files /\ x.rfile \in DOMAIN d /\ x.roff <= Len(d[x.rfile])
  /\ ~x.on => x = NoSession

DiskOK(d) == DOMAIN d \subseteq Minutes /\ \A f \in DOMAIN d : d[f] \in Seq(Writes)

StepsOK == steps \in [StepIds -> {NoStep} \cup [on : {TRUE}, rec : Writes, to : 0 .. TimeOutMax]]

\* A message of a step is about its record, and is the only one; what it says is true.
WireOK ==
  /\ wire \subseteq [s : StepIds \cup {0}, rec : Writes, st : {"req", "ok", "err", "net", "bad"}]
  /\ \A m \in wire : m.s # 0 => /\ steps[m.s].on /\ steps[m.s].rec = m.rec
                                /\ m.st = "ok" => applied[m.rec] > 0
  /\ \A m, q \in wire : m.s = q.s /\ m.s # 0 => m = q

\* Where a write can be: in the part of a file not read so far, put back, in a step.
Waiting(x, d, w) ==
  \E f \in DOMAIN d : \E k \in 1 .. Len(d[f]) : d[f][k] = w /\ (f = x.rfile => k > x.roff)
Back(x, w) == \E k \in 1 .. Len(x.waitR) : x.waitR[k] = w
InStep(w) == \E i \in StepIds : steps[i].on /\ steps[i].rec = w

Accounted(w) == applied[w] > 0 \/ Waiting(session, disk, w) \/ Back(session, w) \/ InStep(w)

KInv == /\ now \in Minutes /\ SessionOK(session, disk) /\ DiskOK(disk) /\ StepsOK /\ WireOK
        /\ applied \in [Writes -> Nat] /\ stored \subseteq Writes
        /\ \A w \in stored \ (refused \cup given) : Accounted(w)

LEMMA MinuteFacts == Minutes \subseteq Nat \ {0} /\ 2 \in Minutes
BY DbSyncAssumption DEF Minutes

LEMMA NewOK ==
  ASSUME NEW d
  PROVE  /\ SessionOK(NoSession, d) /\ SessionOK(SessionNew, d) /\ SessionNew.on /\ ~ NoSession.on
         /\ NoSession.waitR = <<>> /\ SessionNew.waitR = <<>> /\ NoSession.rfile = 0 /\ SessionNew.rfile = 0
<1>1. /\ SessionNew = [on |-> TRUE, files |-> {}, wfile |-> 0, wtime |-> 0, wgone |-> FALSE,
                       rfile |-> 0, roff |-> 0, waitR |-> <<>>, sending |-> 0]
  <2>1. PICK x : x = SessionNew
    BY Zenon
  <2>2. x = [on |-> TRUE, files |-> {}, wfile |-> 0, wtime |-> 0, wgone |-> FALSE,
             rfile |-> 0, roff |-> 0, waitR |-> <<>>, sending |-> 0]
    BY Zenon, <2>1 DEF SessionNew, NoSession
  <2> QED BY Zenon, <2>1, <2>2
<1>2. IsSession(NoSession) /\ IsSession(SessionNew)
  BY Zenon, <1>1 DEF IsSession, Fields, NoSession
<1> QED BY <1>1, <1>2 DEF SessionOK, NoSession

\* What GetSyncData comes to: nothing is lost but the record it hands out.
Fetched(x, g) ==
  /\ DiskOK(g.d) /\ SessionOK(g.s, g.d) /\ g.s.on = x.on
  /\ g.got = <<>> \/ \E w \in Writes : g.got = <<w>> /\ g.s.sending = Size[w] /\ g.s.on
  /\ \A w : Waiting(x, disk, w) \/ Back(x, w) => Waiting(g.s, g.d, w) \/ Back(g.s, w) \/ g.got = <<w>>

LEMMA ReadOnKeeps ==
  ASSUME DiskOK(disk), NEW x, SessionOK(x, disk), x.rfile # 0
  PROVE  Fetched(x, ReadOn(x))
<1> DEFINE g == ReadOn(x)
           y == g.s
<1>0. IsSession(x)
  BY Zenon DEF SessionOK
<1>1. /\ x.on = TRUE /\ x.waitR \in Seq(Writes) /\ x.roff \in Nat /\ x.rfile \in DOMAIN disk
      /\ x.roff <= Len(disk[x.rfile]) /\ disk[x.rfile] \in Seq(Writes) /\ x.rfile \in Minutes
  BY Zenon, NewOK DEF SessionOK, DiskOK
<1>2. CASE x.waitR # <<>>
  <2> DEFINE h == Head(x.waitR)
             t == Tail(x.waitR)
  <2>1. h \in Writes /\ t \in Seq(Writes) /\ Len(t) = Len(x.waitR) - 1 /\ Len(x.waitR) \in Nat
        /\ \A k \in 1 .. Len(x.waitR) : x.waitR[k] = h \/ (k - 1 \in 1 .. Len(t) /\ t[k - 1] = x.waitR[k])
    BY <1>1, <1>2
  <2>2. g = Taken([x EXCEPT !.waitR = t], h)
    BY Zenon, <1>2 DEF ReadOn
  <2>3. /\ y = [[x EXCEPT !.waitR = t] EXCEPT !.sending = Size[h]] /\ g.d = disk /\ g.got = <<h>>
    BY <2>2 DEF Taken
  <2> HIDE DEF g, h, t, y
  <2>4. /\ IsSession(y) /\ y.on = x.on /\ y.files = x.files /\ y.wfile = x.wfile /\ y.wtime = x.wtime
        /\ y.rfile = x.rfile /\ y.roff = x.roff /\ y.waitR = t /\ y.sending = Size[h]
    BY Zenon, <1>0, <2>3 DEF IsSession, Fields
  <2>5. SessionOK(y, disk)
    BY Zenon, <1>0, <1>1, <2>1, <2>4 DEF SessionOK
  <2>6. \A w : Waiting(x, disk, w) => Waiting(y, disk, w)
    BY Zenon, <2>4 DEF Waiting
  <2>7. \A w : Back(x, w) => Back(y, w) \/ w = h
    BY Zenon, <2>1, <2>4 DEF Back
  <2> QED BY Zenon, <1>1, <2>1, <2>3, <2>4, <2>5, <2>6, <2>7 DEF Fetched, y, g
<1>3. CASE x.waitR = <<>> /\ x.roff < Len(disk[x.rfile])
  <2> DEFINE h == disk[x.rfile][x.roff + 1]
  <2>1. h \in Writes /\ x.roff + 1 \in Nat /\ x.roff + 1 <= Len(disk[x.rfile])
    BY <1>1, <1>3
  <2>2. g = Taken([x EXCEPT !.roff = x.roff + 1], h)
    BY Zenon, <1>3 DEF ReadOn
  <2>3. /\ y = [[x EXCEPT !.roff = x.roff + 1] EXCEPT !.sending = Size[h]] /\ g.d = disk /\ g.got = <<h>>
    BY <2>2 DEF Taken
  <2> HIDE DEF g, y
  <2>4. /\ IsSession(y) /\ y.on = x.on /\ y.files = x.files /\ y.wfile = x.wfile /\ y.wtime = x.wtime
        /\ y.rfile = x.rfile /\ y.roff = x.roff + 1 /\ y.waitR = x.waitR /\ y.sending = Size[h]
    BY Zenon, <1>0, <2>3 DEF IsSession, Fields
  <2> HIDE DEF h
  <2>5. SessionOK(y, disk)
    BY Zenon, <1>0, <1>1, <2>1, <2>4 DEF SessionOK
  <2>6. ASSUME NEW w, Waiting(x, disk, w)
        PROVE  Waiting(y, disk, w) \/ w = h
    <3>0. PICK f \in DOMAIN disk :
            \E k \in 1 .. Len(disk[f]) : disk[f][k] = w /\ (f = x.rfile => k > x.roff)
      BY Zenon, <2>6 DEF Waiting
    <3>1. PICK k \in 1 .. Len(disk[f]) : disk[f][k] = w /\ (f = x.rfile => k > x.roff)
      BY Zenon, <3>0
    <3>2. CASE f = x.rfile /\ k = x.roff + 1
      BY Zenon, <3>1, <3>2 DEF h
    <3>3. CASE ~ (f = x.rfile /\ k = x.roff + 1)
      <4>1. f = y.rfile => k > y.roff
        BY <1>1, <2>4, <3>1, <3>3
      <4> QED BY Zenon, <3>1, <4>1 DEF Waiting
    <3> QED BY Zenon, <3>2, <3>3
  <2>7. \A w : Back(x, w) => Back(y, w)
    BY Zenon, <2>4 DEF Back
  <2> QED BY Zenon, <1>1, <2>1, <2>3, <2>4, <2>5, <2>6, <2>7 DEF Fetched, y, g
<1>4. CASE x.waitR = <<>> /\ ~ (x.roff < Len(disk[x.rfile]))
  <2> DEFINE d == Restrict(disk, DOMAIN disk \ {x.rfile})
  <2>1. /\ y = [x EXCEPT !.files = @ \ {x.rfile}, !.rfile = 0, !.wgone = x.wgone \/ x.rfile = x.wfile]
        /\ g.d = d /\ g.got = <<>>
    BY Zenon, <1>4 DEF ReadOn
  <2> HIDE DEF g, y
  <2>2. /\ IsSession(y) /\ y.on = x.on /\ y.files = x.files \ {x.rfile} /\ y.wfile = x.wfile /\ y.wtime = x.wtime
        /\ y.rfile = 0 /\ y.roff = x.roff /\ y.waitR = x.waitR
    BY Zenon, <1>0, <2>1 DEF IsSession, Fields
  <2>3. DOMAIN d = DOMAIN disk \ {x.rfile} /\ \A f \in DOMAIN d : d[f] = disk[f]
    BY Zenon DEF Restrict
  <2> HIDE DEF d
  <2>4. SessionOK(y, d) /\ DiskOK(d)
    BY Zenon, <1>0, <1>1, <2>2, <2>3 DEF SessionOK, DiskOK
  <2>5. ASSUME NEW w, Waiting(x, disk, w)
        PROVE  Waiting(y, d, w)
    <3>0. PICK f \in DOMAIN disk :
            \E k \in 1 .. Len(disk[f]) : disk[f][k] = w /\ (f = x.rfile => k > x.roff)
      BY Zenon, <2>5 DEF Waiting
    <3>1. PICK k \in 1 .. Len(disk[f]) : disk[f][k] = w /\ (f = x.rfile => k > x.roff)
      BY Zenon, <3>0
    <3>2. f # x.rfile
      BY <1>1, <1>4, <3>1
    <3>3. f \in DOMAIN d /\ d[f] = disk[f] /\ f # y.rfile
      BY Zenon, <2>2, <2>3, <3>2, MinuteFacts DEF DiskOK
    <3> QED BY Zenon, <3>1, <3>3 DEF Waiting
  <2>6. \A w : Back(x, w) => Back(y, w)
    BY Zenon, <2>2 DEF Back
  <2> QED BY Zenon, <1>1, <2>1, <2>2, <2>4, <2>5, <2>6 DEF Fetched, y, g
<1> QED BY Zenon, <1>2, <1>3, <1>4

\* GetSyncData: a file that is opened is unread.
LEMMA GetSyncDataKeeps ==
  ASSUME DiskOK(disk), NEW x, SessionOK(x, disk)
  PROVE  Fetched(x, GetSyncData(x))
<1>0. IsSession(x)
  BY Zenon DEF SessionOK
<1>1. CASE x.rfile # 0
  BY Zenon, <1>1, ReadOnKeeps DEF GetSyncData
<1>2. CASE x.rfile = 0 /\ (x.files = {} \/ Min(x.files) = x.wfile)
  BY Zenon, <1>2 DEF GetSyncData, Nothing, Fetched
<1>3. CASE x.rfile = 0 /\ x.files # {} /\ Min(x.files) # x.wfile /\ Min(x.files) \notin DOMAIN disk
  <2> DEFINE y == [x EXCEPT !.files = x.files \ {Min(x.files)}]
             g == GetSyncData(x)
  <2>1. g.s = y /\ g.d = disk /\ g.got = <<>>
    BY Zenon, <1>3 DEF GetSyncData, Nothing
  <2>2. /\ IsSession(y) /\ y.on = x.on /\ y.files = x.files \ {Min(x.files)} /\ y.wfile = x.wfile
        /\ y.wtime = x.wtime /\ y.rfile = x.rfile /\ y.roff = x.roff /\ y.waitR = x.waitR
    BY Zenon, <1>0 DEF IsSession, Fields
  <2> HIDE DEF y
  <2>3. x.on = TRUE
    BY <1>3 DEF SessionOK, NoSession
  <2>4. SessionOK(y, disk)
    BY Zenon, <1>3, <2>2, <2>3 DEF SessionOK
  <2>5. \A w : Waiting(x, disk, w) \/ Back(x, w) => Waiting(y, disk, w) \/ Back(y, w)
    BY Zenon, <2>2 DEF Waiting, Back
  <2> HIDE DEF g
  <2> QED BY Zenon, <2>1, <2>2, <2>4, <2>5 DEF Fetched, g
<1>4. CASE x.rfile = 0 /\ x.files # {} /\ Min(x.files) # x.wfile /\ Min(x.files) \in DOMAIN disk
  <2> DEFINE f == Min(x.files)
             y == Opened(x, f)
             g == GetSyncData(x)
  <2>1. f \in x.files /\ f \in Minutes
    <3>1. x.files \in SUBSET Nat /\ x.files \subseteq Minutes
      BY Zenon, MinuteFacts DEF SessionOK
    <3> QED BY Zenon, <1>4, <3>1, LeastFile
  <2>2. g = ReadOn(y) /\ f \in DOMAIN disk
    BY Zenon, <1>4 DEF GetSyncData
  <2> HIDE DEF f
  <2>3. /\ IsSession(y) /\ y.on = x.on /\ y.files = x.files /\ y.wfile = x.wfile
        /\ y.wtime = x.wtime /\ y.rfile = f /\ y.roff = 0 /\ y.waitR = x.waitR
    BY Zenon, <1>0 DEF IsSession, Fields, Opened
  <2> HIDE DEF y
  <2>4. x.on = TRUE /\ f # 0 /\ disk[f] \in Seq(Writes)
    BY <1>4, <2>1, <2>2, MinuteFacts DEF SessionOK, NoSession, DiskOK
  <2>5. SessionOK(y, disk)
    <3>1. 0 <= Len(disk[f])
      BY <2>4
    <3> QED BY <2>1, <2>2, <2>3, <2>4, <3>1 DEF SessionOK
  <2>6. Fetched(y, g)
    BY Zenon, <2>2, <2>3, <2>4, <2>5, ReadOnKeeps
  <2>7. \A w : Waiting(x, disk, w) \/ Back(x, w) => Waiting(y, disk, w) \/ Back(y, w)
    <3>1. \A e \in DOMAIN disk : \A k \in 1 .. Len(disk[e]) : k > 0
      OBVIOUS
    <3> QED BY Zenon, <2>3, <3>1 DEF Waiting, Back
  <2> HIDE DEF g
  <2> QED BY Zenon, <2>3, <2>6, <2>7 DEF Fetched, g
<1> QED BY Zenon, <1>1, <1>2, <1>3, <1>4

\* CheckWritingFile, ScanSyncData and the like leave what is read alone.
LEMMA SameReading ==
  ASSUME NEW x, NEW y, NEW d, y.rfile = x.rfile, y.roff = x.roff, y.waitR = x.waitR
  PROVE  \A w : (Waiting(x, d, w) <=> Waiting(y, d, w)) /\ (Back(x, w) <=> Back(y, w))
BY Zenon DEF Waiting, Back

LEMMA CheckWritingFileKeeps ==
  ASSUME SessionOK(session, disk), session.on, NEW x \in CheckWritingFile(session)
  PROVE  /\ SessionOK(x, disk) /\ x.on
         /\ \A w : (Waiting(session, disk, w) => Waiting(x, disk, w)) /\ (Back(session, w) => Back(x, w))
<1>1. x = session \/ x = Closed(session)
  BY Zenon DEF CheckWritingFile
<1>2. CASE x = session
  BY Zenon, <1>2
<1>3. CASE x = Closed(session)
  <2>0. IsSession(session)
    BY Zenon DEF SessionOK
  <2>1. x = [session EXCEPT !.wfile = 0, !.wgone = FALSE]
    BY Zenon, <1>3 DEF Closed
  <2>2. /\ IsSession(x) /\ x.on = session.on /\ x.files = session.files /\ x.wfile = 0
        /\ x.wtime = session.wtime /\ x.rfile = session.rfile /\ x.roff = session.roff /\ x.waitR = session.waitR
    BY Zenon, <2>0, <2>1 DEF IsSession, Fields
  <2>3. SessionOK(x, disk)
    BY Zenon, <2>2 DEF SessionOK
  <2> QED BY Zenon, <2>2, <2>3, SameReading
<1> QED BY Zenon, <1>1, <1>2, <1>3

\* GoBack puts the record last read back.
LEMMA GoBackKeeps ==
  ASSUME NEW x, NEW d, SessionOK(x, d), NEW v \in Writes
  PROVE  /\ SessionOK(GoBack(x, v), d)
         /\ \A w : (Waiting(x, d, w) => Waiting(GoBack(x, v), d, w)) /\ (Back(x, w) => Back(GoBack(x, v), w))
         /\ x.on /\ x.sending = Size[v] => Back(GoBack(x, v), v)
<1> DEFINE y == GoBack(x, v)
<1>0. IsSession(x) /\ x.waitR \in Seq(Writes)
  BY Zenon DEF SessionOK
<1>1. CASE x.on /\ x.sending = Size[v]
  <2> DEFINE q == Append(x.waitR, v)
  <2>1. /\ q \in Seq(Writes) /\ Len(q) = Len(x.waitR) + 1 /\ Len(x.waitR) \in Nat /\ q[Len(x.waitR) + 1] = v
        /\ \A k \in 1 .. Len(x.waitR) : q[k] = x.waitR[k]
    BY <1>0
  <2>2. y = [x EXCEPT !.waitR = q]
    BY Zenon, <1>1 DEF GoBack
  <2> HIDE DEF y, q
  <2>3. /\ IsSession(y) /\ y.on = x.on /\ y.files = x.files /\ y.wfile = x.wfile /\ y.wtime = x.wtime
        /\ y.rfile = x.rfile /\ y.roff = x.roff /\ y.waitR = q
    BY Zenon, <1>0, <2>2 DEF IsSession, Fields
  <2>4. SessionOK(y, d)
    BY Zenon, <1>1, <2>1, <2>3 DEF SessionOK
  <2>5. \A w : (Waiting(x, d, w) => Waiting(y, d, w)) /\ (Back(x, w) => Back(y, w))
    BY <2>1, <2>3 DEF Waiting, Back
  <2>6. Back(y, v)
    <3>1. Len(x.waitR) + 1 \in 1 .. Len(q)
      BY <2>1
    <3> QED BY Zenon, <2>1, <2>3, <3>1 DEF Back
  <2> QED BY Zenon, <2>4, <2>5, <2>6 DEF y
<1>2. CASE ~ (x.on /\ x.sending = Size[v])
  <2>1. y = x
    BY Zenon, <1>2 DEF GoBack
  <2> QED BY Zenon, <1>2, <2>1
<1> QED BY Zenon, <1>1, <1>2

\* SyncData: nothing is lost, and a record it took is in the file unless that was unlinked.
LEMMA SyncDataKeeps ==
  ASSUME now \in Minutes, DiskOK(disk), NEW x, SessionOK(x, disk), x.on, NEW w \in Writes,
         NEW o \in SyncData(x, w)
  PROVE  /\ DiskOK(o.d) /\ SessionOK(o.s, o.d) /\ o.s.on
         /\ \A v : (Waiting(x, disk, v) => Waiting(o.s, o.d, v)) /\ (Back(x, v) => Back(o.s, v))
         /\ o.ok /\ ~ o.s.wgone => Waiting(o.s, o.d, w)
<1> DEFINE y == IF x.wfile = now THEN x ELSE [Closed(x) EXCEPT !.wfile = now]
           z == [y EXCEPT !.files = @ \cup {now}, !.wtime = now]
           had == IF now \in DOMAIN disk THEN disk[now] ELSE <<>>
           Same(s) == /\ IsSession(s) /\ s.on = x.on /\ s.wfile \in Minutes \cup {0} /\ s.rfile = x.rfile
                      /\ s.roff = x.roff /\ s.waitR = x.waitR /\ s.files \in {x.files, x.files \cup {now}}
                      /\ s.wtime \in {x.wtime, now}
<1>0. IsSession(x)
  BY Zenon DEF SessionOK
<1>1. Same(Closed(x))
  <2>1. PICK c : c = Closed(x)
    BY Zenon
  <2>2. /\ IsSession(c) /\ c.on = x.on /\ c.wfile = 0 /\ c.rfile = x.rfile /\ c.roff = x.roff
        /\ c.waitR = x.waitR /\ c.files = x.files /\ c.wtime = x.wtime
    BY Zenon, <1>0, <2>1 DEF IsSession, Fields, Closed
  <2> QED BY Zenon, <2>1, <2>2
<1>2. Same(y)
  <2>1. CASE x.wfile = now
    BY Zenon, <1>0, <2>1
  <2>2. CASE x.wfile # now
    <3>1. y = [Closed(x) EXCEPT !.wfile = now]
      BY Zenon, <2>2
    <3>2. PICK c : c = Closed(x)
      BY Zenon
    <3>3. y = [c EXCEPT !.wfile = now] /\ Same(c)
      BY Zenon, <1>1, <3>1, <3>2
    <3>4. IsSession(c)
      BY Zenon, <3>3
    <3> HIDE DEF y
    <3>5. /\ IsSession(y) /\ y.on = c.on /\ y.wfile = now /\ y.rfile = c.rfile /\ y.roff = c.roff
          /\ y.waitR = c.waitR /\ y.files = c.files /\ y.wtime = c.wtime
      BY Zenon, <3>3, <3>4 DEF IsSession, Fields
    <3> QED BY Zenon, <3>3, <3>5
  <2> QED BY Zenon, <2>1, <2>2
<1> HIDE DEF y
<1>3. Same(z) /\ z.wgone = y.wgone
  <2>1. IsSession(y) /\ y.files \in {x.files, x.files \cup {now}}
    BY Zenon, <1>2
  <2>2. /\ IsSession(z) /\ z.on = y.on /\ z.wfile = y.wfile /\ z.rfile = y.rfile /\ z.roff = y.roff
        /\ z.waitR = y.waitR /\ z.files = y.files \cup {now} /\ z.wtime = now /\ z.wgone = y.wgone
    BY Zenon, <2>1 DEF IsSession, Fields
  <2> HIDE DEF z
  <2>3. z.files = x.files \cup {now}
    BY Zenon, <2>1, <2>2
  <2> QED BY Zenon, <1>2, <2>2, <2>3
<1>4. had \in Seq(Writes) /\ Append(had, w) \in Seq(Writes)
  BY DEF DiskOK
<1>5. \/ o.s = y /\ ~ o.ok /\ (o.d = disk \/ o.d = WithFile(now, had))
      \/ o.s = z /\ o.d = IF y.wgone THEN disk ELSE WithFile(now, Append(had, w))
      \/ o.s = Closed(x) /\ o.d = disk /\ ~ o.ok
  BY DEF SyncData, y
<1> HIDE DEF z
<1>6. Same(o.s)
  BY Zenon, <1>1, <1>2, <1>3, <1>5
<1>7. ASSUME NEW c \in Seq(Writes), c = had \/ c = Append(had, w)
      PROVE  /\ DiskOK(WithFile(now, c)) /\ DOMAIN disk \subseteq DOMAIN WithFile(now, c)
             /\ now \in DOMAIN WithFile(now, c) /\ WithFile(now, c)[now] = c
             /\ \A f \in DOMAIN disk : /\ Len(disk[f]) <= Len(WithFile(now, c)[f])
                                       /\ \A k \in 1 .. Len(disk[f]) : WithFile(now, c)[f][k] = disk[f][k]
  <2> DEFINE d == WithFile(now, c)
  <2>1. DOMAIN d = DOMAIN disk \cup {now} /\ d[now] = c /\ \A f \in DOMAIN disk : f # now => d[f] = disk[f]
    BY Zenon DEF WithFile
  <2> HIDE DEF d
  <2>2. DiskOK(d)
    BY Zenon, <1>7, <2>1 DEF DiskOK
  <2>3. Len(had) <= Len(c) /\ \A k \in 1 .. Len(had) : c[k] = had[k]
    <3>1. CASE c = had
      BY <1>4, <3>1
    <3>2. CASE c = Append(had, w)
      <4> HIDE DEF had
      <4> QED BY <1>4, <3>2
    <3> QED BY Zenon, <1>7, <3>1, <3>2
  <2>4. ASSUME NEW f \in DOMAIN disk
        PROVE  Len(disk[f]) <= Len(d[f]) /\ \A k \in 1 .. Len(disk[f]) : d[f][k] = disk[f][k]
    <3>1. disk[f] \in Seq(Writes)
      BY Zenon DEF DiskOK
    <3>2. CASE f = now
      BY Zenon, <2>1, <2>3, <3>2
    <3>3. CASE f # now
      BY <2>1, <3>1, <3>3
    <3> QED BY Zenon, <3>2, <3>3
  <2> QED BY Zenon, <2>1, <2>2, <2>4 DEF d
<1>8. /\ DiskOK(o.d) /\ DOMAIN disk \subseteq DOMAIN o.d
      /\ \A f \in DOMAIN disk : /\ Len(disk[f]) <= Len(o.d[f])
                                /\ \A k \in 1 .. Len(disk[f]) : o.d[f][k] = disk[f][k]
  <2>1. CASE o.d = disk
    <3>1. \A f \in DOMAIN disk : Len(disk[f]) <= Len(disk[f])
      BY DEF DiskOK
    <3> QED BY Zenon, <2>1, <3>1
  <2> HIDE DEF had
  <2>2. CASE o.d = WithFile(now, had)
    <3>1. PICK c \in Seq(Writes) : c = had
      BY Zenon, <1>4
    <3> QED BY <1>7, <2>2, <3>1
  <2>3. CASE o.d = WithFile(now, Append(had, w))
    <3>1. PICK c \in Seq(Writes) : c = Append(had, w)
      BY Zenon, <1>4
    <3>2. o.d = WithFile(now, c) /\ (c = had \/ c = Append(had, w))
      BY Zenon, <2>3, <3>1
    <3> QED BY <1>7, <3>2
  <2> QED BY Zenon, <1>5, <2>1, <2>2, <2>3
<1>9. SessionOK(o.s, o.d) /\ o.s.on
  <2>1. x.rfile # 0 => x.rfile \in x.files /\ x.rfile \in DOMAIN o.d /\ x.roff <= Len(o.d[x.rfile])
    <3> SUFFICES ASSUME x.rfile # 0
                 PROVE  x.rfile \in x.files /\ x.rfile \in DOMAIN o.d /\ x.roff <= Len(o.d[x.rfile])
      BY Zenon
    <3>1. /\ x.rfile \in x.files /\ x.rfile \in DOMAIN disk /\ x.roff <= Len(disk[x.rfile]) /\ x.roff \in Nat
          /\ Len(disk[x.rfile]) \in Nat
      BY DEF SessionOK, DiskOK
    <3>2. x.rfile \in DOMAIN o.d /\ Len(disk[x.rfile]) <= Len(o.d[x.rfile]) /\ Len(o.d[x.rfile]) \in Nat
      BY <1>8, <3>1 DEF DiskOK
    <3> QED BY <3>1, <3>2
  <2> QED BY Zenon, <1>6, <2>1 DEF SessionOK
<1>10. ASSUME NEW v, Waiting(x, disk, v)
       PROVE  Waiting(o.s, o.d, v)
  <2>1. PICK f \in DOMAIN disk : \E k \in 1 .. Len(disk[f]) : disk[f][k] = v /\ (f = x.rfile => k > x.roff)
    BY Zenon, <1>10 DEF Waiting
  <2>2. PICK k \in 1 .. Len(disk[f]) : disk[f][k] = v /\ (f = x.rfile => k > x.roff)
    BY Zenon, <2>1
  <2>3. f \in DOMAIN o.d /\ k \in 1 .. Len(o.d[f]) /\ o.d[f][k] = v
    <3>1. Len(disk[f]) \in Nat /\ Len(o.d[f]) \in Nat
      BY <1>8 DEF DiskOK
    <3> QED BY <1>8, <2>2, <3>1
  <2> QED BY Zenon, <1>6, <2>2, <2>3 DEF Waiting
<1>11. \A v : Back(x, v) => Back(o.s, v)
  BY Zenon, <1>6 DEF Back
<1>12. ASSUME o.ok, ~ o.s.wgone
       PROVE  Waiting(o.s, o.d, w)
  <2> DEFINE c == Append(had, w)
             n == Len(had) + 1
  <2>1. o.s = z /\ ~ y.wgone /\ o.d = WithFile(now, c)
    BY Zenon, <1>3, <1>5, <1>12
  <2>2. now \in DOMAIN o.d /\ o.d[now] = c
    BY Zenon, <1>4, <1>7, <2>1
  <2>3. Len(had) \in Nat /\ n \in 1 .. Len(c) /\ c[n] = w
    <3> HIDE DEF had
    <3> QED BY <1>4
  <2>4. now = x.rfile => n > x.roff
    <3>1. now # 0
      BY Zenon, MinuteFacts
    <3>2. now = x.rfile => x.roff <= Len(had) /\ x.roff \in Nat
      BY Zenon, <3>1 DEF SessionOK
    <3> QED BY <2>3, <3>2
  <2> QED BY Zenon, <1>6, <2>2, <2>3, <2>4 DEF Waiting
<1> QED BY Zenon, <1>8, <1>9, <1>10, <1>11, <1>12

\* Store as a step of the invariant: the wires, the steps and what was applied are others' part.
LEMMA StoreKeeps ==
  ASSUME KInv, NEW w \in Writes, NEW scan \in BOOLEAN, Store(w, scan),
         UNCHANGED <<steps, applied, refused>>
  PROVE  /\ SessionOK(session', disk') /\ DiskOK(disk') /\ stored' \subseteq Writes
         /\ \A v \in stored' \ (refused' \cup given') : Accounted(v)'
<1> DEFINE x == GetSessionSyncDbData
<1>1. /\ now \in Minutes /\ SessionOK(session, disk) /\ DiskOK(disk) /\ stored \subseteq Writes
      /\ \A v \in stored \ (refused \cup given) : Accounted(v)
  BY Zenon DEF KInv
<1>2. /\ SessionOK(x, disk) /\ x.on
      /\ \A v : (Waiting(session, disk, v) => Waiting(x, disk, v)) /\ (Back(session, v) => Back(x, v))
  <2>1. CASE session.on
    <3>1. x = session
      BY Zenon, <2>1 DEF GetSessionSyncDbData
    <3> QED BY Zenon, <1>1, <2>1, <3>1
  <2>2. CASE ~ session.on
    <3>1. x = SessionNew /\ session = NoSession
      BY Zenon, <1>1, <2>2 DEF GetSessionSyncDbData, SessionOK
    <3>2. \A v : Waiting(NoSession, disk, v) => Waiting(SessionNew, disk, v)
      <4>1. \A f \in DOMAIN disk : f # 0
        BY Zenon, <1>1, MinuteFacts DEF DiskOK
      <4> QED BY Zenon, <4>1, NewOK DEF Waiting
    <3>3. \A v : ~ Back(NoSession, v)
      BY NewOK DEF Back
    <3> QED BY Zenon, <3>1, <3>2, <3>3, NewOK
  <2> QED BY Zenon, <2>1, <2>2
<1> HIDE DEF x
<1>3. PICK o \in SyncData(x, w) :
        /\ disk' = o.d
        /\ session' = IF o.ok /\ scan THEN ScanSyncData(o.s, o.d) ELSE o.s
        /\ stored' = IF o.ok THEN stored \cup {w} ELSE stored
        /\ given' = IF o.ok /\ o.s.wgone THEN given \cup {w} ELSE given
  BY Zenon DEF Store, x
<1>4. /\ DiskOK(o.d) /\ SessionOK(o.s, o.d) /\ o.s.on
      /\ \A v : (Waiting(x, disk, v) => Waiting(o.s, o.d, v)) /\ (Back(x, v) => Back(o.s, v))
      /\ o.ok /\ ~ o.s.wgone => Waiting(o.s, o.d, w)
  BY Zenon, <1>1, <1>2, SyncDataKeeps
<1>5. /\ SessionOK(session', disk') /\ session'.rfile = o.s.rfile /\ session'.roff = o.s.roff
      /\ session'.waitR = o.s.waitR
  <2>1. CASE o.ok /\ scan
    <3>1. session' = [o.s EXCEPT !.files = @ \cup DOMAIN o.d]
      BY Zenon, <1>3, <2>1 DEF ScanSyncData
    <3>2. PICK s : s = o.s
      BY Zenon
    <3>3. PICK y : y = session'
      BY Zenon
    <3>4. IsSession(s) /\ y = [s EXCEPT !.files = @ \cup DOMAIN o.d]
      BY Zenon, <1>4, <3>1, <3>2, <3>3 DEF SessionOK
    <3>5. /\ IsSession(y) /\ y.on = s.on /\ y.files = s.files \cup DOMAIN o.d /\ y.wfile = s.wfile
          /\ y.wtime = s.wtime /\ y.rfile = s.rfile /\ y.roff = s.roff /\ y.waitR = s.waitR
      BY Zenon, <3>4 DEF IsSession, Fields
    <3>6. SessionOK(s, o.d) /\ s.on /\ DOMAIN o.d \subseteq Minutes
      BY Zenon, <1>4, <3>2 DEF DiskOK
    <3>7. SessionOK(y, o.d)
      BY Zenon, <3>5, <3>6 DEF SessionOK
    <3> QED BY Zenon, <1>3, <3>2, <3>3, <3>5, <3>7
  <2>2. CASE ~ (o.ok /\ scan)
    BY Zenon, <1>3, <1>4, <2>2
  <2> QED BY Zenon, <2>1, <2>2
<1>6. \A v : (Waiting(session, disk, v) => Waiting(session', disk', v)) /\ (Back(session, v) => Back(session', v))
  <2>1. \A v : (Waiting(o.s, o.d, v) => Waiting(session', o.d, v)) /\ (Back(o.s, v) => Back(session', v))
    BY Zenon, <1>5, SameReading
  <2> QED BY Zenon, <1>2, <1>3, <1>4, <2>1
<1>7. \A v : InStep(v) => InStep(v)'
  BY Zenon DEF InStep
<1>8. ASSUME NEW v \in stored' \ (refused' \cup given')
      PROVE  Accounted(v)'
  <2>1. CASE v \in stored
    <3>1. Accounted(v)
      BY Zenon, <1>1, <1>3, <1>8, <2>1
    <3> QED BY Zenon, <1>6, <1>7, <3>1 DEF Accounted, Waiting, Back
  <2>2. CASE v \notin stored
    <3>1. v = w /\ o.ok /\ ~ o.s.wgone
      BY Zenon, <1>3, <1>8, <2>2
    <3>2. Waiting(session', disk', v)
      <4>1. Waiting(o.s, o.d, v)
        BY Zenon, <1>4, <3>1
      <4> QED BY Zenon, <1>3, <1>5, <4>1, SameReading
    <3> QED BY Zenon, <3>2 DEF Accounted, Waiting
  <2> QED BY Zenon, <2>1, <2>2
<1>9. stored' \subseteq Writes
  BY Zenon, <1>1, <1>3
<1> QED BY Zenon, <1>3, <1>4, <1>5, <1>8, <1>9

LEMMA DbWriteKInv ==
  ASSUME KInv, NEW w \in Writes, DbWrite(w) \/ DbCallback(w)
  PROVE  KInv'
<1>1. /\ UNCHANGED <<now, steps, applied, refused>>
      /\ \/ UNCHANGED <<disk, session, stored, given>>
         \/ \E scan \in BOOLEAN : Store(w, scan)
  BY Zenon DEF DbWrite, DbCallback
<1>2. /\ SessionOK(session', disk') /\ DiskOK(disk') /\ stored' \subseteq Writes
      /\ \A v \in stored' \ (refused' \cup given') : Accounted(v)'
  <2>1. CASE UNCHANGED <<disk, session, stored, given>>
    <3>1. UNCHANGED <<steps, applied, refused, disk, session, stored, given>>
      BY Zenon, <1>1, <2>1
    <3> QED BY <3>1 DEF KInv, Accounted, Waiting, Back, InStep
  <2>2. CASE \E scan \in BOOLEAN : Store(w, scan)
    BY Zenon, <1>1, <2>2, StoreKeeps
  <2> QED BY Zenon, <1>1, <2>1, <2>2
<1>3. WireOK'
  <2>1. wire' = wire \cup {Msg(0, w, "req")} \/ wire' \subseteq wire
    BY Zenon DEF DbWrite, DbCallback
  <2>2. WireOK /\ UNCHANGED <<steps, applied>>
    BY Zenon, <1>1 DEF KInv
  <2>3. CASE wire' = wire \cup {Msg(0, w, "req")}
    <3>1. Msg(0, w, "req") \in [s : StepIds \cup {0}, rec : Writes, st : {"req", "ok", "err", "net", "bad"}]
          /\ Msg(0, w, "req").s = 0
      BY Zenon DEF Msg
    <3> QED BY Zenon, <2>2, <2>3, <3>1 DEF WireOK
  <2>4. CASE wire' \subseteq wire
    BY Zenon, <2>2, <2>4 DEF WireOK
  <2> QED BY Zenon, <2>1, <2>3, <2>4
<1>4. now' \in Minutes /\ StepsOK' /\ applied' \in [Writes -> Nat]
  BY Zenon, <1>1 DEF KInv, StepsOK
<1> QED BY Zenon, <1>2, <1>3, <1>4 DEF KInv

\* The step i, which has no message in rest, goes on with the record of g or ends.
LEMMA EmitKeeps ==
  ASSUME KInv, NEW i \in StepIds, NEW x, NEW g, Fetched(x, g), g.got # <<>>, NEW to \in 0 .. TimeOutMax,
         NEW rest, rest \subseteq wire, \A m \in rest : m.s # i, Emit(i, g, to, rest),
         applied' = applied
  PROVE  /\ SessionOK(session', disk') /\ DiskOK(disk') /\ StepsOK' /\ WireOK'
         /\ \A w : Waiting(x, disk, w) \/ Back(x, w) =>
              Waiting(session', disk', w) \/ Back(session', w) \/ InStep(w)'
         /\ \A j \in StepIds : j # i => steps'[j] = steps[j]
<1>1. PICK w \in Writes : g.got = <<w>> /\ g.s.sending = Size[w] /\ g.s.on
  BY Zenon DEF Fetched
<1>2. g.got[1] = w
  BY <1>1
<1>3. /\ DiskOK(g.d) /\ SessionOK(g.s, g.d)
      /\ \A v : Waiting(x, disk, v) \/ Back(x, v) => Waiting(g.s, g.d, v) \/ Back(g.s, v) \/ v = w
  <2>1. \A v : g.got = <<v>> => v = w
    BY <1>1
  <2> QED BY Zenon, <2>1 DEF Fetched
<1>4. StepsOK /\ WireOK /\ 0 \notin StepIds
  BY DEF KInv, StepIds
<1>5. disk' = g.d
  BY Zenon DEF Emit
<1>6. CASE /\ wire' = rest \cup {Msg(i, w, "req")}
           /\ steps' = [steps EXCEPT ![i] = [on |-> TRUE, rec |-> w, to |-> to]]
           /\ session' = g.s
  <2> DEFINE r == [on |-> TRUE, rec |-> w, to |-> to]
  <2>1. r \in [on : {TRUE}, rec : Writes, to : 0 .. TimeOutMax] /\ r.on /\ r.rec = w
    BY Zenon
  <2> HIDE DEF r
  <2>2. steps' = [steps EXCEPT ![i] = r]
    BY Zenon, <1>6 DEF r
  <2>3. StepsOK' /\ steps'[i] = r /\ \A j \in StepIds : j # i => steps'[j] = steps[j]
    BY Zenon, <1>4, <2>1, <2>2 DEF StepsOK
  <2>4. Msg(i, w, "req") \in [s : StepIds \cup {0}, rec : Writes, st : {"req", "ok", "err", "net", "bad"}]
        /\ Msg(i, w, "req").s = i /\ Msg(i, w, "req").rec = w /\ Msg(i, w, "req").st = "req"
    BY Zenon DEF Msg
  <2>5. PICK q : q = Msg(i, w, "req")
    BY Zenon
  <2>6. WireOK'
    <3>1. wire' = rest \cup {q}
      BY Zenon, <1>6, <2>5
    <3>2. /\ q \in [s : StepIds \cup {0}, rec : Writes, st : {"req", "ok", "err", "net", "bad"}]
          /\ q.s = i /\ q.rec = w /\ q.st = "req" /\ steps'[i].on /\ steps'[i].rec = w
      BY Zenon, <2>1, <2>3, <2>4, <2>5
    <3>3. wire' \subseteq [s : StepIds \cup {0}, rec : Writes, st : {"req", "ok", "err", "net", "bad"}]
      BY Zenon, <1>4, <3>1, <3>2 DEF WireOK
    <3>4. ASSUME NEW m \in wire', m.s # 0
          PROVE  steps'[m.s].on /\ steps'[m.s].rec = m.rec /\ (m.st = "ok" => applied'[m.rec] > 0)
      <4>1. CASE m = q
        BY Zenon, <3>2, <4>1
      <4>2. CASE m # q
        <5>1. m \in wire /\ m.s # i /\ m.s \in StepIds
          BY Zenon, <1>4, <3>1, <3>4, <4>2 DEF WireOK
        <5> QED BY Zenon, <1>4, <2>3, <3>4, <5>1 DEF WireOK
      <4> QED BY Zenon, <4>1, <4>2
    <3>5. \A m, n \in wire' : m.s = n.s /\ m.s # 0 => m = n
      BY Zenon, <1>4, <3>1, <3>2 DEF WireOK
    <3> QED BY Zenon, <3>3, <3>4, <3>5 DEF WireOK
  <2>7. InStep(w)'
    BY Zenon, <2>1, <2>3 DEF InStep
  <2> QED BY Zenon, <1>3, <1>5, <1>6, <2>3, <2>6, <2>7
<1>7. CASE /\ wire' = rest /\ steps' = [steps EXCEPT ![i] = NoStep]
           /\ session' = GoBack(g.s, w)
  <2>1. StepsOK' /\ \A j \in StepIds : j # i => steps'[j] = steps[j]
    BY Zenon, <1>4, <1>7 DEF StepsOK
  <2>2. WireOK'
    <3>1. \A m \in wire' : m \in wire /\ m.s # i
      BY Zenon, <1>7
    <3>2. \A m \in wire' : m.s # 0 => steps'[m.s] = steps[m.s]
      BY Zenon, <1>4, <2>1, <3>1 DEF WireOK
    <3> QED BY Zenon, <1>4, <3>1, <3>2 DEF WireOK
  <2>3. /\ SessionOK(session', g.d)
        /\ \A v : (Waiting(g.s, g.d, v) => Waiting(session', g.d, v)) /\ (Back(g.s, v) => Back(session', v))
        /\ Back(session', w)
    BY Zenon, <1>1, <1>3, <1>7, GoBackKeeps
  <2> QED BY Zenon, <1>3, <1>5, <2>1, <2>2, <2>3
<1> QED BY Zenon, <1>2, <1>6, <1>7 DEF Emit

LEMMA SessionTimeoutKInv ==
  ASSUME KInv, SessionTimeout
  PROVE  KInv'
<1>1. /\ session.on /\ UNCHANGED <<now, applied, stored, refused>>
  BY Zenon DEF SessionTimeout
<1>2. /\ now \in Minutes /\ SessionOK(session, disk) /\ DiskOK(disk) /\ StepsOK /\ WireOK
      /\ applied \in [Writes -> Nat] /\ stored \subseteq Writes
      /\ \A v \in stored \ (refused \cup given) : Accounted(v)
  BY Zenon DEF KInv
<1>3. CASE session.files = {}
  <2>1. /\ session' = NoSession /\ given' = given \cup Range(session.waitR)
        /\ UNCHANGED <<disk, steps, wire>>
    BY Zenon, <1>3 DEF SessionTimeout
  <2>2. SessionOK(session', disk') /\ StepsOK' /\ WireOK'
    BY Zenon, <1>1, <1>2, <2>1, NewOK DEF StepsOK, WireOK
  <2>3. ASSUME NEW v \in stored' \ (refused' \cup given')
        PROVE  Accounted(v)'
    <3>1. Accounted(v)
      BY Zenon, <1>1, <1>2, <2>1
    <3>2. ~ Back(session, v)
      <4>1. session.waitR \in Seq(Writes)
        BY Zenon, <1>2 DEF SessionOK
      <4>2. DOMAIN session.waitR = 1 .. Len(session.waitR)
        BY <4>1
      <4> QED BY Zenon, <2>1, <4>2 DEF Range, Back
    <3>3. Waiting(session, disk, v) => Waiting(session', disk', v)
      <4>1. \A f \in DOMAIN disk : f # 0
        BY Zenon, <1>2, MinuteFacts DEF DiskOK
      <4> QED BY Zenon, <2>1, <4>1, NewOK DEF Waiting
    <3>4. InStep(v) => InStep(v)'
      BY Zenon, <2>1 DEF InStep
    <3> QED BY Zenon, <1>1, <3>1, <3>2, <3>3, <3>4 DEF Accounted, Waiting
  <2> QED BY Zenon, <1>1, <1>2, <2>1, <2>2, <2>3 DEF KInv
<1>4. CASE session.files # {}
  <2>1. given' = given
    BY Zenon, <1>4 DEF SessionTimeout
  <2>2. PICK x \in CheckWritingFile(session) :
          LET g == IF agent THEN GetSyncData(x) ELSE Nothing(x)
              free == {i \in StepIds : ~steps[i].on}
          IN  IF g.got = <<>> THEN session' = g.s /\ disk' = g.d /\ UNCHANGED <<steps, wire>>
              ELSE free # {} /\ Emit(Min(free), g, 0, wire)
    BY Zenon, <1>4 DEF SessionTimeout
  <2> DEFINE g == IF agent THEN GetSyncData(x) ELSE Nothing(x)
             free == {i \in StepIds : ~steps[i].on}
  <2>3. /\ SessionOK(x, disk) /\ x.on
        /\ \A w : (Waiting(session, disk, w) => Waiting(x, disk, w)) /\ (Back(session, w) => Back(x, w))
    BY Zenon, <1>1, <1>2, CheckWritingFileKeeps
  <2>4. Fetched(x, g)
    <3>1. Fetched(x, Nothing(x))
      BY Zenon, <1>2, <2>3 DEF Fetched, Nothing
    <3> QED BY Zenon, <1>2, <2>3, <3>1, GetSyncDataKeeps
  <2>5. IF g.got = <<>> THEN session' = g.s /\ disk' = g.d /\ UNCHANGED <<steps, wire>>
        ELSE free # {} /\ Emit(Min(free), g, 0, wire)
    BY Zenon, <2>2
  <2> HIDE DEF g
  <2>6. CASE g.got = <<>>
    <3>1. session' = g.s /\ disk' = g.d /\ UNCHANGED <<steps, wire>>
      BY Zenon, <2>5, <2>6
    <3>2. SessionOK(session', disk') /\ DiskOK(disk') /\ StepsOK' /\ WireOK'
      BY Zenon, <1>1, <1>2, <2>4, <3>1 DEF Fetched, StepsOK, WireOK
    <3>3. ASSUME NEW v \in stored' \ (refused' \cup given')
          PROVE  Accounted(v)'
      <4>1. Accounted(v)
        BY Zenon, <1>1, <1>2, <2>1
      <4>2. \A w : <<>> # <<w>>
        BY Zenon
      <4>3. Waiting(session, disk, v) \/ Back(session, v) => Waiting(session', disk', v) \/ Back(session', v)
        BY Zenon, <2>3, <2>4, <2>6, <3>1, <4>2 DEF Fetched
      <4>4. InStep(v) => InStep(v)'
        BY Zenon, <3>1 DEF InStep
      <4> QED BY Zenon, <1>1, <4>1, <4>3, <4>4 DEF Accounted, Waiting, Back
    <3> QED BY Zenon, <1>1, <1>2, <3>2, <3>3 DEF KInv
  <2>7. CASE g.got # <<>>
    <3> DEFINE i == Min(free)
    <3>1. free # {} /\ Emit(i, g, 0, wire)
      BY Zenon, <2>5, <2>7
    <3>2. i \in free
      <4>1. free \in SUBSET Nat
        BY DEF StepIds
      <4> QED BY Zenon, <3>1, <4>1, LeastFile
    <3> HIDE DEF i
    <3>3. i \in StepIds /\ ~ steps[i].on /\ 0 \notin StepIds /\ 0 \in 0 .. TimeOutMax
      BY <3>2, DbSyncAssumption DEF StepIds
    <3>4. \A m \in wire : m.s # i
      BY Zenon, <1>2, <3>3 DEF WireOK
    <3>5. /\ SessionOK(session', disk') /\ DiskOK(disk') /\ StepsOK' /\ WireOK'
          /\ \A w : Waiting(x, disk, w) \/ Back(x, w) =>
               Waiting(session', disk', w) \/ Back(session', w) \/ InStep(w)'
          /\ \A j \in StepIds : j # i => steps'[j] = steps[j]
      BY Zenon, <1>1, <2>4, <2>7, <3>1, <3>3, <3>4, EmitKeeps
    <3>6. \A v : InStep(v) => InStep(v)'
      BY Zenon, <3>3, <3>5 DEF InStep
    <3>7. ASSUME NEW v \in stored' \ (refused' \cup given')
          PROVE  Accounted(v)'
      <4>1. Accounted(v)
        BY Zenon, <1>1, <1>2, <2>1
      <4> QED BY ZenonT(30), <1>1, <2>3, <3>5, <3>6, <4>1 DEF Accounted, Waiting, Back
    <3> QED BY Zenon, <1>1, <1>2, <3>5, <3>7 DEF KInv
  <2> QED BY Zenon, <2>6, <2>7
<1> QED BY Zenon, <1>3, <1>4

\* The step i ends: its messages are gone, or are requests nobody waits for any more.
LEMMA StepEnds ==
  ASSUME StepsOK, WireOK, NEW i \in StepIds, steps' = [steps EXCEPT ![i] = NoStep], applied' = applied,
         \A m \in wire' : (m \in wire /\ m.s # i) \/
           (m.s = 0 /\ m \in [s : StepIds \cup {0}, rec : Writes, st : {"req", "ok", "err", "net", "bad"}])
  PROVE  StepsOK' /\ WireOK' /\ \A j \in StepIds : j # i => steps'[j] = steps[j]
<1>1. StepsOK' /\ \A j \in StepIds : j # i => steps'[j] = steps[j]
  BY Zenon DEF StepsOK
<1>2. \A m \in wire' : m.s # 0 => m \in wire /\ m.s # i /\ m.s \in StepIds
  BY Zenon DEF WireOK
<1>3. WireOK'
  <2>1. wire' \subseteq [s : StepIds \cup {0}, rec : Writes, st : {"req", "ok", "err", "net", "bad"}]
    BY Zenon DEF WireOK
  <2>2. ASSUME NEW m \in wire', m.s # 0
        PROVE  steps'[m.s].on /\ steps'[m.s].rec = m.rec /\ (m.st = "ok" => applied'[m.rec] > 0)
    BY Zenon, <1>1, <1>2, <2>2 DEF WireOK
  <2>3. \A m, q \in wire' : m.s = q.s /\ m.s # 0 => m = q
    BY Zenon, <1>2 DEF WireOK
  <2> QED BY Zenon, <2>1, <2>2, <2>3 DEF WireOK
<1> QED BY Zenon, <1>1, <1>3

LEMMA StepOn ==
  ASSUME StepsOK, NEW i \in StepIds, steps[i].on
  PROVE  /\ steps[i] \in [on : {TRUE}, rec : Writes, to : 0 .. TimeOutMax]
         /\ steps[i].to \in 0 .. TimeOutMax /\ steps[i].rec \in Writes
<1>1. ~ NoStep.on
  BY Zenon DEF NoStep
<1>2. steps[i] \in {NoStep} \cup [on : {TRUE}, rec : Writes, to : 0 .. TimeOutMax]
  BY Zenon DEF StepsOK
<1>3. steps[i] # NoStep
  BY Zenon, <1>1
<1> QED BY Zenon, <1>2, <1>3

LEMMA CallbackKInv ==
  ASSUME KInv, NEW i \in StepIds, Callback(i)
  PROVE  KInv'
<1>1. /\ now \in Minutes /\ SessionOK(session, disk) /\ DiskOK(disk) /\ StepsOK /\ WireOK
      /\ applied \in [Writes -> Nat] /\ stored \subseteq Writes
      /\ \A v \in stored \ (refused \cup given) : Accounted(v)
  BY Zenon DEF KInv
<1>2. PICK m \in wire : /\ m.s = i /\ steps[i].on
                        /\ CallbackNet(i, m) \/ CallbackDone(i, m) \/ CallbackBad(i, m)
  BY Zenon DEF Callback
<1>3. UNCHANGED <<now, applied, stored>>
  BY Zenon DEF Callback
<1>4. /\ m.rec \in Writes /\ steps[i].rec = m.rec /\ (m.st = "ok" => applied[m.rec] > 0) /\ i # 0
      /\ \A q \in wire \ {m} : q.s # i
  <2>1. i # 0
    BY DEF StepIds
  <2> QED BY Zenon, <1>1, <1>2, <2>1 DEF WireOK
<1>5. ASSUME \A j \in StepIds : j # i => steps'[j] = steps[j]
      PROVE  \A v : InStep(v) /\ v # m.rec => InStep(v)'
  BY Zenon, <1>4, <1>5 DEF InStep
<1>6. CASE CallbackNet(i, m)
  <2>1. /\ session' = GoBack(session, m.rec) /\ disk' = disk /\ refused' = refused
        /\ given' = IF session.on /\ session.sending = Size[m.rec] THEN given ELSE given \cup {m.rec}
        /\ steps' = [steps EXCEPT ![i] = NoStep] /\ wire' = wire \ {m}
    BY Zenon, <1>6 DEF CallbackNet
  <2>2. StepsOK' /\ WireOK' /\ \A j \in StepIds : j # i => steps'[j] = steps[j]
    BY Zenon, <1>1, <1>3, <1>4, <2>1, StepEnds
  <2>3. /\ SessionOK(session', disk)
        /\ \A w : (Waiting(session, disk, w) => Waiting(session', disk, w)) /\ (Back(session, w) => Back(session', w))
        /\ session.on /\ session.sending = Size[m.rec] => Back(session', m.rec)
    BY Zenon, <1>1, <1>4, <2>1, GoBackKeeps
  <2>4. ASSUME NEW v \in stored' \ (refused' \cup given')
        PROVE  Accounted(v)'
    <3>1. Accounted(v)
      BY Zenon, <1>1, <1>3, <2>1
    <3>2. v = m.rec => Back(session', v)
      BY Zenon, <2>1, <2>3
    <3> QED BY Zenon, <1>3, <1>5, <2>1, <2>2, <2>3, <3>1, <3>2 DEF Accounted, Waiting, Back
  <2> QED BY Zenon, <1>1, <1>3, <2>1, <2>2, <2>3, <2>4 DEF KInv
<1>7. CASE CallbackDone(i, m)
  <2> DEFINE g == IF session.on THEN GetSyncData(session) ELSE Nothing(session)
  <2>1. /\ m.st \in {"ok", "err"} /\ given' = given
        /\ refused' = IF m.st = "err" THEN refused \cup {m.rec} ELSE refused
        /\ IF g.got # <<>> THEN Emit(i, g, steps[i].to, wire \ {m})
           ELSE /\ session' = g.s /\ disk' = g.d
                /\ steps' = [steps EXCEPT ![i] = NoStep] /\ wire' = wire \ {m}
    BY Zenon, <1>7 DEF CallbackDone
  <2>2. Fetched(session, g)
    <3>1. Fetched(session, Nothing(session))
      BY Zenon, <1>1 DEF Fetched, Nothing
    <3> QED BY Zenon, <1>1, <3>1, GetSyncDataKeeps
  <2> HIDE DEF g
  <2>3. /\ SessionOK(session', disk') /\ DiskOK(disk') /\ StepsOK' /\ WireOK'
        /\ \A w : Waiting(session, disk, w) \/ Back(session, w) =>
             Waiting(session', disk', w) \/ Back(session', w) \/ InStep(w)'
        /\ \A j \in StepIds : j # i => steps'[j] = steps[j]
    <3>1. CASE g.got # <<>>
      <4>1. Emit(i, g, steps[i].to, wire \ {m})
        BY Zenon, <2>1, <3>1
      <4>2. steps[i].to \in 0 .. TimeOutMax
        BY Zenon, <1>1, <1>2, StepOn
      <4>3. wire \ {m} \subseteq wire
        BY Zenon
      <4> QED BY Zenon, <1>3, <1>4, <2>2, <3>1, <4>1, <4>2, <4>3, EmitKeeps
    <3>2. CASE g.got = <<>>
      <4>1. /\ session' = g.s /\ disk' = g.d
            /\ steps' = [steps EXCEPT ![i] = NoStep] /\ wire' = wire \ {m}
        BY Zenon, <2>1, <3>2
      <4>2. StepsOK' /\ WireOK' /\ \A j \in StepIds : j # i => steps'[j] = steps[j]
        BY Zenon, <1>1, <1>3, <1>4, <4>1, StepEnds
      <4>3. \A w : <<>> # <<w>>
        BY Zenon
      <4> QED BY Zenon, <2>2, <3>2, <4>1, <4>2, <4>3 DEF Fetched
    <3> QED BY Zenon, <3>1, <3>2
  <2>4. ASSUME NEW v \in stored' \ (refused' \cup given')
        PROVE  Accounted(v)'
    <3>1. Accounted(v)
      BY Zenon, <1>1, <1>3, <2>1
    <3>2. v = m.rec => applied'[v] > 0
      BY Zenon, <1>3, <1>4, <2>1
    <3> QED BY Zenon, <1>3, <1>5, <2>3, <3>1, <3>2 DEF Accounted, Waiting, Back
  <2> QED BY Zenon, <1>1, <1>3, <2>3, <2>4 DEF KInv
<1>8. CASE CallbackBad(i, m)
  <2>1. /\ UNCHANGED <<session, disk, refused>> /\ given' = given \cup {m.rec}
        /\ steps' = [steps EXCEPT ![i] = NoStep] /\ wire' = wire \ {m}
    BY Zenon, <1>8 DEF CallbackBad
  <2>2. StepsOK' /\ WireOK' /\ \A j \in StepIds : j # i => steps'[j] = steps[j]
    BY Zenon, <1>1, <1>3, <1>4, <2>1, StepEnds
  <2>3. ASSUME NEW v \in stored' \ (refused' \cup given')
        PROVE  Accounted(v)'
    <3>1. Accounted(v) /\ v # m.rec
      BY Zenon, <1>1, <1>3, <2>1
    <3> QED BY Zenon, <1>3, <1>5, <2>1, <2>2, <3>1 DEF Accounted, Waiting, Back
  <2>4. SessionOK(session', disk') /\ DiskOK(disk')
    BY Zenon, <1>1, <2>1
  <2> QED BY Zenon, <1>1, <1>3, <2>1, <2>2, <2>3, <2>4 DEF KInv
<1> QED BY Zenon, <1>2, <1>6, <1>7, <1>8

\* The requests of a step that ended.
LEMMA OrphanedMsg ==
  ASSUME WireOK, NEW I, NEW m \in Orphaned(I)
  PROVE  \/ m \in wire /\ m.s \notin I
         \/ m.s = 0 /\ m.st = "req" /\ m \in [s : StepIds \cup {0}, rec : Writes, st : {"req", "ok", "err", "net", "bad"}]
<1>1. CASE m \in wire /\ m.s \notin I
  BY Zenon, <1>1
<1>2. CASE ~ (m \in wire /\ m.s \notin I)
  <2>1. PICK q \in wire : q.st = "req" /\ m = [q EXCEPT !.s = 0]
    BY Zenon, <1>2 DEF Orphaned
  <2>2. q \in [s : StepIds \cup {0}, rec : Writes, st : {"req", "ok", "err", "net", "bad"}]
    BY Zenon DEF WireOK
  <2> QED BY Zenon, <2>1, <2>2
<1> QED BY Zenon, <1>1, <1>2

LEMMA StepTimeoutKInv ==
  ASSUME KInv, NEW i \in StepIds, StepTimeout(i)
  PROVE  KInv'
<1>1. /\ now \in Minutes /\ SessionOK(session, disk) /\ DiskOK(disk) /\ StepsOK /\ WireOK
      /\ applied \in [Writes -> Nat] /\ stored \subseteq Writes
      /\ \A v \in stored \ (refused \cup given) : Accounted(v)
  BY Zenon DEF KInv
<1>2. UNCHANGED <<now, disk, session, applied, stored, refused>> /\ steps[i].on
  BY Zenon DEF StepTimeout
<1>3. SessionOK(session', disk') /\ DiskOK(disk')
  BY Zenon, <1>1, <1>2
<1>4. steps[i] \in [on : {TRUE}, rec : Writes, to : 0 .. TimeOutMax]
  BY Zenon, <1>1, <1>2, StepOn
<1>5. CASE steps[i].to < TimeOutMax
  <2>1. steps' = [steps EXCEPT ![i].to = @ + 1] /\ UNCHANGED <<given, wire>>
    BY Zenon, <1>5 DEF StepTimeout
  <2> DEFINE r == [steps[i] EXCEPT !.to = @ + 1]
  <2>2. r \in [on : {TRUE}, rec : Writes, to : 0 .. TimeOutMax] /\ r.on = steps[i].on /\ r.rec = steps[i].rec
    <3>1. PICK s : s = steps[i]
      BY Zenon
    <3>2. s \in [on : {TRUE}, rec : Writes, to : 0 .. TimeOutMax] /\ s.to < TimeOutMax /\ TimeOutMax \in Nat
      BY Zenon, <1>4, <1>5, <3>1, DbSyncAssumption
    <3>3. s.to + 1 \in 0 .. TimeOutMax
      BY <3>2
    <3>4. r = [s EXCEPT !.to = s.to + 1]
      BY Zenon, <3>1
    <3> HIDE DEF r
    <3>5. r \in [on : {TRUE}, rec : Writes, to : 0 .. TimeOutMax] /\ r.on = s.on /\ r.rec = s.rec
      BY Zenon, <3>2, <3>3, <3>4
    <3> QED BY Zenon, <3>1, <3>5
  <2>3. steps' = [steps EXCEPT ![i] = r]
    BY Zenon, <2>1
  <2> HIDE DEF r
  <2>4. StepsOK' /\ \A j \in StepIds : steps'[j].on = steps[j].on /\ steps'[j].rec = steps[j].rec
    BY Zenon, <1>1, <2>2, <2>3 DEF StepsOK
  <2>5. WireOK'
    BY Zenon, <1>1, <1>2, <2>1, <2>4 DEF WireOK
  <2>6. \A v : InStep(v) => InStep(v)'
    BY Zenon, <2>4 DEF InStep
  <2>7. \A v \in stored' \ (refused' \cup given') : Accounted(v)'
    BY <1>1, <1>2, <2>1, <2>6 DEF Accounted, Waiting, Back
  <2> QED BY Zenon, <1>1, <1>2, <1>3, <2>4, <2>5, <2>7 DEF KInv
<1>6. CASE ~ (steps[i].to < TimeOutMax)
  <2>1. /\ steps' = [steps EXCEPT ![i] = NoStep] /\ wire' = Orphaned({i})
        /\ given' = given \cup {steps[i].rec}
    BY Zenon, <1>6 DEF StepTimeout
  <2>2. StepsOK' /\ WireOK' /\ \A j \in StepIds : j # i => steps'[j] = steps[j]
    <3>1. \A m \in wire' : (m \in wire /\ m.s # i) \/
           (m.s = 0 /\ m \in [s : StepIds \cup {0}, rec : Writes, st : {"req", "ok", "err", "net", "bad"}])
      BY Zenon, <1>1, <2>1, OrphanedMsg
    <3> QED BY Zenon, <1>1, <1>2, <2>1, <3>1, StepEnds
  <2>3. ASSUME NEW v \in stored' \ (refused' \cup given')
        PROVE  Accounted(v)'
    <3>1. Accounted(v) /\ v # steps[i].rec
      BY Zenon, <1>1, <1>2, <2>1
    <3>2. InStep(v) => InStep(v)'
      BY Zenon, <2>2, <3>1 DEF InStep
    <3> QED BY Zenon, <1>2, <3>1, <3>2 DEF Accounted, Waiting, Back
  <2> QED BY Zenon, <1>1, <1>2, <1>3, <2>2, <2>3 DEF KInv
<1> QED BY Zenon, <1>5, <1>6

LEMMA AgentAnswersKInv ==
  ASSUME KInv, AgentAnswers
  PROVE  KInv'
<1>1. /\ now \in Minutes /\ SessionOK(session, disk) /\ DiskOK(disk) /\ StepsOK /\ WireOK
      /\ applied \in [Writes -> Nat] /\ stored \subseteq Writes
      /\ \A v \in stored \ (refused \cup given) : Accounted(v)
  BY Zenon DEF KInv
<1>2. UNCHANGED <<now, disk, session, steps, stored, refused, given>>
  BY Zenon DEF AgentAnswers
<1>3. PICK m \in wire, st \in {"ok", "err", "net", "bad"}, done \in BOOLEAN :
        /\ st = "ok" => done
        /\ wire' = (wire \ {m}) \cup {[q EXCEPT !.st = st] : q \in {m} \cap Awaited}
        /\ applied' = [applied EXCEPT ![m.rec] = @ + IF done THEN 1 ELSE 0]
  BY Zenon DEF AgentAnswers
<1> DEFINE R == [s : StepIds \cup {0}, rec : Writes, st : {"req", "ok", "err", "net", "bad"}]
<1>4. m \in R /\ m.rec \in Writes
  BY Zenon, <1>1 DEF WireOK
<1>5. /\ applied' \in [Writes -> Nat] /\ \A v \in Writes : applied[v] > 0 => applied'[v] > 0
      /\ done => applied'[m.rec] > 0
  BY <1>1, <1>3, <1>4
<1>6. PICK n : n = [m EXCEPT !.st = st]
  BY Zenon
<1>7. n \in R /\ n.s = m.s /\ n.rec = m.rec /\ n.st = st
  BY Zenon, <1>4, <1>6
<1>8. wire' \subseteq (wire \ {m}) \cup {n}
  BY Zenon, <1>3, <1>6
<1>9. WireOK'
  <2>1. wire' \subseteq R
    BY Zenon, <1>1, <1>7, <1>8 DEF WireOK
  <2>2. ASSUME NEW q \in wire', q.s # 0
        PROVE  steps'[q.s].on /\ steps'[q.s].rec = q.rec /\ (q.st = "ok" => applied'[q.rec] > 0)
    <3>1. CASE q = n
      <4>1. steps[m.s].on /\ steps[m.s].rec = m.rec
        BY Zenon, <1>1, <1>7, <2>2, <3>1 DEF WireOK
      <4> QED BY Zenon, <1>2, <1>3, <1>5, <1>7, <3>1, <4>1
    <3>2. CASE q # n
      <4>1. q \in wire /\ q.rec \in Writes
        BY Zenon, <1>1, <1>8, <3>2 DEF WireOK
      <4> QED BY Zenon, <1>1, <1>2, <1>5, <2>2, <4>1 DEF WireOK
    <3> QED BY Zenon, <3>1, <3>2
  <2>3. \A q, p \in wire' : q.s = p.s /\ q.s # 0 => q = p
    BY Zenon, <1>1, <1>7, <1>8 DEF WireOK
  <2> QED BY Zenon, <2>1, <2>2, <2>3 DEF WireOK
<1>10. \A v \in stored' \ (refused' \cup given') : Accounted(v)'
  BY <1>1, <1>2, <1>5 DEF Accounted, Waiting, Back, InStep
<1>11. SessionOK(session', disk') /\ DiskOK(disk') /\ StepsOK'
  BY Zenon, <1>1, <1>2 DEF StepsOK
<1> QED BY Zenon, <1>1, <1>2, <1>5, <1>9, <1>10, <1>11 DEF KInv

\* What is on the disk is found by the new Worker, what was only in memory is given up.
LEMMA CrashKInv ==
  ASSUME KInv, Crash
  PROVE  KInv'
<1>1. /\ now \in Minutes /\ SessionOK(session, disk) /\ DiskOK(disk) /\ StepsOK /\ WireOK
      /\ applied \in [Writes -> Nat] /\ stored \subseteq Writes
      /\ \A v \in stored \ (refused \cup given) : Accounted(v)
  BY Zenon DEF KInv
<1>2. /\ UNCHANGED <<now, disk, applied, stored, refused>>
      /\ session' = IF DOMAIN disk = {} THEN NoSession ELSE ScanSyncData(SessionNew, disk)
      /\ steps' = [i \in StepIds |-> NoStep]
      /\ wire' = {m \in Orphaned(StepIds) : m.st = "req"}
      /\ given' = given \cup (InMemory \ OnDisk)
  BY Zenon DEF Crash
<1>3. SessionOK(session', disk) /\ session'.rfile = 0
  <2>1. CASE DOMAIN disk = {}
    BY Zenon, <1>2, <2>1, NewOK
  <2>2. CASE DOMAIN disk # {}
    <3>1. PICK s : s = SessionNew
      BY Zenon
    <3>2. PICK y : y = session'
      BY Zenon
    <3>3. SessionOK(s, disk) /\ s.on /\ s.rfile = 0
      BY Zenon, <3>1, NewOK
    <3>4. IsSession(s) /\ y = [s EXCEPT !.files = @ \cup DOMAIN disk]
      BY Zenon, <1>2, <2>2, <3>1, <3>2, <3>3 DEF ScanSyncData, SessionOK
    <3>5. /\ IsSession(y) /\ y.on = s.on /\ y.files = s.files \cup DOMAIN disk /\ y.wfile = s.wfile
          /\ y.wtime = s.wtime /\ y.rfile = s.rfile /\ y.roff = s.roff /\ y.waitR = s.waitR
      BY Zenon, <3>4 DEF IsSession, Fields
    <3>6. SessionOK(y, disk)
      BY Zenon, <1>1, <3>3, <3>5 DEF SessionOK, DiskOK
    <3> QED BY Zenon, <3>2, <3>3, <3>5, <3>6
  <2> QED BY Zenon, <2>1, <2>2
<1>4. StepsOK'
  BY Zenon, <1>2 DEF StepsOK
<1>5. WireOK'
  <2>1. ASSUME NEW m \in wire'
        PROVE  m.s = 0 /\ m \in [s : StepIds \cup {0}, rec : Writes, st : {"req", "ok", "err", "net", "bad"}]
    <3>1. m \in Orphaned(StepIds)
      BY Zenon, <1>2
    <3> QED BY Zenon, <1>1, <3>1, OrphanedMsg DEF WireOK
  <2> QED BY Zenon, <2>1 DEF WireOK
<1>6. \A f \in DOMAIN disk : f # 0 /\ DOMAIN disk[f] = 1 .. Len(disk[f])
  BY <1>1, MinuteFacts DEF DiskOK
<1>7. \A v : v \in OnDisk => Waiting(session', disk, v)
  BY <1>3, <1>6 DEF OnDisk, Range, Waiting
<1>8. \A v : Waiting(session, disk, v) => v \in OnDisk
  BY <1>6 DEF OnDisk, Range, Waiting
<1>9. \A v : Back(session, v) \/ InStep(v) => v \in InMemory
  <2>1. DOMAIN session.waitR = 1 .. Len(session.waitR)
    BY <1>1 DEF SessionOK
  <2> QED BY Zenon, <2>1 DEF Back, InStep, InMemory, Range
<1>10. ASSUME NEW v \in stored' \ (refused' \cup given')
       PROVE  Accounted(v)'
  <2>1. Accounted(v)
    BY Zenon, <1>1, <1>2
  <2>2. v \in InMemory => v \in OnDisk
    BY Zenon, <1>2, <1>10
  <2>3. applied[v] > 0 \/ Waiting(session', disk, v)
    BY Zenon, <1>7, <1>8, <1>9, <2>1, <2>2 DEF Accounted
  <2> QED BY Zenon, <1>2, <2>3 DEF Accounted, Waiting
<1> QED BY Zenon, <1>1, <1>2, <1>3, <1>4, <1>5, <1>10 DEF KInv

LEMMA OtherKInv ==
  ASSUME KInv, UNCHANGED <<disk, session, steps, applied, stored, refused, given>>, now' \in Minutes,
         wire' \subseteq wire
  PROVE  KInv'
<1>1. WireOK'
  BY Zenon DEF KInv, WireOK
<1>2. SessionOK(session', disk') /\ DiskOK(disk') /\ StepsOK'
  BY Zenon DEF KInv, StepsOK
<1>3. \A w \in stored' \ (refused' \cup given') : Accounted(w)'
  BY DEF KInv, Accounted, Waiting, Back, InStep
<1> QED BY Zenon, <1>1, <1>2, <1>3 DEF KInv

LEMMA NextKInv == KInv /\ [Next]_vars => KInv'
<1> SUFFICES ASSUME KInv, [Next]_vars
             PROVE  KInv'
  BY Zenon
<1>0. now \in Minutes
  BY Zenon DEF KInv
<1>1. CASE SessionTimeout
  BY Zenon, <1>1, SessionTimeoutKInv
<1>2. CASE AgentAnswers
  BY Zenon, <1>2, AgentAnswersKInv
<1>3. CASE AgentFlips
  BY Zenon, <1>0, <1>3, OtherKInv DEF AgentFlips
<1>4. CASE Tick
  <2>1. now' \in Minutes
    BY <1>0, <1>4, DbSyncAssumption DEF Tick, Minutes
  <2> QED BY Zenon, <1>4, <2>1, OtherKInv DEF Tick
<1>5. CASE Crash
  BY Zenon, <1>5, CrashKInv
<1>6. ASSUME NEW i \in StepIds, Callback(i) PROVE KInv'
  BY Zenon, <1>6, CallbackKInv
<1>7. ASSUME NEW i \in StepIds, StepTimeout(i) PROVE KInv'
  BY Zenon, <1>7, StepTimeoutKInv
<1>8. ASSUME NEW w \in Writes, DbWrite(w) \/ DbCallback(w) PROVE KInv'
  BY Zenon, <1>8, DbWriteKInv
<1>9. ASSUME NEW w \in Writes, DbTimeout(w) PROVE KInv'
  BY Zenon, <1>0, <1>9, OtherKInv DEF DbTimeout
<1>10. CASE UNCHANGED vars
  BY Zenon, <1>0, <1>10, OtherKInv DEF vars
<1> QED BY Zenon, <1>1, <1>2, <1>3, <1>4, <1>5, <1>6, <1>7, <1>8, <1>9, <1>10 DEF Next

LEMMA InitKInv == Init => KInv
<1> SUFFICES ASSUME Init PROVE KInv
  BY Zenon
<1>1. now \in Minutes /\ SessionOK(session, disk) /\ DOMAIN disk = {}
  BY NewOK, MinuteFacts DEF Init
<1>2. StepsOK /\ WireOK
  BY Zenon DEF Init, StepsOK, WireOK
<1> QED BY Zenon, <1>1, <1>2 DEF Init, KInv, DiskOK

\* A StepSyncToDb bears TimeOutMax timeouts over all the records it sends, no file is read
\* past its end, and the file that is read is a file that is there and noted.
THEOREM Typed == Spec => []TypeOK
<1>1. KInv => TypeOK
  <2> SUFFICES ASSUME KInv PROVE TypeOK
    BY Zenon
  <2>1. now \in Minutes /\ SessionOK(session, disk) /\ DiskOK(disk) /\ StepsOK /\ WireOK
    BY Zenon DEF KInv
  <2>2. OnDisk \subseteq Writes
    BY <2>1 DEF OnDisk, Range, DiskOK
  <2>3. session.rfile # 0 => /\ session.rfile \in session.files \cap DOMAIN disk
                             /\ session.roff \in 0 .. Len(disk[session.rfile])
    <3>1. session.roff \in Nat /\ \A f \in DOMAIN disk : Len(disk[f]) \in Nat
      BY <2>1 DEF SessionOK, DiskOK
    <3> QED BY <2>1, <3>1 DEF SessionOK
  <2> QED BY Zenon, <2>1, <2>2, <2>3 DEF TypeOK, SessionOK, DiskOK, StepsOK, WireOK
<1> QED BY <1>1, InitKInv, NextKInv, PTL DEF Spec

\* A write SyncData took does not disappear in between: for any writes and sizes, steps,
\* failures, crashes and minutes, it has reached the database, was refused by it, was given
\* up at a place that does so, or is unread in a file, put back or in a step.
THEOREM NothingLost == Spec => []Kept
<1>1. KInv => Kept
  <2> SUFFICES ASSUME KInv, NEW w \in stored \ (refused \cup given)
               PROVE  applied[w] > 0 \/ w \in Unread \cup InMemory
    BY Zenon DEF Kept
  <2>1. Accounted(w) /\ SessionOK(session, disk)
    BY Zenon DEF KInv
  <2>2. Waiting(session, disk, w) => w \in Unread
    BY DEF Waiting, Unread
  <2>3. Back(session, w) \/ InStep(w) => w \in InMemory
    <3>1. DOMAIN session.waitR = 1 .. Len(session.waitR)
      BY <2>1 DEF SessionOK
    <3> QED BY Zenon, <3>1 DEF Back, InStep, InMemory, Range
  <2> QED BY Zenon, <2>1, <2>2, <2>3 DEF Accounted
<1> QED BY <1>1, InitKInv, NextKInv, PTL DEF Spec

-----------------------------------------------------------------------------
(* No record is sent twice in a life of the Worker.  A record is in one place only: *)
(* unread in one file, put back, or in one step; and to reach the database it needs *)
(* one of these, a request nobody waits for any more, or not to be written so far.  *)

\* The write w is in a file, read or not.
Stands(d, w) == \E f \in DOMAIN d : \E k \in 1 .. Len(d[f]) : d[f][k] = w

\* No record is twice in the files or put back twice, or unread and put back.
Single(x, d) ==
  /\ \A f, g \in DOMAIN d : \A k \in 1 .. Len(d[f]), j \in 1 .. Len(d[g]) :
       d[f][k] = d[g][j] => f = g /\ k = j
  /\ \A k, j \in 1 .. Len(x.waitR) : x.waitR[k] = x.waitR[j] => k = j
  /\ \A w : Waiting(x, d, w) => ~ Back(x, w)

\* The record of a step is nowhere else.
InHand ==
  \A i \in StepIds : steps[i].on =>
    /\ ~ Waiting(session, disk, steps[i].rec) /\ ~ Back(session, steps[i].rec)
    /\ \A j \in StepIds : steps[j].on /\ steps[j].rec = steps[i].rec => i = j

\* A write whose own step is not done is nowhere else.
Fresh ==
  /\ direct \in [Writes -> {"new", "sent", "done"}]
  /\ \A w \in Writes : direct[w] # "done" => ~ Stands(disk, w) /\ ~ Back(session, w) /\ ~ InStep(w)
  /\ \A m \in wire : direct[m.rec] # "new"

\* The messages of no StepSyncToDb: one for each write.
LooseOnce ==
  /\ \A m \in wire : m.s = 0 /\ m.st # "req" => direct[m.rec] = "sent"
  /\ \A m, q \in wire : m.s = 0 /\ q.s = 0 /\ m.rec = q.rec => m = q

\* A record that can still be sent, or is being sent, or may be put back; a request or a
\* connection error of no StepSyncToDb.
Sent(w) == \E m \in wire : m.s # 0 /\ m.rec = w /\ m.st \in {"req", "net"}
Held(w) == Waiting(session, disk, w) \/ Back(session, w) \/ Sent(w)
Loose(w) == \E m \in wire : m.s = 0 /\ m.rec = w /\ m.st \in {"req", "net"}

One(b) == IF b THEN 1 ELSE 0
Chances(w) == One(direct[w] = "new") + One(Held(w)) + One(Loose(w))
Bounded(w) == applied[w] + Chances(w) <= 1 + crashes + unsure[w]

OInv == /\ KInv /\ crashes \in Nat /\ unsure \in [Writes -> Nat]
        /\ Single(session, disk) /\ InHand /\ Fresh /\ LooseOnce
        /\ \A w \in Writes : Bounded(w)

\* What GetSyncData hands out was in one place and is there no more.
FetchedOnce(x, g) ==
  /\ Single(g.s, g.d)
  /\ \A w : /\ Waiting(g.s, g.d, w) => Waiting(x, disk, w)
            /\ Back(g.s, w) => Back(x, w)
            /\ Stands(g.d, w) => Stands(disk, w)
            /\ g.got = <<w>> => /\ Waiting(x, disk, w) \/ Back(x, w)
                                /\ ~ Waiting(g.s, g.d, w) /\ ~ Back(g.s, w)

LEMMA WaitingStands ==
  ASSUME NEW x, NEW d, NEW w, Waiting(x, d, w)
  PROVE  Stands(d, w)
BY Zenon DEF Waiting, Stands

LEMMA ReadOnOnce ==
  ASSUME DiskOK(disk), NEW x, SessionOK(x, disk), x.rfile # 0, Single(x, disk)
  PROVE  FetchedOnce(x, ReadOn(x))
<1> DEFINE g == ReadOn(x)
           y == g.s
<1>0. IsSession(x)
  BY Zenon DEF SessionOK
<1>1. /\ x.waitR \in Seq(Writes) /\ x.roff \in Nat /\ x.rfile \in DOMAIN disk
      /\ x.roff <= Len(disk[x.rfile]) /\ disk[x.rfile] \in Seq(Writes)
  BY Zenon DEF SessionOK, DiskOK
<1>9. \A v, w : <<v>> = <<w>> => v = w
  BY Zenon
<1>2. CASE x.waitR # <<>>
  <2> DEFINE h == Head(x.waitR)
             t == Tail(x.waitR)
  <2>1. /\ Len(t) = Len(x.waitR) - 1 /\ Len(x.waitR) \in Nat /\ 1 \in 1 .. Len(x.waitR) /\ h = x.waitR[1]
        /\ \A k \in 1 .. Len(t) : k + 1 \in 1 .. Len(x.waitR) /\ t[k] = x.waitR[k + 1]
    BY <1>1, <1>2
  <2>2. g = Taken([x EXCEPT !.waitR = t], h)
    BY Zenon, <1>2 DEF ReadOn
  <2>3. /\ y = [[x EXCEPT !.waitR = t] EXCEPT !.sending = Size[h]] /\ g.d = disk /\ g.got = <<h>>
    BY <2>2 DEF Taken
  <2> HIDE DEF g, h, t, y
  <2>4. y.rfile = x.rfile /\ y.roff = x.roff /\ y.waitR = t
    BY Zenon, <1>0, <2>3 DEF IsSession, Fields
  <2>5. \A w : Waiting(x, disk, w) <=> Waiting(y, disk, w)
    BY Zenon, <2>4 DEF Waiting
  <2>6. \A w : Back(y, w) => Back(x, w)
    BY Zenon, <2>1, <2>4 DEF Back
  <2>7. ~ Back(y, h) /\ Back(x, h)
    <3>1. \A k \in 1 .. Len(t) : t[k] # h
      <4> SUFFICES ASSUME NEW k \in 1 .. Len(t) PROVE t[k] # h
        BY Zenon
      <4>1. k + 1 # 1 /\ k + 1 \in 1 .. Len(x.waitR) /\ t[k] = x.waitR[k + 1]
        BY <2>1
      <4> QED BY Zenon, <2>1, <4>1 DEF Single
    <3> QED BY Zenon, <2>1, <2>4, <3>1 DEF Back
  <2>8. Single(y, disk)
    <3>1. \A k, j \in 1 .. Len(t) : t[k] = t[j] => k = j
      <4> SUFFICES ASSUME NEW k \in 1 .. Len(t), NEW j \in 1 .. Len(t), t[k] = t[j] PROVE k = j
        BY Zenon
      <4>1. k + 1 = j + 1
        BY <2>1 DEF Single
      <4> QED BY <2>1, <4>1
    <3> QED BY Zenon, <2>4, <2>5, <2>6, <3>1 DEF Single
  <2>9. ~ Waiting(y, disk, h)
    BY Zenon, <2>5, <2>7 DEF Single
  <2> QED BY Zenon, <1>9, <2>3, <2>5, <2>6, <2>7, <2>8, <2>9 DEF FetchedOnce, y, g
<1>3. CASE x.waitR = <<>> /\ x.roff < Len(disk[x.rfile])
  <2> DEFINE h == disk[x.rfile][x.roff + 1]
  <2>1. x.roff + 1 \in 1 .. Len(disk[x.rfile]) /\ x.roff + 1 > x.roff
    BY <1>1, <1>3
  <2>2. g = Taken([x EXCEPT !.roff = x.roff + 1], h)
    BY Zenon, <1>3 DEF ReadOn
  <2>3. /\ y = [[x EXCEPT !.roff = x.roff + 1] EXCEPT !.sending = Size[h]] /\ g.d = disk /\ g.got = <<h>>
    BY <2>2 DEF Taken
  <2> HIDE DEF g, y
  <2>4. y.rfile = x.rfile /\ y.roff = x.roff + 1 /\ y.waitR = <<>>
    BY Zenon, <1>0, <1>3, <2>3 DEF IsSession, Fields
  <2>5. ASSUME NEW w, Waiting(y, disk, w)
        PROVE  Waiting(x, disk, w) /\ w # h
    <3>1. PICK f \in DOMAIN disk :
            \E k \in 1 .. Len(disk[f]) : disk[f][k] = w /\ (f = x.rfile => k > x.roff + 1)
      BY Zenon, <2>4, <2>5 DEF Waiting
    <3>2. PICK k \in 1 .. Len(disk[f]) : disk[f][k] = w /\ (f = x.rfile => k > x.roff + 1)
      BY Zenon, <3>1
    <3>3. f = x.rfile => k > x.roff
      BY <1>1, <3>2
    <3>4. Waiting(x, disk, w)
      BY Zenon, <3>2, <3>3 DEF Waiting
    <3>5. ASSUME w = h PROVE FALSE
      <4>1. f = x.rfile /\ k = x.roff + 1
        BY <1>1, <2>1, <3>2, <3>5 DEF Single
      <4> QED BY <1>1, <3>2, <4>1
    <3> QED BY Zenon, <3>4, <3>5
  <2>6. Waiting(x, disk, h)
    BY Zenon, <1>1, <2>1 DEF Waiting
  <2> HIDE DEF h
  <2>7. \A w : ~ Back(y, w)
    BY <2>4 DEF Back
  <2>8. Single(y, disk)
    <3>1. \A k, j \in 1 .. Len(y.waitR) : y.waitR[k] = y.waitR[j] => k = j
      BY <2>4
    <3> QED BY Zenon, <2>7, <3>1 DEF Single
  <2> QED BY Zenon, <1>9, <2>3, <2>5, <2>6, <2>7, <2>8 DEF FetchedOnce, y, g
<1>4. CASE x.waitR = <<>> /\ ~ (x.roff < Len(disk[x.rfile]))
  <2> DEFINE d == Restrict(disk, DOMAIN disk \ {x.rfile})
  <2>1. /\ y = [x EXCEPT !.files = @ \ {x.rfile}, !.rfile = 0, !.wgone = x.wgone \/ x.rfile = x.wfile]
        /\ g.d = d /\ g.got = <<>>
    BY Zenon, <1>4 DEF ReadOn
  <2> HIDE DEF g, y
  <2>2. y.rfile = 0 /\ y.waitR = <<>>
    BY Zenon, <1>0, <1>4, <2>1 DEF IsSession, Fields
  <2>3. DOMAIN d = DOMAIN disk \ {x.rfile} /\ \A f \in DOMAIN d : d[f] = disk[f]
    BY Zenon DEF Restrict
  <2> HIDE DEF d
  <2>4. \A w : ~ Back(y, w)
    BY <2>2 DEF Back
  <2>5. \A w : Waiting(y, d, w) => Waiting(x, disk, w)
    BY Zenon, <2>3 DEF Waiting
  <2>6. \A w : Stands(d, w) => Stands(disk, w)
    BY Zenon, <2>3 DEF Stands
  <2>7. Single(y, d)
    <3>1. \A k, j \in 1 .. Len(y.waitR) : y.waitR[k] = y.waitR[j] => k = j
      BY <2>2
    <3>2. \A e, f \in DOMAIN d : \A k \in 1 .. Len(d[e]), j \in 1 .. Len(d[f]) :
            d[e][k] = d[f][j] => e = f /\ k = j
      BY <2>3 DEF Single
    <3> QED BY Zenon, <2>4, <3>1, <3>2 DEF Single
  <2>8. \A w : <<>> # <<w>>
    BY Zenon
  <2> QED BY Zenon, <2>1, <2>4, <2>5, <2>6, <2>7, <2>8 DEF FetchedOnce, y, g
<1> QED BY Zenon, <1>2, <1>3, <1>4

LEMMA GetSyncDataOnce ==
  ASSUME DiskOK(disk), NEW x, SessionOK(x, disk), Single(x, disk)
  PROVE  FetchedOnce(x, GetSyncData(x))
<1>0. IsSession(x) /\ \A w : <<>> # <<w>>
  BY Zenon DEF SessionOK
<1>1. CASE x.rfile # 0
  BY Zenon, <1>1, ReadOnOnce DEF GetSyncData
<1>2. CASE x.rfile = 0 /\ (x.files = {} \/ Min(x.files) = x.wfile)
  BY Zenon, <1>0, <1>2 DEF GetSyncData, Nothing, FetchedOnce
<1>3. CASE x.rfile = 0 /\ x.files # {} /\ Min(x.files) # x.wfile /\ Min(x.files) \notin DOMAIN disk
  <2> DEFINE y == [x EXCEPT !.files = x.files \ {Min(x.files)}]
             g == GetSyncData(x)
  <2>1. g.s = y /\ g.d = disk /\ g.got = <<>>
    BY Zenon, <1>3 DEF GetSyncData, Nothing
  <2>2. y.rfile = x.rfile /\ y.roff = x.roff /\ y.waitR = x.waitR
    BY Zenon, <1>0 DEF IsSession, Fields
  <2> HIDE DEF y, g
  <2>3. \A w : (Waiting(x, disk, w) <=> Waiting(y, disk, w)) /\ (Back(x, w) <=> Back(y, w))
    BY Zenon, <2>2, SameReading
  <2>4. Single(y, disk)
    BY Zenon, <2>2, <2>3 DEF Single
  <2> QED BY Zenon, <1>0, <2>1, <2>3, <2>4 DEF FetchedOnce, g
<1>4. CASE x.rfile = 0 /\ x.files # {} /\ Min(x.files) # x.wfile /\ Min(x.files) \in DOMAIN disk
  <2> DEFINE f == Min(x.files)
             y == Opened(x, f)
             g == GetSyncData(x)
  <2>1. f \in x.files /\ f \in Minutes
    <3>1. x.files \in SUBSET Nat /\ x.files \subseteq Minutes
      BY Zenon, MinuteFacts DEF SessionOK
    <3> QED BY Zenon, <1>4, <3>1, LeastFile
  <2>2. g = ReadOn(y) /\ f \in DOMAIN disk
    BY Zenon, <1>4 DEF GetSyncData
  <2> HIDE DEF f
  <2>3. /\ IsSession(y) /\ y.on = x.on /\ y.files = x.files /\ y.wfile = x.wfile
        /\ y.wtime = x.wtime /\ y.rfile = f /\ y.roff = 0 /\ y.waitR = x.waitR
    BY Zenon, <1>0 DEF IsSession, Fields, Opened
  <2> HIDE DEF y
  <2>4. x.on = TRUE /\ f # 0 /\ disk[f] \in Seq(Writes)
    BY <1>4, <2>1, <2>2, MinuteFacts DEF SessionOK, NoSession, DiskOK
  <2>5. SessionOK(y, disk)
    <3>1. 0 <= Len(disk[f])
      BY <2>4
    <3> QED BY <2>1, <2>2, <2>3, <2>4, <3>1 DEF SessionOK
  <2>6. \A w : (Waiting(x, disk, w) <=> Waiting(y, disk, w)) /\ (Back(x, w) <=> Back(y, w))
    <3>1. \A e \in DOMAIN disk : e # 0 /\ \A k \in 1 .. Len(disk[e]) : k > 0
      BY MinuteFacts DEF DiskOK
    <3> QED BY Zenon, <1>4, <2>3, <3>1 DEF Waiting, Back
  <2>7. Single(y, disk)
    BY <2>3, <2>6 DEF Single
  <2>8. FetchedOnce(y, g)
    BY Zenon, <2>2, <2>3, <2>4, <2>5, <2>7, ReadOnOnce
  <2> HIDE DEF g
  <2> QED BY Zenon, <2>6, <2>8 DEF FetchedOnce, g
<1> QED BY Zenon, <1>1, <1>2, <1>3, <1>4

\* What was in no other place can be put back.
LEMMA GoBackOnce ==
  ASSUME NEW x, NEW d, SessionOK(x, d), Single(x, d), NEW v \in Writes, ~ Waiting(x, d, v), ~ Back(x, v)
  PROVE  /\ Single(GoBack(x, v), d)
         /\ \A w : /\ Waiting(GoBack(x, v), d, w) => Waiting(x, d, w)
                   /\ Back(GoBack(x, v), w) => Back(x, w) \/ w = v
<1> DEFINE y == GoBack(x, v)
<1>0. IsSession(x) /\ x.waitR \in Seq(Writes)
  BY Zenon DEF SessionOK
<1>1. CASE x.on /\ x.sending = Size[v]
  <2> DEFINE q == Append(x.waitR, v)
  <2>1. /\ Len(q) = Len(x.waitR) + 1 /\ Len(x.waitR) \in Nat /\ q[Len(x.waitR) + 1] = v
        /\ \A k \in 1 .. Len(x.waitR) : q[k] = x.waitR[k]
    BY <1>0
  <2>2. y = [x EXCEPT !.waitR = q]
    BY Zenon, <1>1 DEF GoBack
  <2> HIDE DEF y, q
  <2>3. y.rfile = x.rfile /\ y.roff = x.roff /\ y.waitR = q
    BY Zenon, <1>0, <2>2 DEF IsSession, Fields
  <2>4. \A k \in 1 .. Len(q) : k = Len(x.waitR) + 1 \/ k \in 1 .. Len(x.waitR)
    BY <2>1
  <2>5. \A w : Waiting(y, d, w) <=> Waiting(x, d, w)
    BY Zenon, <2>3 DEF Waiting
  <2>6. \A w : Back(y, w) => Back(x, w) \/ w = v
    BY Zenon, <2>1, <2>3, <2>4 DEF Back
  <2>7. \A k \in 1 .. Len(x.waitR) : x.waitR[k] # v
    BY Zenon DEF Back
  <2>8. \A k, j \in 1 .. Len(q) : q[k] = q[j] => k = j
    BY Zenon, <2>1, <2>4, <2>7 DEF Single
  <2>9. Single(y, d)
    BY Zenon, <2>3, <2>5, <2>6, <2>8 DEF Single
  <2> QED BY Zenon, <2>5, <2>6, <2>9 DEF y
<1>2. CASE ~ (x.on /\ x.sending = Size[v])
  <2>1. y = x
    BY Zenon, <1>2 DEF GoBack
  <2> QED BY Zenon, <2>1
<1> QED BY Zenon, <1>1, <1>2

\* SyncData appends one record at most, and does not touch what is read.
LEMMA SyncDataOnce ==
  ASSUME DiskOK(disk), NEW x, SessionOK(x, disk), NEW w \in Writes, NEW o \in SyncData(x, w),
         Single(x, disk), ~ Stands(disk, w), ~ Back(x, w)
  PROVE  /\ Single(o.s, o.d)
         /\ \A v : /\ Waiting(o.s, o.d, v) => Waiting(x, disk, v) \/ v = w
                   /\ Back(o.s, v) => Back(x, v)
                   /\ Stands(o.d, v) => Stands(disk, v) \/ v = w
<1> DEFINE y == IF x.wfile = now THEN x ELSE [Closed(x) EXCEPT !.wfile = now]
           z == [y EXCEPT !.files = @ \cup {now}, !.wtime = now]
           had == IF now \in DOMAIN disk THEN disk[now] ELSE <<>>
           Same(s) == IsSession(s) /\ s.rfile = x.rfile /\ s.roff = x.roff /\ s.waitR = x.waitR
<1>0. IsSession(x)
  BY Zenon DEF SessionOK
<1>1. Same(Closed(x))
  <2>1. PICK c : c = Closed(x)
    BY Zenon
  <2>2. IsSession(c) /\ c.rfile = x.rfile /\ c.roff = x.roff /\ c.waitR = x.waitR
    BY Zenon, <1>0, <2>1 DEF IsSession, Fields, Closed
  <2> QED BY Zenon, <2>1, <2>2
<1>2. Same(y)
  <2>1. CASE x.wfile = now
    BY Zenon, <1>0, <2>1
  <2>2. CASE x.wfile # now
    <3>1. y = [Closed(x) EXCEPT !.wfile = now]
      BY Zenon, <2>2
    <3>2. PICK c : c = Closed(x)
      BY Zenon
    <3>3. y = [c EXCEPT !.wfile = now] /\ Same(c)
      BY Zenon, <1>1, <3>1, <3>2
    <3>4. IsSession(c)
      BY Zenon, <3>3
    <3> HIDE DEF y
    <3>5. IsSession(y) /\ y.rfile = c.rfile /\ y.roff = c.roff /\ y.waitR = c.waitR
      BY Zenon, <3>3, <3>4 DEF IsSession, Fields
    <3> QED BY Zenon, <3>3, <3>5
  <2> QED BY Zenon, <2>1, <2>2
<1> HIDE DEF y
<1>3. Same(z)
  <2>1. IsSession(y)
    BY Zenon, <1>2
  <2>2. IsSession(z) /\ z.rfile = y.rfile /\ z.roff = y.roff /\ z.waitR = y.waitR
    BY Zenon, <2>1 DEF IsSession, Fields
  <2> HIDE DEF z
  <2> QED BY Zenon, <1>2, <2>2
<1>4. had \in Seq(Writes)
  BY DEF DiskOK
<1>5. \/ o.s = y /\ (o.d = disk \/ o.d = WithFile(now, had))
      \/ o.s = z /\ (o.d = disk \/ o.d = WithFile(now, Append(had, w)))
      \/ o.s = Closed(x) /\ o.d = disk
  BY DEF SyncData, y
<1> HIDE DEF z
<1>6. o.s.rfile = x.rfile /\ o.s.roff = x.roff /\ o.s.waitR = x.waitR
  BY Zenon, <1>1, <1>2, <1>3, <1>5
<1> DEFINE Old(f, k) == f \in DOMAIN disk /\ k \in 1 .. Len(disk[f]) /\ o.d[f][k] = disk[f][k]
           Added(f, k) == f = now /\ k = Len(had) + 1 /\ o.d[f][k] = w
<1>7. ASSUME NEW f \in DOMAIN o.d, NEW k \in 1 .. Len(o.d[f])
      PROVE  Old(f, k) \/ Added(f, k)
  <2>1. CASE o.d = disk
    BY Zenon, <2>1
  <2>2. ASSUME NEW c, c = had \/ c = Append(had, w), o.d = WithFile(now, c)
        PROVE  Old(f, k) \/ Added(f, k)
    <3>1. DOMAIN o.d = DOMAIN disk \cup {now} /\ o.d[now] = c /\ \A e \in DOMAIN disk : e # now => o.d[e] = disk[e]
      BY Zenon, <2>2 DEF WithFile
    <3>2. CASE f # now
      BY Zenon, <3>1, <3>2
    <3>3. CASE f = now
      <4>1. k \in 1 .. Len(c) /\ o.d[f][k] = c[k]
        BY Zenon, <3>1, <3>3
      <4>2. (k \in 1 .. Len(had) /\ c[k] = had[k]) \/ (k = Len(had) + 1 /\ c[k] = w)
        <5> HIDE DEF had
        <5>1. CASE c = had
          BY Zenon, <4>1, <5>1
        <5>2. CASE c = Append(had, w)
          <6>1. /\ Len(c) = Len(had) + 1 /\ Len(had) \in Nat /\ c[Len(had) + 1] = w
                /\ \A n \in 1 .. Len(had) : c[n] = had[n]
            BY <1>4, <5>2
          <6> QED BY <4>1, <6>1
        <5> QED BY Zenon, <2>2, <5>1, <5>2
      <4>3. CASE k \in 1 .. Len(had) /\ c[k] = had[k]
        <5>1. now \in DOMAIN disk
          BY <4>3
        <5> QED BY Zenon, <3>3, <4>1, <4>3, <5>1
      <4>4. CASE k = Len(had) + 1 /\ c[k] = w
        BY Zenon, <3>3, <4>1, <4>4
      <4> QED BY Zenon, <4>2, <4>3, <4>4
    <3> QED BY Zenon, <3>2, <3>3
  <2> QED BY Zenon, <1>5, <2>1, <2>2
<1> HIDE DEF had
<1>8. ASSUME NEW f \in DOMAIN o.d, NEW k \in 1 .. Len(o.d[f])
      PROVE  Old(f, k) => o.d[f][k] # w
  BY Zenon, <1>8 DEF Stands
<1>9. \A v : Back(o.s, v) <=> Back(x, v)
  BY Zenon, <1>6 DEF Back
<1>10. \A v : Waiting(o.s, o.d, v) => Waiting(x, disk, v) \/ v = w
  BY Zenon, <1>6, <1>7 DEF Waiting
<1>11. \A v : Stands(o.d, v) => Stands(disk, v) \/ v = w
  BY Zenon, <1>7 DEF Stands
<1>12. ASSUME NEW f \in DOMAIN o.d, NEW g \in DOMAIN o.d, NEW k \in 1 .. Len(o.d[f]), NEW j \in 1 .. Len(o.d[g]),
              o.d[f][k] = o.d[g][j]
       PROVE  f = g /\ k = j
  <2>1. CASE Old(f, k) /\ Old(g, j)
    <3>1. /\ f \in DOMAIN disk /\ g \in DOMAIN disk /\ k \in 1 .. Len(disk[f]) /\ j \in 1 .. Len(disk[g])
          /\ disk[f][k] = disk[g][j]
      BY Zenon, <1>12, <2>1
    <3> QED BY <3>1 DEF Single
  <2>2. CASE Added(f, k) /\ Added(g, j)
    BY Zenon, <2>2
  <2> QED BY Zenon, <1>7, <1>8, <1>12, <2>1, <2>2
<1>13. Single(o.s, o.d)
  BY Zenon, <1>6, <1>9, <1>10, <1>12 DEF Single
<1> QED BY Zenon, <1>9, <1>10, <1>11, <1>13

\* A step of the Worker that sends a record, puts it back or lets it go: the records are
\* still in one place each, and none came back that was gone.
StillOnce ==
  /\ Single(session', disk') /\ InHand' /\ Fresh' /\ LooseOnce'
  /\ \A w : (Held(w)' => Held(w)) /\ (Loose(w)' => Loose(w))

LEMMA ChancesNat ==
  ASSUME NEW w
  PROVE  Chances(w) \in Nat /\ Chances(w)' \in Nat
BY DEF Chances, One

LEMMA BoundedStill ==
  ASSUME OInv, NEW w \in Writes, Chances(w)' <= Chances(w), UNCHANGED <<crashes, applied, unsure>>
  PROVE  Bounded(w)'
<1>1. Bounded(w) /\ applied[w] \in Nat /\ unsure[w] \in Nat /\ crashes \in Nat
  BY Zenon DEF OInv, KInv
<1>2. applied[w] + Chances(w)' <= 1 + crashes + unsure[w]
  BY <1>1, ChancesNat DEF Bounded
<1> QED BY Zenon, <1>2 DEF Bounded

LEMMA StillOnceKeeps ==
  ASSUME OInv, KInv', StillOnce, UNCHANGED <<direct, crashes, applied, unsure>>
  PROVE  OInv'
<1>1. ASSUME NEW w \in Writes
      PROVE  Bounded(w)'
  <2>1. (Held(w)' => Held(w)) /\ (Loose(w)' => Loose(w)) /\ direct' = direct
    BY Zenon DEF StillOnce
  <2>2. Chances(w)' <= Chances(w)
    BY <2>1 DEF Chances, One
  <2> QED BY Zenon, <2>2, BoundedStill
<1> QED BY Zenon, <1>1 DEF OInv, StillOnce, Single, Waiting, Back

\* Nothing is added anywhere.
LEMMA LessOnce ==
  ASSUME OInv, KInv', Single(session', disk'), direct' = direct, wire' \subseteq wire,
         \A w : /\ Waiting(session', disk', w) => Waiting(session, disk, w)
                /\ Back(session', w) => Back(session, w)
                /\ Stands(disk', w) => Stands(disk, w),
         \A j \in StepIds : steps'[j].on => steps[j].on /\ steps'[j].rec = steps[j].rec
  PROVE  StillOnce
<1>1. InHand /\ Fresh /\ LooseOnce
  BY Zenon DEF OInv
<1>2. \A w : InStep(w)' => InStep(w)
  BY Zenon DEF InStep
<1>3. InHand'
  <2> SUFFICES ASSUME NEW i \in StepIds, steps'[i].on
               PROVE  /\ ~ Waiting(session', disk', steps'[i].rec) /\ ~ Back(session', steps'[i].rec)
                      /\ \A j \in StepIds : steps'[j].on /\ steps'[j].rec = steps'[i].rec => i = j
    BY Zenon DEF InHand, Waiting, Back
  <2>1. steps'[i].rec = steps[i].rec /\ steps[i].on
    BY Zenon
  <2> QED BY Zenon, <1>1, <2>1 DEF InHand
<1>4. Fresh'
  <2>1. \A w \in Writes : direct'[w] # "done" => ~ Stands(disk', w) /\ ~ Back(session', w) /\ ~ InStep(w)'
    BY Zenon, <1>1, <1>2 DEF Fresh
  <2>2. \A m \in wire' : direct'[m.rec] # "new"
    BY Zenon, <1>1 DEF Fresh
  <2> QED BY Zenon, <1>1, <2>1, <2>2 DEF Fresh, Stands, Back
<1>5. LooseOnce'
  BY Zenon, <1>1 DEF LooseOnce
<1>6. \A w : (Sent(w)' => Sent(w)) /\ (Loose(w)' => Loose(w))
  BY Zenon DEF Sent, Loose
<1>7. \A w : Held(w)' => Held(w)
  <2>1. \A w : Held(w)' => Waiting(session', disk', w) \/ Back(session', w) \/ Sent(w)'
    BY Zenon DEF Held, Waiting, Back
  <2> QED BY Zenon, <1>6, <2>1 DEF Held
<1> QED BY Zenon, <1>3, <1>4, <1>5, <1>6, <1>7 DEF StillOnce

\* What is handed out goes to the step i or back.
LEMMA EmitOnce ==
  ASSUME OInv, KInv', NEW i \in StepIds, NEW x, NEW g, Fetched(x, g), FetchedOnce(x, g), g.got # <<>>,
         \A w : (Waiting(x, disk, w) => Waiting(session, disk, w)) /\ (Back(x, w) => Back(session, w)),
         NEW to, NEW rest, rest \subseteq wire, Emit(i, g, to, rest), direct' = direct
  PROVE  StillOnce
<1>1. PICK w \in Writes : g.got = <<w>>
  BY Zenon DEF Fetched
<1>2. g.got[1] = w
  BY <1>1
<1>3. InHand /\ Fresh /\ LooseOnce /\ StepsOK
  BY Zenon DEF OInv, KInv
<1>4. /\ SessionOK(g.s, g.d) /\ Single(g.s, g.d)
      /\ ~ Waiting(g.s, g.d, w) /\ ~ Back(g.s, w) /\ (Waiting(session, disk, w) \/ Back(session, w))
      /\ \A v : /\ Waiting(g.s, g.d, v) => Waiting(session, disk, v)
                /\ Back(g.s, v) => Back(session, v)
                /\ Stands(g.d, v) => Stands(disk, v)
  BY Zenon, <1>1 DEF FetchedOnce, Fetched
<1>5. disk' = g.d
  BY Zenon DEF Emit
<1>6. \/ /\ wire' = rest \cup {Msg(i, w, "req")}
         /\ steps' = [steps EXCEPT ![i] = [on |-> TRUE, rec |-> w, to |-> to]]
         /\ session' = g.s
      \/ /\ wire' = rest /\ steps' = [steps EXCEPT ![i] = NoStep]
         /\ session' = GoBack(g.s, w)
  BY Zenon, <1>2 DEF Emit
<1>7. /\ Single(session', disk')
      /\ \A v : /\ Waiting(session', disk', v) => Waiting(session, disk, v) /\ v # w
                /\ Back(session', v) => Back(session, v) \/ v = w
                /\ Stands(disk', v) => Stands(disk, v)
      /\ session' = g.s => ~ Back(session', w)
  <2>1. CASE session' = g.s
    BY Zenon, <1>4, <1>5, <2>1
  <2>2. CASE session' = GoBack(g.s, w)
    <3>1. /\ Single(session', disk')
          /\ \A v : /\ Waiting(session', disk', v) => Waiting(g.s, g.d, v)
                    /\ Back(session', v) => Back(g.s, v) \/ v = w
      BY Zenon, <1>4, <1>5, <2>2, GoBackOnce
    <3>2. session' = g.s => ~ Back(session', w)
      BY Zenon, <1>4
    <3> QED BY Zenon, <1>4, <1>5, <3>1, <3>2
  <2> QED BY Zenon, <1>6, <2>1, <2>2
<1>8. \A j \in StepIds : steps[j].on => steps[j].rec # w
  BY Zenon, <1>4 , <1>3 DEF InHand
<1>9. direct[w] = "done"
  <2>1. Waiting(session, disk, w) => Stands(disk, w)
    BY Zenon, WaitingStands
  <2> QED BY Zenon, <1>3, <1>4, <2>1 DEF Fresh
<1>10. /\ \A j \in StepIds : j # i => steps'[j] = steps[j]
       /\ steps'[i].on => steps'[i].rec = w /\ session' = g.s
  <2>1. ~ NoStep.on
    BY Zenon DEF NoStep
  <2> QED BY <1>3, <1>6, <2>1 DEF StepsOK
<1>11. InHand'
  <2> SUFFICES ASSUME NEW k \in StepIds, steps'[k].on
               PROVE  /\ ~ Waiting(session', disk', steps'[k].rec) /\ ~ Back(session', steps'[k].rec)
                      /\ \A j \in StepIds : steps'[j].on /\ steps'[j].rec = steps'[k].rec => k = j
    BY Zenon DEF InHand, Waiting, Back
  <2>1. CASE k = i
    <3>1. steps'[k].rec = w /\ ~ Back(session', w)
      BY Zenon, <1>7, <1>10, <2>1
    <3> QED BY Zenon, <1>7, <1>8, <1>10, <2>1, <3>1
  <2>2. CASE k # i
    <3>1. steps'[k] = steps[k] /\ steps[k].on /\ steps[k].rec # w
      BY Zenon, <1>8, <1>10, <2>2
    <3>2. ~ Waiting(session, disk, steps[k].rec) /\ ~ Back(session, steps[k].rec)
          /\ \A j \in StepIds : steps[j].on /\ steps[j].rec = steps[k].rec => k = j
      BY Zenon, <1>3, <3>1 DEF InHand
    <3> QED BY Zenon, <1>7, <1>10, <3>1, <3>2
  <2> QED BY Zenon, <2>1, <2>2
<1>12. \A m \in wire' : m \in wire \/ (m.s = i /\ m.rec = w)
  <2>1. Msg(i, w, "req").s = i /\ Msg(i, w, "req").rec = w
    BY Zenon DEF Msg
  <2> QED BY Zenon, <1>6, <2>1
<1>13. Fresh'
  <2>1. ASSUME NEW v \in Writes, direct'[v] # "done"
        PROVE  ~ Stands(disk', v) /\ ~ Back(session', v) /\ ~ InStep(v)'
    <3>1. v # w /\ ~ Stands(disk, v) /\ ~ Back(session, v) /\ ~ InStep(v)
      BY Zenon, <1>3, <1>9, <2>1 DEF Fresh
    <3>2. ~ InStep(v)'
      BY Zenon, <1>10, <3>1 DEF InStep
    <3> QED BY Zenon, <1>7, <3>1, <3>2
  <2>2. \A m \in wire' : direct'[m.rec] # "new"
    BY Zenon, <1>3, <1>9, <1>12 DEF Fresh
  <2> QED BY Zenon, <1>3, <2>1, <2>2 DEF Fresh, Stands, Back
<1>14. LooseOnce' /\ \A v : Loose(v)' => Loose(v)
  <2>1. \A m \in wire' : m.s = 0 => m \in wire
    BY <1>12 DEF StepIds
  <2> QED BY Zenon, <1>3, <2>1 DEF LooseOnce, Loose
<1>15. \A v : Held(v)' => Held(v)
  <2>1. \A v : Held(v)' => Waiting(session', disk', v) \/ Back(session', v) \/ Sent(v)'
    BY Zenon DEF Held, Waiting, Back
  <2>2. \A v : Sent(v)' => Sent(v) \/ v = w
    BY Zenon, <1>12 DEF Sent
  <2> QED BY Zenon, <1>4, <1>7, <2>1, <2>2 DEF Held
<1> QED BY Zenon, <1>7, <1>11, <1>13, <1>14, <1>15 DEF StillOnce

LEMMA SessionTimeoutOnce ==
  ASSUME OInv, KInv', SessionTimeout
  PROVE  OInv'
<1>1. session.on /\ UNCHANGED <<direct, crashes, applied, unsure>>
  BY Zenon DEF SessionTimeout
<1>2. SessionOK(session, disk) /\ DiskOK(disk) /\ StepsOK /\ WireOK /\ Single(session, disk)
  BY Zenon DEF OInv, KInv
<1>3. CASE session.files = {}
  <2>1. session' = NoSession /\ UNCHANGED <<disk, steps, wire>>
    BY Zenon, <1>3 DEF SessionTimeout
  <2>2. session.rfile = 0 /\ NoSession.rfile = 0 /\ NoSession.waitR = <<>>
    BY Zenon, <1>2, <1>3, NewOK DEF SessionOK
  <2>3. \A w : ~ Back(session', w)
    BY <2>1, <2>2 DEF Back
  <2>4. \A w : Waiting(session', disk', w) => Waiting(session, disk, w)
    <3>1. \A f \in DOMAIN disk : f # 0
      BY Zenon, <1>2, MinuteFacts DEF DiskOK
    <3> QED BY Zenon, <2>1, <2>2, <3>1 DEF Waiting
  <2>5. Single(session', disk')
    <3>1. \A k, j \in 1 .. Len(session'.waitR) : session'.waitR[k] = session'.waitR[j] => k = j
      BY <2>1, <2>2
    <3> QED BY <1>2, <2>1, <2>3, <3>1 DEF Single
  <2>6. StillOnce
    BY Zenon, <1>1, <2>1, <2>3, <2>4, <2>5, LessOnce
  <2> QED BY Zenon, <1>1, <2>6, StillOnceKeeps
<1>4. CASE session.files # {}
  <2>1. PICK x \in CheckWritingFile(session) :
          LET g == IF agent THEN GetSyncData(x) ELSE Nothing(x)
              free == {i \in StepIds : ~steps[i].on}
          IN  IF g.got = <<>> THEN session' = g.s /\ disk' = g.d /\ UNCHANGED <<steps, wire>>
              ELSE free # {} /\ Emit(Min(free), g, 0, wire)
    BY Zenon, <1>4 DEF SessionTimeout
  <2> DEFINE g == IF agent THEN GetSyncData(x) ELSE Nothing(x)
             free == {i \in StepIds : ~steps[i].on}
  <2>2. SessionOK(x, disk) /\ x.rfile = session.rfile /\ x.roff = session.roff /\ x.waitR = session.waitR
    <3>1. SessionOK(x, disk)
      BY Zenon, <1>1, <1>2, CheckWritingFileKeeps
    <3>2. IsSession(session) /\ (x = session \/ x = [session EXCEPT !.wfile = 0, !.wgone = FALSE])
      BY Zenon, <1>2 DEF SessionOK, CheckWritingFile, Closed
    <3>3. x.rfile = session.rfile /\ x.roff = session.roff /\ x.waitR = session.waitR
      BY Zenon, <3>2 DEF IsSession, Fields
    <3> QED BY Zenon, <3>1, <3>3
  <2>3. \A w : (Waiting(session, disk, w) <=> Waiting(x, disk, w)) /\ (Back(session, w) <=> Back(x, w))
    BY Zenon, <2>2, SameReading
  <2>4. Single(x, disk)
    BY Zenon, <1>2, <2>2, <2>3 DEF Single
  <2>5. Fetched(x, g) /\ FetchedOnce(x, g)
    <3>1. Fetched(x, Nothing(x))
      BY Zenon, <1>2, <2>2 DEF Fetched, Nothing
    <3>2. FetchedOnce(x, Nothing(x))
      <4>1. \A w : <<>> # <<w>>
        BY Zenon
      <4> QED BY Zenon, <2>4, <4>1 DEF FetchedOnce, Nothing
    <3> QED BY Zenon, <1>2, <2>2, <2>4, <3>1, <3>2, GetSyncDataKeeps, GetSyncDataOnce
  <2>6. IF g.got = <<>> THEN session' = g.s /\ disk' = g.d /\ UNCHANGED <<steps, wire>>
        ELSE free # {} /\ Emit(Min(free), g, 0, wire)
    BY Zenon, <2>1
  <2> HIDE DEF g
  <2>7. CASE g.got = <<>>
    <3>1. session' = g.s /\ disk' = g.d /\ UNCHANGED <<steps, wire>>
      BY Zenon, <2>6, <2>7
    <3>2. StillOnce
      BY Zenon, <1>1, <2>3, <2>5, <3>1, LessOnce DEF FetchedOnce
    <3> QED BY Zenon, <1>1, <3>2, StillOnceKeeps
  <2>8. CASE g.got # <<>>
    <3> DEFINE i == Min(free)
    <3>1. free # {} /\ Emit(i, g, 0, wire)
      BY Zenon, <2>6, <2>8
    <3>2. i \in free
      <4>1. free \in SUBSET Nat
        BY DEF StepIds
      <4> QED BY Zenon, <3>1, <4>1, LeastFile
    <3> HIDE DEF i
    <3>3. i \in StepIds /\ wire \subseteq wire
      BY Zenon, <3>2
    <3>4. StillOnce
      BY Zenon, <1>1, <2>3, <2>5, <2>8, <3>1, <3>3, EmitOnce
    <3> QED BY Zenon, <1>1, <3>4, StillOnceKeeps
  <2> QED BY Zenon, <2>7, <2>8
<1> QED BY Zenon, <1>3, <1>4

LEMMA CallbackOnce ==
  ASSUME OInv, KInv', NEW i \in StepIds, Callback(i)
  PROVE  OInv'
<1>1. SessionOK(session, disk) /\ DiskOK(disk) /\ StepsOK /\ WireOK /\ Single(session, disk)
  BY Zenon DEF OInv, KInv
<1>2. PICK m \in wire : /\ m.s = i /\ steps[i].on
                        /\ CallbackNet(i, m) \/ CallbackDone(i, m) \/ CallbackBad(i, m)
  BY Zenon DEF Callback
<1>3. UNCHANGED <<direct, crashes, applied, unsure>>
  BY Zenon DEF Callback
<1>4. m.rec \in Writes /\ steps[i].rec = m.rec /\ i # 0
  <2>1. i # 0
    BY DEF StepIds
  <2> QED BY Zenon, <1>1, <1>2, <2>1 DEF WireOK
<1>5. ASSUME steps' = [steps EXCEPT ![i] = NoStep]
      PROVE  \A j \in StepIds : steps'[j].on => steps'[j] = steps[j] /\ j # i
  <2>1. ~ NoStep.on
    BY Zenon DEF NoStep
  <2> QED BY Zenon, <1>1, <1>5, <2>1 DEF StepsOK
<1>6. CASE CallbackNet(i, m)
  <2>1. /\ session' = GoBack(session, m.rec) /\ disk' = disk /\ m.st = "net"
        /\ steps' = [steps EXCEPT ![i] = NoStep] /\ wire' = wire \ {m}
    BY Zenon, <1>6 DEF CallbackNet
  <2>2. /\ InHand /\ Fresh /\ LooseOnce
        /\ ~ Waiting(session, disk, m.rec) /\ ~ Back(session, m.rec)
    BY Zenon, <1>2, <1>4 DEF OInv, InHand
  <2>3. /\ Single(session', disk')
        /\ \A w : /\ Waiting(session', disk', w) => Waiting(session, disk, w)
                  /\ Back(session', w) => Back(session, w) \/ w = m.rec
    BY Zenon, <1>1, <1>4, <2>1, <2>2, GoBackOnce
  <2>4. InHand'
    <3> SUFFICES ASSUME NEW k \in StepIds, steps'[k].on
                 PROVE  /\ ~ Waiting(session', disk', steps'[k].rec) /\ ~ Back(session', steps'[k].rec)
                        /\ \A j \in StepIds : steps'[j].on /\ steps'[j].rec = steps'[k].rec => k = j
      BY Zenon DEF InHand, Waiting, Back
    <3>1. steps'[k] = steps[k] /\ k # i /\ steps[k].on
      BY Zenon, <1>5, <2>1
    <3>2. steps[k].rec # m.rec
      BY Zenon, <1>2, <1>4, <2>2, <3>1 DEF InHand
    <3> QED BY Zenon, <1>5, <2>1, <2>2, <2>3, <3>1, <3>2 DEF InHand
  <2>5. Fresh'
    <3>1. InStep(m.rec) /\ direct[m.rec] = "done"
      BY Zenon, <1>2, <1>4, <2>2 DEF InStep, Fresh
    <3>2. \A w : InStep(w)' => InStep(w)
      BY Zenon, <1>5, <2>1 DEF InStep
    <3>3. \A w \in Writes : direct'[w] # "done" => ~ Stands(disk', w) /\ ~ Back(session', w) /\ ~ InStep(w)'
      BY Zenon, <1>3, <2>1, <2>2, <2>3, <3>1, <3>2 DEF Fresh
    <3>4. \A q \in wire' : direct'[q.rec] # "new"
      BY Zenon, <1>3, <2>1, <2>2 DEF Fresh
    <3> QED BY Zenon, <1>3, <2>2, <3>3, <3>4 DEF Fresh, Stands, Back
  <2>6. LooseOnce' /\ \A w : Loose(w)' => Loose(w)
    BY Zenon, <1>3, <2>1, <2>2 DEF LooseOnce, Loose
  <2>7. \A w : Held(w)' => Held(w)
    <3>1. \A w : Held(w)' => Waiting(session', disk', w) \/ Back(session', w) \/ Sent(w)'
      BY Zenon DEF Held, Waiting, Back
    <3>2. Sent(m.rec) /\ \A w : Sent(w)' => Sent(w)
      BY Zenon, <1>2, <1>4, <2>1 DEF Sent
    <3> QED BY Zenon, <2>3, <3>1, <3>2 DEF Held
  <2>8. StillOnce
    BY Zenon, <2>3, <2>4, <2>5, <2>6, <2>7 DEF StillOnce
  <2> QED BY Zenon, <1>3, <2>8, StillOnceKeeps
<1>7. CASE CallbackDone(i, m)
  <2> DEFINE g == IF session.on THEN GetSyncData(session) ELSE Nothing(session)
  <2>1. IF g.got # <<>> THEN Emit(i, g, steps[i].to, wire \ {m})
        ELSE /\ session' = g.s /\ disk' = g.d
             /\ steps' = [steps EXCEPT ![i] = NoStep] /\ wire' = wire \ {m}
    BY Zenon, <1>7 DEF CallbackDone
  <2>2. Fetched(session, g) /\ FetchedOnce(session, g)
    <3>1. Fetched(session, Nothing(session))
      BY Zenon, <1>1 DEF Fetched, Nothing
    <3>2. FetchedOnce(session, Nothing(session))
      <4>1. \A w : <<>> # <<w>>
        BY Zenon
      <4> QED BY Zenon, <1>1, <4>1 DEF FetchedOnce, Nothing
    <3> QED BY Zenon, <1>1, <3>1, <3>2, GetSyncDataKeeps, GetSyncDataOnce
  <2> HIDE DEF g
  <2>3. wire \ {m} \subseteq wire
    BY Zenon
  <2>4. CASE g.got # <<>>
    <3>1. Emit(i, g, steps[i].to, wire \ {m})
      BY Zenon, <2>1, <2>4
    <3>2. StillOnce
      BY Zenon, <1>3, <2>2, <2>3, <2>4, <3>1, EmitOnce
    <3> QED BY Zenon, <1>3, <3>2, StillOnceKeeps
  <2>5. CASE g.got = <<>>
    <3>1. /\ session' = g.s /\ disk' = g.d /\ wire' \subseteq wire
          /\ \A j \in StepIds : steps'[j].on => steps'[j] = steps[j]
      BY Zenon, <1>5, <2>1, <2>5
    <3>2. StillOnce
      BY Zenon, <1>3, <2>2, <3>1, LessOnce DEF FetchedOnce
    <3> QED BY Zenon, <1>3, <3>2, StillOnceKeeps
  <2> QED BY Zenon, <2>4, <2>5
<1>8. CASE CallbackBad(i, m)
  <2>1. /\ UNCHANGED <<session, disk>> /\ wire' \subseteq wire
        /\ \A j \in StepIds : steps'[j].on => steps'[j] = steps[j]
    BY Zenon, <1>5, <1>8 DEF CallbackBad
  <2>2. StillOnce
    BY Zenon, <1>1, <1>3, <2>1, LessOnce
  <2> QED BY Zenon, <1>3, <2>2, StillOnceKeeps
<1> QED BY Zenon, <1>2, <1>6, <1>7, <1>8

LEMMA OrphanOf ==
  ASSUME WireOK, NEW I, NEW m \in Orphaned(I), ~ (m \in wire /\ m.s \notin I)
  PROVE  \E q \in wire : /\ q.s \in I /\ q.st = "req"
                         /\ m = [s |-> 0, rec |-> q.rec, st |-> "req"]
                         /\ m.s = 0 /\ m.rec = q.rec /\ m.st = "req"
<1>1. PICK q \in wire : q.s \in I /\ q.st = "req" /\ m = [q EXCEPT !.s = 0]
  BY Zenon DEF Orphaned
<1>2. q \in [s : StepIds \cup {0}, rec : Writes, st : {"req", "ok", "err", "net", "bad"}]
  BY Zenon DEF WireOK
<1>3. m = [s |-> 0, rec |-> q.rec, st |-> "req"]
  BY Zenon, <1>1, <1>2
<1> QED BY Zenon, <1>1, <1>3

LEMMA StepTimeoutOnce ==
  ASSUME OInv, KInv', NEW i \in StepIds, StepTimeout(i)
  PROVE  OInv'
<1>1. /\ SessionOK(session, disk) /\ StepsOK /\ WireOK /\ Single(session, disk)
      /\ InHand /\ Fresh /\ LooseOnce
  BY Zenon DEF OInv, KInv
<1>2. UNCHANGED <<disk, session, direct, crashes, applied, unsure>> /\ steps[i].on
  BY Zenon DEF StepTimeout
<1>3. CASE steps[i].to < TimeOutMax
  <2>1. steps' = [steps EXCEPT ![i].to = @ + 1] /\ wire' = wire
    BY Zenon, <1>3 DEF StepTimeout
  <2>2. steps[i] \in [on : {TRUE}, rec : Writes, to : 0 .. TimeOutMax]
    BY Zenon, <1>1, <1>2, StepOn
  <2>3. \A j \in StepIds : steps'[j].on => steps[j].on /\ steps'[j].rec = steps[j].rec
    BY Zenon, <1>1, <1>2, <2>1, <2>2 DEF StepsOK
  <2>4. StillOnce
    BY Zenon, <1>1, <1>2, <2>1, <2>3, LessOnce
  <2> QED BY Zenon, <1>2, <2>4, StillOnceKeeps
<1>4. CASE ~ (steps[i].to < TimeOutMax)
  <2>1. steps' = [steps EXCEPT ![i] = NoStep] /\ wire' = Orphaned({i})
    BY Zenon, <1>4 DEF StepTimeout
  <2> DEFINE r == steps[i].rec
  <2>2. \A j \in StepIds : steps'[j].on => steps'[j] = steps[j] /\ j # i
    <3>1. ~ NoStep.on
      BY Zenon DEF NoStep
    <3> QED BY Zenon, <1>1, <2>1, <3>1 DEF StepsOK
  <2>3. \A m \in wire' : \/ m \in wire /\ m.s # i
                         \/ /\ m = [s |-> 0, rec |-> r, st |-> "req"] /\ m.s = 0 /\ m.rec = r /\ m.st = "req"
                            /\ \E q \in wire : q.s = i /\ q.st = "req" /\ q.rec = r
    <3>1. i # 0
      BY DEF StepIds
    <3>2. \A q \in wire : q.s = i => q.rec = r
      BY Zenon, <1>1, <3>1 DEF WireOK
    <3>3. \A m \in Orphaned({i}) : ~ (m \in wire /\ m.s \notin {i}) =>
            \E q \in wire : /\ q.s \in {i} /\ q.st = "req"
                            /\ m = [s |-> 0, rec |-> q.rec, st |-> "req"]
                            /\ m.s = 0 /\ m.rec = q.rec /\ m.st = "req"
      BY Zenon, <1>1, OrphanOf
    <3> QED BY Zenon, <2>1, <3>2, <3>3
  <2>4. direct[r] = "done" /\ r \in Writes /\ ~ Waiting(session, disk, r) /\ ~ Back(session, r)
    <3>1. r \in Writes
      BY Zenon, <1>1, <1>2, StepOn
    <3> QED BY Zenon, <1>1, <1>2, <3>1 DEF Fresh, InStep, InHand
  <2>5. InHand'
    <3> SUFFICES ASSUME NEW k \in StepIds, steps'[k].on
                 PROVE  /\ ~ Waiting(session', disk', steps'[k].rec) /\ ~ Back(session', steps'[k].rec)
                        /\ \A j \in StepIds : steps'[j].on /\ steps'[j].rec = steps'[k].rec => k = j
      BY Zenon DEF InHand, Waiting, Back
    <3> QED BY Zenon, <1>1, <1>2, <2>2 DEF InHand
  <2>6. Fresh'
    <3>1. \A w : InStep(w)' => InStep(w)
      BY Zenon, <2>2 DEF InStep
    <3>2. \A w \in Writes : direct'[w] # "done" => ~ Stands(disk', w) /\ ~ Back(session', w) /\ ~ InStep(w)'
      BY Zenon, <1>1, <1>2, <3>1 DEF Fresh
    <3>3. \A m \in wire' : direct'[m.rec] # "new"
      BY Zenon, <1>1, <1>2, <2>3, <2>4 DEF Fresh
    <3> QED BY Zenon, <1>1, <1>2, <3>2, <3>3 DEF Fresh, Stands, Back
  <2>7. LooseOnce'
    <3>1. \A m \in wire' : m.s = 0 /\ m.st # "req" => direct'[m.rec] = "sent"
      BY Zenon, <1>1, <1>2, <2>3 DEF LooseOnce
    <3>2. \A m \in wire : m.s = 0 /\ m.rec = r => m = [s |-> 0, rec |-> r, st |-> "req"]
      <4> SUFFICES ASSUME NEW m \in wire, m.s = 0, m.rec = r
                   PROVE  m = [s |-> 0, rec |-> r, st |-> "req"]
        BY Zenon
      <4>1. m.st = "req"
        BY Zenon, <1>1, <2>4 DEF LooseOnce
      <4>2. m \in [s : StepIds \cup {0}, rec : Writes, st : {"req", "ok", "err", "net", "bad"}]
        BY Zenon, <1>1 DEF WireOK
      <4> QED BY Zenon, <4>1, <4>2
    <3>3. \A m, q \in wire' : m.s = 0 /\ q.s = 0 /\ m.rec = q.rec => m = q
      BY Zenon, <1>1, <2>3, <3>2 DEF LooseOnce
    <3> QED BY Zenon, <3>1, <3>3 DEF LooseOnce
  <2>8. /\ \A w : Sent(w)' => Sent(w) /\ w # r
        /\ \A w : Loose(w)' => Loose(w) \/ (w = r /\ Sent(r))
    <3>1. \A m \in wire' : m.s # 0 => m \in wire /\ m.rec # r
      <4> SUFFICES ASSUME NEW m \in wire', m.s # 0 PROVE m \in wire /\ m.rec # r
        BY Zenon
      <4>1. m \in wire /\ m.s # i
        BY Zenon, <2>3
      <4>2. m.s \in StepIds /\ steps[m.s].on /\ steps[m.s].rec = m.rec
        BY Zenon, <1>1, <4>1 DEF WireOK
      <4> QED BY Zenon, <1>1, <1>2, <4>1, <4>2 DEF InHand
    <3>2. i # 0
      BY DEF StepIds
    <3>3. \A m \in wire' : m.s = 0 => m \in wire \/ (m.rec = r /\ Sent(r))
      BY Zenon, <2>3, <3>2 DEF Sent
    <3> QED BY Zenon, <3>1, <3>3 DEF Sent, Loose
  <2>9. ASSUME NEW w \in Writes
        PROVE  Bounded(w)'
    <3>1. Held(w)' <=> Waiting(session, disk, w) \/ Back(session, w) \/ Sent(w)'
      BY Zenon, <1>2 DEF Held, Waiting, Back
    <3>2. (Held(w)' => Held(w)) /\ (Loose(w)' => Loose(w) \/ (Held(w) /\ ~ Held(w)'))
      BY <2>4, <2>8, <3>1 DEF Held
    <3>3. Chances(w)' <= Chances(w)
      BY <1>2, <3>2 DEF Chances, One
    <3> QED BY Zenon, <1>2, <3>3, BoundedStill
  <2>10. Single(session', disk')
    BY Zenon, <1>1, <1>2
  <2> QED BY Zenon, <1>2, <2>5, <2>6, <2>7, <2>9, <2>10 DEF OInv
<1> QED BY Zenon, <1>3, <1>4

\* A record SyncData takes is new to the files.
LEMMA StoreOnce ==
  ASSUME OInv, NEW w \in Writes, direct[w] # "done", NEW scan \in BOOLEAN, Store(w, scan)
  PROVE  /\ Single(session', disk')
         /\ \A v : /\ Waiting(session', disk', v) => Waiting(session, disk, v) \/ v = w
                   /\ Back(session', v) => Back(session, v)
                   /\ Stands(disk', v) => Stands(disk, v) \/ v = w
<1> DEFINE x == GetSessionSyncDbData
<1>1. /\ now \in Minutes /\ SessionOK(session, disk) /\ DiskOK(disk) /\ Single(session, disk) /\ Fresh
  BY Zenon DEF OInv, KInv
<1>2. /\ SessionOK(x, disk) /\ x.on
      /\ \A v : (Waiting(x, disk, v) <=> Waiting(session, disk, v)) /\ (Back(x, v) <=> Back(session, v))
      /\ x.waitR = session.waitR
  <2>1. CASE session.on
    <3>1. x = session
      BY Zenon, <2>1 DEF GetSessionSyncDbData
    <3> QED BY Zenon, <1>1, <2>1, <3>1
  <2>2. CASE ~ session.on
    <3>1. x = SessionNew /\ session = NoSession
      BY Zenon, <1>1, <2>2 DEF GetSessionSyncDbData, SessionOK
    <3>2. \A v : Waiting(SessionNew, disk, v) <=> Waiting(NoSession, disk, v)
      <4>1. \A f \in DOMAIN disk : f # 0
        BY Zenon, <1>1, MinuteFacts DEF DiskOK
      <4> QED BY Zenon, <4>1, NewOK DEF Waiting
    <3>3. \A v : Back(SessionNew, v) <=> Back(NoSession, v)
      BY Zenon, NewOK DEF Back
    <3> QED BY Zenon, <3>1, <3>2, <3>3, NewOK
  <2> QED BY Zenon, <2>1, <2>2
<1> HIDE DEF x
<1>3. PICK o \in SyncData(x, w) :
        /\ disk' = o.d
        /\ session' = IF o.ok /\ scan THEN ScanSyncData(o.s, o.d) ELSE o.s
  BY Zenon DEF Store, x
<1>4. Single(x, disk)
  BY Zenon, <1>1, <1>2 DEF Single
<1>5. ~ Stands(disk, w) /\ ~ Back(x, w)
  BY Zenon, <1>1, <1>2 DEF Fresh
<1>6. /\ Single(o.s, o.d)
      /\ \A v : /\ Waiting(o.s, o.d, v) => Waiting(x, disk, v) \/ v = w
                /\ Back(o.s, v) => Back(x, v)
                /\ Stands(o.d, v) => Stands(disk, v) \/ v = w
  BY Zenon, <1>1, <1>2, <1>4, <1>5, SyncDataOnce
<1>7. session'.rfile = o.s.rfile /\ session'.roff = o.s.roff /\ session'.waitR = o.s.waitR
  <2>1. CASE o.ok /\ scan
    <3>1. PICK s : s = o.s
      BY Zenon
    <3>2. PICK y : y = session'
      BY Zenon
    <3>3. IsSession(s)
      BY Zenon, <1>1, <1>2, <3>1, SyncDataKeeps DEF SessionOK
    <3>4. y = [s EXCEPT !.files = @ \cup DOMAIN o.d]
      BY Zenon, <1>3, <2>1, <3>1, <3>2 DEF ScanSyncData
    <3>5. y.rfile = s.rfile /\ y.roff = s.roff /\ y.waitR = s.waitR
      BY Zenon, <3>3, <3>4 DEF IsSession, Fields
    <3> QED BY Zenon, <3>1, <3>2, <3>5
  <2>2. CASE ~ (o.ok /\ scan)
    BY Zenon, <1>3, <2>2
  <2> QED BY Zenon, <2>1, <2>2
<1>8. \A v : (Waiting(session', o.d, v) <=> Waiting(o.s, o.d, v)) /\ (Back(session', v) <=> Back(o.s, v))
  BY Zenon, <1>7, SameReading
<1>9. Single(session', o.d)
  BY Zenon, <1>6, <1>7, <1>8 DEF Single
<1> QED BY Zenon, <1>2, <1>3, <1>6, <1>8, <1>9

\* The own step of w is done: what it did not send or got back it may have stored.
LEMMA DoneOnce ==
  ASSUME OInv, KInv', NEW w \in Writes, direct[w] # "done", direct' = [direct EXCEPT ![w] = "done"],
         UNCHANGED <<steps, crashes, applied, unsure>>, wire' \subseteq wire,
         \A m \in wire' : m.s = 0 /\ m.rec = w => m.st = "req",
         Single(session', disk'),
         \A v : /\ Waiting(session', disk', v) => Waiting(session, disk, v) \/ v = w
                /\ Back(session', v) => Back(session, v)
                /\ Stands(disk', v) => Stands(disk, v) \/ v = w,
         Waiting(session', disk', w) => direct[w] = "new" \/ (Loose(w) /\ ~ Loose(w)')
  PROVE  OInv'
<1>1. InHand /\ Fresh /\ LooseOnce /\ WireOK /\ direct \in [Writes -> {"new", "sent", "done"}]
  BY Zenon DEF OInv, KInv, Fresh
<1>2. /\ direct' \in [Writes -> {"new", "sent", "done"}] /\ direct'[w] = "done"
      /\ \A v \in Writes : v # w => direct'[v] = direct[v]
  BY Zenon, <1>1
<1>3. ~ Stands(disk, w) /\ ~ Back(session, w) /\ ~ InStep(w)
  BY Zenon, <1>1 DEF Fresh
<1>4. InHand'
  <2> SUFFICES ASSUME NEW k \in StepIds, steps'[k].on
               PROVE  /\ ~ Waiting(session', disk', steps'[k].rec) /\ ~ Back(session', steps'[k].rec)
                      /\ \A j \in StepIds : steps'[j].on /\ steps'[j].rec = steps'[k].rec => k = j
    BY Zenon DEF InHand, Waiting, Back
  <2>1. steps' = steps /\ steps[k].on /\ steps[k].rec # w
    BY Zenon, <1>3 DEF InStep
  <2> QED BY Zenon, <1>1, <2>1 DEF InHand
<1>5. \A m \in wire : m.rec \in Writes
  BY Zenon, <1>1 DEF WireOK
<1>6. Fresh'
  <2>1. \A v \in Writes : direct'[v] # "done" => ~ Stands(disk', v) /\ ~ Back(session', v) /\ ~ InStep(v)'
    <3>1. \A v : InStep(v)' => InStep(v)
      BY Zenon DEF InStep
    <3> QED BY Zenon, <1>1, <1>2, <3>1 DEF Fresh
  <2>2. \A m \in wire' : direct'[m.rec] # "new"
    BY Zenon, <1>1, <1>2, <1>5 DEF Fresh
  <2> QED BY Zenon, <1>2, <2>1, <2>2 DEF Fresh, Stands, Back
<1>7. LooseOnce'
  BY Zenon, <1>1, <1>2, <1>5 DEF LooseOnce
<1>8. \A v : (Sent(v)' => Sent(v)) /\ (Loose(v)' => Loose(v))
  BY Zenon DEF Sent, Loose
<1>9. ~ Held(w)
  <2>1. ~ Waiting(session, disk, w)
    BY Zenon, <1>3, WaitingStands
  <2>2. ~ Sent(w)
    <3>1. \A m \in wire : m.s # 0 => m.s \in StepIds /\ steps[m.s].on /\ steps[m.s].rec = m.rec
      BY Zenon, <1>1 DEF WireOK
    <3> QED BY Zenon, <1>3, <3>1 DEF Sent, InStep
  <2> QED BY Zenon, <1>3, <2>1, <2>2 DEF Held
<1>10. \A v : Held(v)' => Waiting(session', disk', v) \/ Back(session', v) \/ Sent(v)'
  BY Zenon DEF Held, Waiting, Back
<1>11. ASSUME NEW v \in Writes
       PROVE  Bounded(v)'
  <2>1. CASE v # w
    <3>1. (Held(v)' => Held(v)) /\ (Loose(v)' => Loose(v)) /\ direct'[v] = direct[v]
      BY Zenon, <1>2, <1>8, <1>10, <2>1 DEF Held
    <3>2. Chances(v)' <= Chances(v)
      BY <3>1 DEF Chances, One
    <3> QED BY Zenon, <3>2, BoundedStill
  <2>2. CASE v = w
    <3>1. /\ direct'[v] # "new" /\ ~ Held(v) /\ (Loose(v)' => Loose(v))
          /\ Held(v)' => direct[v] = "new" \/ (Loose(v) /\ ~ Loose(v)')
      BY Zenon, <1>2, <1>8, <1>9, <1>10, <2>2 DEF Held
    <3>2. Chances(v)' <= Chances(v)
      BY <3>1 DEF Chances, One
    <3> QED BY Zenon, <3>2, BoundedStill
  <2> QED BY Zenon, <2>1, <2>2
<1> QED BY Zenon, <1>4, <1>6, <1>7, <1>11 DEF OInv

LEMMA DbWriteOnce ==
  ASSUME OInv, KInv', NEW w \in Writes, DbWrite(w)
  PROVE  OInv'
<1>1. direct[w] = "new" /\ UNCHANGED <<steps, crashes, applied, unsure>>
  BY Zenon DEF DbWrite
<1>2. InHand /\ Fresh /\ LooseOnce /\ WireOK /\ Single(session, disk)
  BY Zenon DEF OInv, KInv
<1>3. \A m \in wire : m.rec # w
  BY Zenon, <1>1, <1>2 DEF Fresh
<1>4. CASE ~ agent
  <2>1. direct' = [direct EXCEPT ![w] = "done"] /\ wire' = wire /\ Store(w, FALSE)
    BY Zenon, <1>4 DEF DbWrite
  <2>2. /\ Single(session', disk')
        /\ \A v : /\ Waiting(session', disk', v) => Waiting(session, disk, v) \/ v = w
                  /\ Back(session', v) => Back(session, v)
                  /\ Stands(disk', v) => Stands(disk, v) \/ v = w
    BY Zenon, <1>1, <2>1, StoreOnce
  <2> QED BY Zenon, <1>1, <1>3, <2>1, <2>2, DoneOnce
<1>5. CASE agent
  <2>1. /\ direct' = [direct EXCEPT ![w] = "sent"] /\ wire' = wire \cup {Msg(0, w, "req")}
        /\ UNCHANGED <<disk, session>>
    BY Zenon, <1>5 DEF DbWrite
  <2>2. PICK q : q = Msg(0, w, "req")
    BY Zenon
  <2>3. q.s = 0 /\ q.rec = w /\ q.st = "req" /\ wire' = wire \cup {q}
    BY Zenon, <2>1, <2>2 DEF Msg
  <2>4. /\ direct' \in [Writes -> {"new", "sent", "done"}] /\ direct'[w] = "sent"
        /\ \A v \in Writes : v # w => direct'[v] = direct[v]
    BY Zenon, <1>2, <2>1 DEF Fresh
  <2>5. Single(session', disk') /\ InHand'
    BY Zenon, <1>1, <1>2, <2>1 DEF InHand, Waiting, Back
  <2>6. \A m \in wire : m.rec \in Writes
    BY Zenon, <1>2 DEF WireOK
  <2>7. Fresh'
    <3>1. \A v \in Writes : direct'[v] # "done" => ~ Stands(disk', v) /\ ~ Back(session', v) /\ ~ InStep(v)'
      <4>1. \A v : InStep(v)' => InStep(v)
        BY Zenon, <1>1 DEF InStep
      <4> QED BY Zenon, <1>1, <1>2, <2>1, <2>4, <4>1 DEF Fresh
    <3>2. \A m \in wire' : direct'[m.rec] # "new"
      BY Zenon, <1>2, <2>3, <2>4, <2>6 DEF Fresh
    <3> QED BY Zenon, <2>4, <3>1, <3>2 DEF Fresh, Stands, Back
  <2>8. LooseOnce'
    BY Zenon, <1>2, <1>3, <2>3, <2>4, <2>6 DEF LooseOnce
  <2>9. \A v : (Sent(v)' => Sent(v)) /\ (Loose(v)' => Loose(v) \/ v = w)
    BY Zenon, <2>3 DEF Sent, Loose
  <2>10. ~ Loose(w)
    BY Zenon, <1>3 DEF Loose
  <2>11. \A v : Held(v)' => Held(v)
    BY Zenon, <2>1, <2>9 DEF Held, Waiting, Back
  <2>12. ASSUME NEW v \in Writes
         PROVE  Bounded(v)'
    <3>1. Chances(v)' <= Chances(v)
      <4>1. CASE v # w
        <5>1. (Held(v)' => Held(v)) /\ (Loose(v)' => Loose(v)) /\ direct'[v] = direct[v]
          BY Zenon, <2>4, <2>9, <2>11, <4>1
        <5> QED BY <5>1 DEF Chances, One
      <4>2. CASE v = w
        <5>1. (Held(v)' => Held(v)) /\ direct[v] = "new" /\ direct'[v] # "new" /\ ~ Loose(v)
          BY Zenon, <1>1, <2>4, <2>10, <2>11, <4>2
        <5> QED BY <5>1 DEF Chances, One
      <4> QED BY Zenon, <4>1, <4>2
    <3> QED BY Zenon, <1>1, <3>1, BoundedStill
  <2> QED BY Zenon, <1>1, <2>5, <2>7, <2>8, <2>12 DEF OInv
<1> QED BY Zenon, <1>4, <1>5

LEMMA DbCallbackOnce ==
  ASSUME OInv, KInv', NEW w \in Writes, DbCallback(w)
  PROVE  OInv'
<1>1. /\ direct[w] = "sent" /\ direct' = [direct EXCEPT ![w] = "done"]
      /\ UNCHANGED <<steps, crashes, applied, unsure>>
  BY Zenon DEF DbCallback
<1>2. Fresh /\ LooseOnce /\ Single(session, disk)
  BY Zenon DEF OInv, KInv
<1>3. PICK m \in wire : /\ m.s = 0 /\ m.rec = w /\ wire' = wire \ {m}
                        /\ \/ m.st = "net" /\ Store(w, TRUE)
                           \/ UNCHANGED <<disk, session>>
  BY Zenon DEF DbCallback
<1>4. \A q \in wire' : ~ (q.s = 0 /\ q.rec = w)
  BY Zenon, <1>2, <1>3 DEF LooseOnce
<1>5. ~ Loose(w)'
  BY Zenon, <1>4 DEF Loose
<1>6. CASE m.st = "net" /\ Store(w, TRUE)
  <2>1. Loose(w)
    BY Zenon, <1>3, <1>6 DEF Loose
  <2>2. /\ Single(session', disk')
        /\ \A v : /\ Waiting(session', disk', v) => Waiting(session, disk, v) \/ v = w
                  /\ Back(session', v) => Back(session, v)
                  /\ Stands(disk', v) => Stands(disk, v) \/ v = w
    BY Zenon, <1>1, <1>6, StoreOnce
  <2>3. wire' \subseteq wire
    BY Zenon, <1>3
  <2> QED BY Zenon, <1>1, <1>4, <1>5, <2>1, <2>2, <2>3, DoneOnce
<1>7. CASE UNCHANGED <<disk, session>>
  <2>1. ~ Waiting(session', disk', w)
    BY Zenon, <1>1, <1>2, <1>7, WaitingStands DEF Fresh
  <2>2. wire' \subseteq wire /\ Single(session', disk')
    BY Zenon, <1>2, <1>3, <1>7
  <2> QED BY Zenon, <1>1, <1>4, <1>7, <2>1, <2>2, DoneOnce
<1> QED BY Zenon, <1>3, <1>6, <1>7

LEMMA DbTimeoutOnce ==
  ASSUME OInv, KInv', NEW w \in Writes, DbTimeout(w)
  PROVE  OInv'
<1>1. /\ direct[w] = "sent" /\ direct' = [direct EXCEPT ![w] = "done"]
      /\ wire' = {m \in wire : m.rec = w => m.st = "req"}
      /\ UNCHANGED <<disk, session, steps, crashes, applied, unsure>>
  BY Zenon DEF DbTimeout
<1>2. Fresh /\ Single(session, disk)
  BY Zenon DEF OInv
<1>3. ~ Waiting(session', disk', w)
  BY Zenon, <1>1, <1>2, WaitingStands DEF Fresh
<1>4. wire' \subseteq wire /\ \A m \in wire' : m.s = 0 /\ m.rec = w => m.st = "req"
  BY Zenon, <1>1
<1> QED BY Zenon, <1>1, <1>2, <1>3, <1>4, DoneOnce

\* A request that DbAgent works on is one chance less, unless it says it failed.
LEMMA AgentAnswersOnce ==
  ASSUME OInv, KInv', AgentAnswers
  PROVE  OInv'
<1>1. UNCHANGED <<disk, session, steps, direct, crashes>>
  BY Zenon DEF AgentAnswers
<1>2. /\ InHand /\ Fresh /\ LooseOnce /\ WireOK /\ Single(session, disk)
      /\ applied \in [Writes -> Nat] /\ unsure \in [Writes -> Nat] /\ crashes \in Nat
  BY Zenon DEF OInv, KInv
<1>3. PICK m \in wire, st \in {"ok", "err", "net", "bad"}, done \in BOOLEAN :
        /\ m.st = "req" /\ (st = "ok" => done) /\ (st \in {"err", "bad"} => ~done)
        /\ wire' = (wire \ {m}) \cup {[q EXCEPT !.st = st] : q \in {m} \cap Awaited}
        /\ applied' = [applied EXCEPT ![m.rec] = @ + IF done THEN 1 ELSE 0]
        /\ unsure' = [unsure EXCEPT ![m.rec] = @ + IF done /\ st = "net" THEN 1 ELSE 0]
  BY ZenonT(30) DEF AgentAnswers
<1> DEFINE R == [s : StepIds \cup {0}, rec : Writes, st : {"req", "ok", "err", "net", "bad"}]
           w == m.rec
<1>4. m \in R /\ w \in Writes
  BY Zenon, <1>2 DEF WireOK
<1>5. PICK n : n = [m EXCEPT !.st = st]
  BY Zenon
<1>6. n.s = m.s /\ n.rec = w /\ n.st = st
  BY Zenon, <1>4, <1>5
<1>7. \A q \in wire' : \/ q \in wire /\ q # m
                       \/ q = n /\ (m.s = 0 => direct[w] = "sent")
  BY Zenon, <1>3, <1>5 DEF Awaited
<1>8. Single(session', disk') /\ InHand'
  BY Zenon, <1>1, <1>2 DEF InHand, Waiting, Back
<1>9. Fresh'
  <2>1. \A v \in Writes : direct'[v] # "done" => ~ Stands(disk', v) /\ ~ Back(session', v) /\ ~ InStep(v)'
    <3>1. \A v : InStep(v)' => InStep(v)
      BY Zenon, <1>1 DEF InStep
    <3> QED BY Zenon, <1>1, <1>2, <3>1 DEF Fresh
  <2>2. \A q \in wire' : direct'[q.rec] # "new"
    BY Zenon, <1>1, <1>2, <1>6, <1>7 DEF Fresh
  <2> QED BY Zenon, <1>1, <1>2, <2>1, <2>2 DEF Fresh, Stands, Back
<1>10. LooseOnce'
  <2>1. \A q \in wire' : q.s = 0 /\ q.st # "req" => direct'[q.rec] = "sent"
    BY Zenon, <1>1, <1>2, <1>6, <1>7 DEF LooseOnce
  <2>2. \A p, q \in wire' : p.s = 0 /\ q.s = 0 /\ p.rec = q.rec => p = q
    BY Zenon, <1>2, <1>6, <1>7 DEF LooseOnce
  <2> QED BY Zenon, <2>1, <2>2 DEF LooseOnce
<1>11. /\ \A v : (Sent(v)' => Sent(v)) /\ (Loose(v)' => Loose(v))
       /\ m.s = 0 => Loose(w)
       /\ m.s # 0 => Sent(w)
  BY Zenon, <1>3, <1>6, <1>7 DEF Sent, Loose
<1>12. \A v : Held(v)' <=> Waiting(session, disk, v) \/ Back(session, v) \/ Sent(v)'
  BY Zenon, <1>1 DEF Held, Waiting, Back
<1>13. ASSUME st # "net"
       PROVE  (m.s = 0 => ~ Loose(w)') /\ (m.s # 0 => ~ Held(w)')
  <2>1. st # "req"
    BY Zenon
  <2>2. ASSUME m.s = 0 PROVE ~ Loose(w)'
    BY Zenon, <1>2, <1>6, <1>7, <1>13, <2>1, <2>2 DEF LooseOnce, Loose
  <2>3. ASSUME m.s # 0 PROVE ~ Held(w)'
    <3>1. m.s \in StepIds /\ steps[m.s].on /\ steps[m.s].rec = w
      BY Zenon, <1>2, <1>4, <2>3 DEF WireOK
    <3>2. ~ Waiting(session, disk, w) /\ ~ Back(session, w)
      BY Zenon, <1>2, <3>1 DEF InHand
    <3>3. ASSUME NEW q \in wire', q.s # 0, q.rec = w, q.st \in {"req", "net"}
          PROVE  FALSE
      <4>1. q \in wire /\ q # m
        BY Zenon, <1>6, <1>7, <1>13, <2>1, <3>3
      <4>2. q.s \in StepIds /\ steps[q.s].on /\ steps[q.s].rec = w
        BY Zenon, <1>2, <3>3, <4>1 DEF WireOK
      <4>3. q.s = m.s
        BY Zenon, <1>2, <3>1, <4>2 DEF InHand
      <4> QED BY Zenon, <1>2, <2>3, <4>1, <4>3 DEF WireOK
    <3> QED BY Zenon, <1>12, <3>2, <3>3 DEF Sent
  <2> QED BY Zenon, <2>2, <2>3
<1>14. ASSUME NEW v \in Writes
       PROVE  Bounded(v)'
  <2>1. /\ Bounded(v) /\ (Held(v)' => Held(v)) /\ (Loose(v)' => Loose(v)) /\ direct' = direct
        /\ applied[v] \in Nat /\ unsure[v] \in Nat
    BY Zenon, <1>1, <1>2, <1>11, <1>12 DEF OInv, Held
  <2>2. Chances(v)' <= Chances(v)
    BY <2>1 DEF Chances, One
  <2>3. Chances(v) \in Nat /\ Chances(v)' \in Nat
    BY Zenon, ChancesNat
  <2>4. applied[v] + Chances(v) <= 1 + crashes + unsure[v]
    BY Zenon, <2>1 DEF Bounded
  <2>5. CASE v # w \/ ~ done
    <3>1. applied'[v] = applied[v] /\ unsure'[v] = unsure[v]
      BY <1>2, <1>3, <2>5
    <3>2. applied'[v] + Chances(v)' <= 1 + crashes' + unsure'[v]
      BY <1>1, <1>2, <2>1, <2>2, <2>3, <2>4, <3>1
    <3> QED BY Zenon, <3>2 DEF Bounded
  <2>6. CASE v = w /\ done /\ st = "net"
    <3>1. applied'[v] = applied[v] + 1 /\ unsure'[v] = unsure[v] + 1
      BY Zenon, <1>2, <1>3, <1>4, <2>6
    <3>2. applied'[v] + Chances(v)' <= 1 + crashes' + unsure'[v]
      BY <1>1, <1>2, <2>1, <2>2, <2>3, <2>4, <3>1
    <3> QED BY Zenon, <3>2 DEF Bounded
  <2>7. CASE v = w /\ done /\ st # "net"
    <3>1. applied'[v] = applied[v] + 1 /\ unsure'[v] = unsure[v]
      BY <1>2, <1>3, <1>4, <2>7
    <3>2. (Loose(v) /\ ~ Loose(v)') \/ (Held(v) /\ ~ Held(v)')
      BY Zenon, <1>11, <1>13, <2>7 DEF Held
    <3>3. Chances(v)' + 1 <= Chances(v)
      BY <2>1, <3>2 DEF Chances, One
    <3>4. applied'[v] + Chances(v)' <= 1 + crashes' + unsure'[v]
      BY <1>1, <1>2, <2>1, <2>3, <2>4, <3>1, <3>3
    <3> QED BY Zenon, <3>4 DEF Bounded
  <2> QED BY Zenon, <2>5, <2>6, <2>7
<1>15. crashes' \in Nat /\ unsure' \in [Writes -> Nat]
  BY <1>1, <1>2, <1>3, <1>4
<1> QED BY Zenon, <1>8, <1>9, <1>10, <1>14, <1>15 DEF OInv

\* A crash: what is in the files is read again, what was sent may still arrive.
LEMMA CrashOnce ==
  ASSUME OInv, KInv', Crash
  PROVE  OInv'
<1>1. /\ Fresh /\ WireOK /\ SessionOK(session, disk) /\ DiskOK(disk) /\ Single(session, disk)
      /\ crashes \in Nat /\ applied \in [Writes -> Nat] /\ unsure \in [Writes -> Nat]
      /\ direct \in [Writes -> {"new", "sent", "done"}]
  BY Zenon DEF OInv, KInv, Fresh
<1>2. /\ UNCHANGED <<disk, applied, unsure>> /\ crashes' = crashes + 1
      /\ session' = IF DOMAIN disk = {} THEN NoSession ELSE ScanSyncData(SessionNew, disk)
      /\ steps' = [i \in StepIds |-> NoStep]
      /\ direct' = [v \in Writes |-> IF direct[v] = "sent" THEN "done" ELSE direct[v]]
      /\ wire' = {m \in Orphaned(StepIds) : m.st = "req"}
  BY Zenon DEF Crash
<1>3. session'.waitR = <<>>
  <2>1. PICK s : s = SessionNew
    BY Zenon
  <2>2. IsSession(s) /\ s.waitR = <<>>
    BY Zenon, <2>1, NewOK DEF SessionOK
  <2>3. PICK y : y = ScanSyncData(SessionNew, disk)
    BY Zenon
  <2>4. y = [s EXCEPT !.files = @ \cup DOMAIN disk]
    BY Zenon, <2>1, <2>3 DEF ScanSyncData
  <2>5. y.waitR = <<>>
    BY Zenon, <2>2, <2>4 DEF IsSession, Fields
  <2> QED BY Zenon, <1>2, <2>3, <2>5, NewOK
<1>4. \A v : ~ Back(session', v)
  BY <1>3 DEF Back
<1>5. Single(session', disk')
  <2>1. \A k, j \in 1 .. Len(session'.waitR) : session'.waitR[k] = session'.waitR[j] => k = j
    BY <1>3
  <2> QED BY <1>1, <1>2, <1>4, <2>1 DEF Single
<1>6. \A j \in StepIds : ~ steps'[j].on
  BY Zenon, <1>2 DEF NoStep
<1>7. InHand' /\ \A v : ~ InStep(v)'
  BY Zenon, <1>6 DEF InHand, InStep
<1>8. /\ direct' \in [Writes -> {"new", "sent", "done"}]
      /\ \A v \in Writes : (direct'[v] = "new" <=> direct[v] = "new") /\ (direct'[v] # "done" => direct[v] # "done")
  BY Zenon, <1>1, <1>2
<1>9. ASSUME NEW m \in wire'
      PROVE  /\ m.s = 0 /\ m = [s |-> 0, rec |-> m.rec, st |-> "req"]
             /\ \E q \in wire : q.rec = m.rec /\ q.st = "req" /\ (q.s = 0 => q = m)
  <2>1. m \in Orphaned(StepIds) /\ m.st = "req"
    BY Zenon, <1>2
  <2>2. CASE m \in wire /\ m.s \notin StepIds
    <3>1. m \in [s : StepIds \cup {0}, rec : Writes, st : {"req", "ok", "err", "net", "bad"}]
      BY Zenon, <1>1, <2>2 DEF WireOK
    <3> QED BY Zenon, <2>1, <2>2, <3>1
  <2>3. CASE ~ (m \in wire /\ m.s \notin StepIds)
    <3>1. 0 \notin StepIds
      BY DEF StepIds
    <3> QED BY <1>1, <2>1, <2>3, <3>1, OrphanOf
  <2> QED BY Zenon, <2>2, <2>3
<1>10. \A m \in wire : m.rec \in Writes
  BY Zenon, <1>1 DEF WireOK
<1>11. Fresh'
  <2>1. \A v \in Writes : direct'[v] # "done" => ~ Stands(disk', v) /\ ~ Back(session', v) /\ ~ InStep(v)'
    BY Zenon, <1>1, <1>2, <1>4, <1>7, <1>8 DEF Fresh
  <2>2. \A m \in wire' : direct'[m.rec] # "new"
    BY Zenon, <1>1, <1>8, <1>9, <1>10 DEF Fresh
  <2> QED BY Zenon, <1>8, <2>1, <2>2 DEF Fresh, Stands, Back
<1>12. LooseOnce'
  <2>1. \A m \in wire' : m.st = "req"
    BY Zenon, <1>2
  <2>2. \A m, q \in wire' : m.rec = q.rec => m = q
    BY Zenon, <1>9
  <2> QED BY Zenon, <2>1, <2>2 DEF LooseOnce
<1>13. \A v : Loose(v)' => Loose(v) \/ Held(v)
  BY Zenon, <1>9 DEF Loose, Held, Sent
<1>14. ASSUME NEW v \in Writes
       PROVE  Bounded(v)'
  <2>1. /\ Bounded(v) /\ (Loose(v)' => Loose(v) \/ Held(v)) /\ (direct'[v] = "new" => direct[v] = "new")
        /\ applied'[v] = applied[v] /\ unsure'[v] = unsure[v] /\ applied[v] \in Nat /\ unsure[v] \in Nat
    BY Zenon, <1>1, <1>2, <1>8, <1>13 DEF OInv
  <2>2. Chances(v)' <= Chances(v) + 1
    BY <2>1 DEF Chances, One
  <2>3. Chances(v) \in Nat /\ Chances(v)' \in Nat
    BY Zenon, ChancesNat
  <2>4. applied[v] + Chances(v) <= 1 + crashes + unsure[v]
    BY Zenon, <2>1 DEF Bounded
  <2>5. applied'[v] + Chances(v)' <= 1 + crashes' + unsure'[v]
    BY <1>1, <1>2, <2>1, <2>2, <2>3, <2>4
  <2> QED BY Zenon, <2>5 DEF Bounded
<1> QED BY <1>1, <1>2, <1>5, <1>7, <1>11, <1>12, <1>14 DEF OInv

LEMMA NextOInv == OInv /\ [Next]_vars => OInv'
<1> SUFFICES ASSUME OInv, [Next]_vars
             PROVE  OInv'
  BY Zenon
<1>0. KInv' /\ Single(session, disk)
  BY Zenon, NextKInv DEF OInv
<1>1. ASSUME UNCHANGED <<disk, session, steps, direct, wire, crashes, applied, unsure>>
      PROVE  OInv'
  <2>1. StillOnce
    BY Zenon, <1>0, <1>1, LessOnce
  <2> QED BY Zenon, <1>0, <1>1, <2>1, StillOnceKeeps
<1>2. CASE SessionTimeout
  BY Zenon, <1>0, <1>2, SessionTimeoutOnce
<1>3. CASE AgentAnswers
  BY Zenon, <1>0, <1>3, AgentAnswersOnce
<1>4. CASE AgentFlips
  BY Zenon, <1>1, <1>4 DEF AgentFlips
<1>5. CASE Tick
  BY Zenon, <1>1, <1>5 DEF Tick
<1>6. CASE Crash
  BY Zenon, <1>0, <1>6, CrashOnce
<1>7. ASSUME NEW i \in StepIds, Callback(i) PROVE OInv'
  BY Zenon, <1>0, <1>7, CallbackOnce
<1>8. ASSUME NEW i \in StepIds, StepTimeout(i) PROVE OInv'
  BY Zenon, <1>0, <1>8, StepTimeoutOnce
<1>9. ASSUME NEW w \in Writes, DbWrite(w) PROVE OInv'
  BY Zenon, <1>0, <1>9, DbWriteOnce
<1>10. ASSUME NEW w \in Writes, DbCallback(w) PROVE OInv'
  BY Zenon, <1>0, <1>10, DbCallbackOnce
<1>11. ASSUME NEW w \in Writes, DbTimeout(w) PROVE OInv'
  BY Zenon, <1>0, <1>11, DbTimeoutOnce
<1>12. CASE UNCHANGED vars
  BY Zenon, <1>1, <1>12 DEF vars
<1> QED BY Zenon, <1>2, <1>3, <1>4, <1>5, <1>6, <1>7, <1>8, <1>9, <1>10, <1>11, <1>12 DEF Next

LEMMA InitOInv == Init => OInv
<1> SUFFICES ASSUME Init PROVE OInv
  BY Zenon
<1>1. KInv
  BY Zenon, InitKInv
<1>2. /\ DOMAIN disk = {} /\ session.waitR = <<>> /\ wire = {} /\ crashes = 0
      /\ \A i \in StepIds : ~ steps[i].on
  BY NewOK DEF Init, NoStep
<1>3. \A w : ~ Waiting(session, disk, w) /\ ~ Back(session, w) /\ ~ Sent(w) /\ ~ Loose(w) /\ ~ InStep(w) /\ ~ Stands(disk, w)
  BY <1>2 DEF Waiting, Back, Sent, Loose, InStep, Stands
<1>4. Single(session, disk) /\ InHand /\ Fresh /\ LooseOnce
  <2>1. Single(session, disk)
    BY <1>2, <1>3 DEF Single
  <2>2. direct \in [Writes -> {"new", "sent", "done"}]
    BY Zenon DEF Init
  <2> QED BY Zenon, <1>2, <1>3, <2>1, <2>2 DEF InHand, Fresh, LooseOnce
<1>5. ASSUME NEW w \in Writes PROVE Bounded(w)
  <2>1. applied[w] = 0 /\ unsure[w] = 0 /\ ~ Held(w) /\ ~ Loose(w)
    BY Zenon, <1>3 DEF Init, Held
  <2> QED BY <1>2, <2>1 DEF Bounded, Chances, One
<1> QED BY Zenon, <1>1, <1>4, <1>5 DEF OInv, Init

\* A write reaches the database once in each life of the Worker at most, and once more
\* for each time the database had done it and a connection error was answered: for any
\* writes of any sizes, numbers of steps, failures and crashes, and however long it runs.
THEOREM SentOnce == Spec => []OncePerLife
<1>1. OInv => OncePerLife
  <2> SUFFICES ASSUME OInv, NEW w \in Writes
               PROVE  applied[w] <= 1 + crashes + unsure[w]
    BY Zenon DEF OncePerLife
  <2>1. /\ applied[w] + Chances(w) <= 1 + crashes + unsure[w] /\ applied[w] \in Nat
        /\ unsure[w] \in Nat /\ crashes \in Nat
    BY Zenon DEF OInv, KInv, Bounded
  <2> QED BY <2>1, ChancesNat
<1> QED BY <1>1, InitOInv, NextOInv, PTL DEF Spec
=============================================================================
